-------------------------- MODULE TaskFilesProofs --------------------------
(* The task store at the granularity of its file operations keeps the task, *)
(* for any number of concurrent calls, any requests of them, any number of  *)
(* crashes and any directories, as long as it is used in one of two ways:   *)
(* every call holds the per-task mutex from its first read on, or the calls *)
(* come one at a time and none of them is delete() or writeTaskOutput().    *)
(*                                                                          *)
(* The argument: at most one call is past its first read (Mutex), so what   *)
(* it has read so far is what the files hold (CallsInStep); the files hold  *)
(* one copy, or two of which the newer is the task, at most one of them out *)
(* of place, and then in the window of a cancel (OnDisk, InDirectory); and  *)
(* there is always one companion directory (OneCompanion).                  *)
EXTENDS TaskFiles, FiniteSetTheorems, TLAPS

OnlyLocked(m) == \A r \in m.requests : r.op \in Locked

DisciplinedUse(m) ==
    \/ OnlyLocked(m)
    \/ m.overlap <= 1 /\ \A r \in m.requests : r.op \notin {"delete", "output"}

Busy(p) == pc[p] # "idle"
Active(p) == pc[p] \notin {"idle", "queued"}

(* The calls in progress and the mutex's queue agree, and at most one call  *)
(* is past its first read.                                                  *)
Queue ==
    /\ \A i, j \in 1..Len(lockQ) : lockQ[i] = lockQ[j] => i = j
    /\ \A i \in 1..Len(lockQ) : Busy(lockQ[i]) /\ req[lockQ[i]].op \in Locked
    /\ \A p \in Procs : Active(p) /\ req[p].op \in Locked => lockQ # <<>> /\ Head(lockQ) = p

Discipline ==
    /\ OnlyLocked(mix) => \A p \in Procs : Busy(p) => req[p].op \in Locked
    /\ ~OnlyLocked(mix) => \A p, q \in Procs : Busy(p) /\ Busy(q) => p = q
    /\ \A p \in Procs : Busy(p) => req[p].op \notin {"delete", "output"}

Down == ~up => lockQ = <<>> /\ \A p \in Procs : ~Busy(p)

Mutex == Queue /\ Discipline /\ Down

(* The task's files: the copy that counts and, when they differ, an older   *)
(* one.                                                                     *)
Holds(new, old) ==
    /\ DOMAIN files = {new, old}
    /\ new # old => files[new].mtime > files[old].mtime

OnDisk ==
    /\ \A d \in DOMAIN files : files[d].mtime <= clock
    /\ \E new, old \in Dirs : Holds(new, old)

(* A file is in the directory of its status, but for the task being         *)
(* cancelled between the rewrite and the rename, or at a crash there.       *)
InDirectory ==
    \/ \A d \in DOMAIN files : files[d].status = d
    \/ \E d \in Dirs : /\ Holds(d, d)
                       /\ files[d].status = "cancelled" /\ d # "cancelled"
                       /\ ~up \/ \E p \in Procs : pc[p] = "rename"

(* A call's copies are the files of the first n directories. *)
ReadUpTo(p, n) ==
    /\ DOMAIN found[p] = {d \in DOMAIN files : \E i \in 1..n : STATUS_DIRS[i] = d}
    /\ \A d \in DOMAIN found[p] : found[p][d] = files[d]

(* A call's object is the task as it was last written. *)
Loaded(p) ==
    /\ obj[p].path \in Dirs
    /\ obj[p].status = obj[p].path
    /\ obj[p].rev = files[obj[p].path].rev

InStep(p) ==
    /\ ~Active(p) => scan[p] = 1 /\ found[p] = NoCopies
    /\ pc[p] = "scan" => ReadUpTo(p, scan[p] - 1)
    /\ pc[p] = "stat" => /\ scan[p] <= Len(STATUS_DIRS)
                         /\ STATUS_DIRS[scan[p]] \in DOMAIN files
                         /\ ReadUpTo(p, scan[p])
    /\ pc[p] = "heal" => /\ Loaded(p)
                         /\ \E d \in Dirs \ {obj[p].path} :
                               /\ Holds(obj[p].path, d)
                               /\ DOMAIN found[p] = {d}
                               /\ found[p][d] = files[d]
    /\ pc[p] = "apply" => Loaded(p) /\ Holds(obj[p].path, obj[p].path)
    /\ pc[p] \in {"moveDir", "verify", "unlink"} =>
          /\ req[p].op = "transition" /\ req[p].to # obj[p].path
          /\ obj[p].path \in Dirs /\ obj[p].status = obj[p].path
          /\ Holds(req[p].to, obj[p].path)
    /\ pc[p] \in {"rename", "cancelDir"} =>
          /\ req[p].op = "cancel" /\ obj[p].path # "cancelled"
          /\ obj[p].path \in Dirs /\ obj[p].status = obj[p].path
    /\ pc[p] = "rename" =>
          Holds(obj[p].path, obj[p].path) /\ files[obj[p].path].status = "cancelled"
    /\ pc[p] = "cancelDir" => Holds("cancelled", "cancelled")

CallsInStep == \A p \in Procs : InStep(p)

(* Where a call that moves the companion directory has left it. *)
Moving == {"moveDir", "verify", "unlink", "rename", "cancelDir"}

OneCompanion ==
    /\ \E d \in Dirs : companions = {d}
    /\ crashes = 0 =>
          /\ up
          /\ \A p \in Procs :
                /\ pc[p] \in {"moveDir", "rename", "cancelDir"} => companions = {obj[p].path}
                /\ pc[p] \in {"verify", "unlink"} => companions = {req[p].to}
          /\ (\A p \in Procs : pc[p] \notin Moving) =>
                \E d \in Dirs : Holds(d, d) /\ companions = {d}

(* Functions are functions. *)
Typed ==
    /\ TypeOK
    /\ files = [d \in DOMAIN files |-> files[d]]
    /\ found = [p \in Procs |-> found[p]]
    /\ \A p \in Procs : found[p] = [d \in DOMAIN found[p] |-> found[p][d]]

Disk == OnDisk /\ InDirectory /\ CallsInStep /\ OneCompanion

(* The inductive invariant. *)
IInv == Typed /\ Mutex /\ Disk

-----------------------------------------------------------------------------
(* The mutex. *)

(* What a step of a call does to the mutex: the call goes on, returns, or   *)
(* queues for its locked part.                                              *)
GoesOn(p) ==
    /\ Active(p) /\ Active(p)'
    /\ \A q \in Procs \ {p} : pc'[q] = pc[q]
    /\ UNCHANGED <<lockQ, req, up>>

Returns(p) ==
    /\ Active(p) /\ ~Busy(p)'
    /\ \A q \in Procs \ {p} : pc'[q] = pc[q]
    /\ lockQ' = IF req[p].op \in Locked THEN Tail(lockQ) ELSE lockQ
    /\ UNCHANGED <<req, up>>

Requeues(p) ==
    /\ Active(p) /\ req[p].op \notin Locked /\ pc'[p] = "queued"
    /\ \A q \in Procs \ {p} : pc'[q] = pc[q] /\ req'[q] = req[q]
    /\ lockQ' = Append(lockQ, p)
    /\ req'[p].op = "transition"
    /\ UNCHANGED up

LEMMA StepShape ==
    ASSUME Typed, NEW p \in Procs, Step(p)
    PROVE  Grant(p) \/ GoesOn(p) \/ Returns(p) \/ Requeues(p)
<1> USE DEF Active, Busy
<1>1. pc \in [Procs -> PCs] /\ req \in [Procs -> [op : Ops, to : Dirs]]
  BY DEF Typed, TypeOK
<1>2. CASE Get(p)
  BY <1>1, <1>2 DEF Get, ReadDir, StatDir, Settle, Heal, GoesOn
<1>3. CASE NotFound(p) \/ Refuse(p) \/ TransitionNoop(p)
  BY <1>1, <1>3 DEF NotFound, Refuse, TransitionNoop, Applying, Finish, Returns
<1>4. CASE WriteNew(p) \/ WriteCancelled(p)
  BY <1>1, <1>4 DEF WriteNew, WriteCancelled, Proceeds, Applying, Finish, GoesOn, Returns
<1>5. CASE MoveDir(p) \/ Verify(p) \/ UnlinkOld(p)
  BY <1>1, <1>5 DEF MoveDir, Verify, UnlinkOld, Finish, GoesOn, Returns
<1>6. CASE Rename(p) \/ CancelDir(p)
  BY <1>1, <1>6 DEF Rename, CancelDir, Finish, GoesOn, Returns
<1>7. CASE Update(p) \/ GetReturns(p) \/ SaveBack(p) \/ Delete(p) \/ WriteOutput(p)
  BY <1>1, <1>7 DEF Update, GetReturns, SaveBack, Delete, WriteOutput, Proceeds, Applying,
     Finish, Returns
<1>8. CASE Acquire(p) \/ Block(p) \/ Unblock(p)
  BY <1>1, <1>8 DEF Acquire, Block, Unblock, ThenTransition, Enqueue, Proceeds, Applying,
     Locked, Finish, Returns, Requeues
<1>9. QED
  BY <1>2, <1>3, <1>4, <1>5, <1>6, <1>7, <1>8 DEF Step, Body

(* At most one call is past its first read. *)
LEMMA OneActive ==
    ASSUME Typed, Mutex, NEW p \in Procs, NEW q \in Procs, Active(p), Active(q)
    PROVE  p = q
<1>1. Busy(p) /\ Busy(q)
  BY DEF Active, Busy
<1>2. CASE OnlyLocked(mix)
  BY <1>1, <1>2 DEF Mutex, Discipline, Queue
<1>3. CASE ~OnlyLocked(mix)
  BY <1>1, <1>3 DEF Mutex, Discipline
<1>4. QED
  BY <1>2, <1>3

(* With fewer calls in progress than one there is none. *)
LEMMA NoneBusy ==
    ASSUME \A p, q \in Procs : Busy(p) /\ Busy(q) => p = q,
           NEW n \in Nat, n <= 1, Cardinality({q \in Procs : Busy(q)}) < n
    PROVE  \A q \in Procs : ~Busy(q)
<1> SUFFICES ASSUME NEW q \in Procs, Busy(q) PROVE FALSE
  OBVIOUS
<1>1. {p \in Procs : Busy(p)} = {q}
  OBVIOUS
<1>2. Cardinality({q}) = 1
  BY FS_Singleton
<1>3. QED
  BY <1>1, <1>2

(* Before any call every part holds. *)
LEMMA InitMutex == Init => Mutex
BY DEF Init, Mutex, Queue, Discipline, Down, Active, Busy

(* A call that arrives joins the queue, or is alone. *)
LEMMA CallMutex ==
    ASSUME \A m \in Mixes : DisciplinedUse(m),
           Typed, Mutex, NEW p \in Procs, NEW r \in mix.requests, Call(p, r), mix' = mix
    PROVE  Mutex'
<1>1. /\ mix \in [requests : SUBSET [op : Ops, to : Dirs], overlap : Nat, calls : Nat, crashes : Nat]
      /\ DisciplinedUse(mix) /\ lockQ \in Seq(Procs)
      /\ pc \in [Procs -> PCs] /\ req \in [Procs -> [op : Ops, to : Dirs]]
  BY MixesAssumption DEF Typed, TypeOK
<1>2. r.op \in Ops /\ r.op \notin {"delete", "output"}
  BY <1>1 DEF DisciplinedUse, OnlyLocked, Locked
<1>3. /\ up /\ UNCHANGED up
      /\ ~Busy(p) /\ Busy(p)' /\ req'[p] = r
      /\ \A q \in Procs \ {p} : pc'[q] = pc[q] /\ req'[q] = req[q]
  BY <1>1 DEF Call, Enqueue, Busy
<1>4. CASE r.op \in Locked
  <2>1. lockQ' = Append(lockQ, p) /\ pc'[p] = "queued"
    BY <1>1, <1>4 DEF Call, Enqueue
  <2>2. \A i \in 1..Len(lockQ) : lockQ[i] \in Procs \ {p}
    BY <1>1, <1>3 DEF Mutex, Queue
  <2>3. /\ Len(lockQ') = Len(lockQ) + 1 /\ lockQ'[Len(lockQ) + 1] = p
        /\ \A i \in 1..Len(lockQ) : lockQ'[i] = lockQ[i]
    BY <1>1, <2>1
  <2>4. \A i \in 1..Len(lockQ') : i \in 1..Len(lockQ) \/ i = Len(lockQ) + 1
    BY <1>1, <2>3
  <2>5. Queue'
    <3>1. (\A i, j \in 1..Len(lockQ) : lockQ[i] = lockQ[j] => i = j)'
      BY <2>2, <2>3, <2>4 DEF Mutex, Queue
    <3>2. (\A i \in 1..Len(lockQ) : Busy(lockQ[i]) /\ req[lockQ[i]].op \in Locked)'
      <4>1. \A i \in 1..Len(lockQ) : pc'[lockQ[i]] # "idle" /\ req'[lockQ[i]].op \in Locked
        BY <1>3, <2>2 DEF Mutex, Queue, Busy
      <4>2. QED
        BY <1>3, <1>4, <2>3, <2>4, <4>1 DEF Busy
    <3>3. (\A q \in Procs : Active(q) /\ req[q].op \in Locked
                              => lockQ # <<>> /\ Head(lockQ) = q)'
      <4>1. SUFFICES ASSUME NEW q \in Procs, Active(q)', req'[q].op \in Locked
                     PROVE  lockQ' # <<>> /\ Head(lockQ') = q
        OBVIOUS
      <4>2. q # p
        BY <2>1, <4>1 DEF Active
      <4>3. lockQ # <<>> /\ Head(lockQ) = q
        BY <1>3, <4>1, <4>2 DEF Mutex, Queue, Active
      <4>4. QED
        BY <1>1, <2>1, <4>3
    <3>4. QED
      BY <3>1, <3>2, <3>3 DEF Queue
  <2>6. Discipline'
    <3>1. CASE OnlyLocked(mix)
      BY <1>2, <1>3, <1>4, <3>1 DEF Mutex, Discipline, Busy
    <3>2. CASE ~OnlyLocked(mix)
      <4>1. \A q \in Procs : ~Busy(q)
        <5>1. mix.overlap <= 1 /\ mix.overlap \in Nat
          BY <1>1, <3>2 DEF DisciplinedUse
        <5>2. Cardinality({q \in Procs : Busy(q)}) < mix.overlap
          BY DEF Call, Busy
        <5>3. \A q, s \in Procs : Busy(q) /\ Busy(s) => q = s
          BY <3>2 DEF Mutex, Discipline
        <5>4. QED
          BY <5>1, <5>2, <5>3, NoneBusy
      <4>2. QED
        BY <1>2, <1>3, <3>2, <4>1 DEF Discipline, Busy
    <3>3. QED
      BY <3>1, <3>2
  <2>7. QED
    BY <1>3, <2>5, <2>6 DEF Mutex, Down
<1>5. CASE r.op \notin Locked
  <2>1. ~OnlyLocked(mix)
    BY <1>5 DEF OnlyLocked
  <2>2. \A q \in Procs : ~Busy(q)
    <3>1. mix.overlap <= 1 /\ mix.overlap \in Nat
      BY <1>1, <2>1 DEF DisciplinedUse
    <3>2. Cardinality({q \in Procs : Busy(q)}) < mix.overlap
      BY DEF Call, Busy
    <3>3. \A q, s \in Procs : Busy(q) /\ Busy(s) => q = s
      BY <2>1 DEF Mutex, Discipline
    <3>4. QED
      BY <3>1, <3>2, <3>3, NoneBusy
  <2>3. lockQ' = lockQ
    BY <1>5 DEF Call
  <2>4. Queue'
    BY <1>1, <1>3, <1>5, <2>2, <2>3 DEF Mutex, Queue, Busy, Active
  <2>5. Discipline'
    BY <1>2, <1>3, <2>1, <2>2 DEF Discipline, Busy
  <2>6. QED
    BY <1>3, <2>4, <2>5 DEF Mutex, Down
<1>6. QED
  BY <1>4, <1>5

(* A call whose turn has come is the head of the queue. *)
LEMMA GrantMutex ==
    ASSUME Typed, Mutex, NEW p \in Procs, Grant(p), mix' = mix
    PROVE  Mutex'
<1>1. pc \in [Procs -> PCs] /\ lockQ \in Seq(Procs)
  BY DEF Typed, TypeOK
<1>2. /\ pc[p] = "queued" /\ pc' = [pc EXCEPT ![p] = "scan"]
      /\ lockQ # <<>> /\ Head(lockQ) = p /\ UNCHANGED <<lockQ, req, up>>
  BY DEF Grant
<1>3. QED
  BY <1>1, <1>2 DEF Mutex, Queue, Discipline, Down, Busy, Active

(* A call that goes on leaves the queue and the others alone. *)
LEMMA GoesOnMutex ==
    ASSUME Typed, Mutex, NEW p \in Procs, GoesOn(p), mix' = mix
    PROVE  Mutex'
<1>1. \A q \in Procs : (Busy(q)' <=> Busy(q)) /\ (Active(q)' <=> Active(q))
  BY DEF GoesOn, Busy, Active
<1>2. lockQ \in Seq(Procs)
  BY DEF Typed, TypeOK
<1>3. Queue'
  BY <1>1, <1>2 DEF GoesOn, Mutex, Queue, Busy, Active
<1>4. Discipline' /\ Down'
  BY <1>1 DEF GoesOn, Mutex, Discipline, Down
<1>5. QED
  BY <1>3, <1>4 DEF Mutex

(* A call that returns hands the mutex on when it holds it. *)
LEMMA ReturnsMutex ==
    ASSUME Typed, Mutex, NEW p \in Procs, Returns(p), mix' = mix
    PROVE  Mutex'
<1>1. lockQ \in Seq(Procs)
  BY DEF Typed, TypeOK
<1>2. Busy(p) /\ up
  BY DEF Returns, Mutex, Down, Active, Busy
<1>3. \A q \in Procs : Busy(q)' => q # p /\ Busy(q)
  BY DEF Returns, Busy
<1>4. \A q \in Procs : Active(q)' => q # p /\ Active(q)
  BY DEF Returns, Busy, Active
<1>5. Queue'
  <2>1. CASE req[p].op \in Locked
    <3>1. lockQ # <<>> /\ Head(lockQ) = p /\ lockQ' = Tail(lockQ)
      BY <2>1 DEF Returns, Mutex, Queue
    <3>2. /\ Len(lockQ') = Len(lockQ) - 1 /\ lockQ[1] = p
          /\ \A i \in 1..Len(lockQ') : lockQ'[i] = lockQ[i + 1] /\ i + 1 \in 1..Len(lockQ)
      BY <1>1, <3>1
    <3>3. Len(lockQ) \in Nat
      BY <1>1
    <3>4. 1 \in 1..Len(lockQ)
      BY <1>1, <3>1
    <3>5. \A i \in 1..Len(lockQ') : lockQ'[i] \in Procs \ {p}
      <4>1. SUFFICES ASSUME NEW i \in 1..Len(lockQ') PROVE lockQ'[i] \in Procs \ {p}
        OBVIOUS
      <4>2. lockQ'[i] = lockQ[i + 1] /\ i + 1 \in 1..Len(lockQ) /\ i + 1 # 1
        BY <3>2, <3>3
      <4>3. lockQ[i + 1] # lockQ[1]
        BY <3>4, <4>2 DEF Mutex, Queue
      <4>4. QED
        BY <1>1, <3>2, <4>2, <4>3
    <3>6. (\A i, j \in 1..Len(lockQ) : lockQ[i] = lockQ[j] => i = j)'
      <4>1. SUFFICES ASSUME NEW i \in 1..Len(lockQ'), NEW j \in 1..Len(lockQ'),
                            lockQ'[i] = lockQ'[j]
                     PROVE  i = j
        OBVIOUS
      <4>2. i + 1 = j + 1
        BY <3>2, <4>1 DEF Mutex, Queue
      <4>3. QED
        BY <3>3, <4>2
    <3>7. (\A i \in 1..Len(lockQ) : Busy(lockQ[i]) /\ req[lockQ[i]].op \in Locked)'
      <4>1. SUFFICES ASSUME NEW i \in 1..Len(lockQ')
                     PROVE  pc'[lockQ'[i]] # "idle" /\ req'[lockQ'[i]].op \in Locked
        BY DEF Busy
      <4>2. pc'[lockQ'[i]] = pc[lockQ'[i]] /\ req' = req
        BY <3>5 DEF Returns
      <4>3. QED
        BY <3>2, <4>2 DEF Mutex, Queue, Busy
    <3>8. (\A q \in Procs : Active(q) /\ req[q].op \in Locked
                              => lockQ # <<>> /\ Head(lockQ) = q)'
      BY <1>4, <3>1 DEF Returns, Mutex, Queue
    <3>9. QED
      BY <3>6, <3>7, <3>8 DEF Queue
  <2>2. CASE req[p].op \notin Locked
    <3>1. lockQ' = lockQ /\ req' = req
      BY <2>2 DEF Returns
    <3>2. \A i \in 1..Len(lockQ) : lockQ[i] \in Procs \ {p}
      BY <1>1, <2>2 DEF Mutex, Queue
    <3>3. \A i \in 1..Len(lockQ) : pc'[lockQ[i]] = pc[lockQ[i]]
      BY <3>2 DEF Returns
    <3>4. QED
      BY <1>4, <3>1, <3>3 DEF Mutex, Queue, Busy
  <2>3. QED
    BY <2>1, <2>2
<1>6. Discipline'
  BY <1>3 DEF Returns, Mutex, Discipline
<1>7. QED
  BY <1>2, <1>5, <1>6 DEF Mutex, Down, Returns

(* A call that queues for its locked part is the only call in progress. *)
LEMMA RequeuesMutex ==
    ASSUME Typed, Mutex, NEW p \in Procs, Requeues(p), mix' = mix
    PROVE  Mutex'
<1>1. lockQ \in Seq(Procs)
  BY DEF Typed, TypeOK
<1>2. Busy(p) /\ up
  BY DEF Requeues, Mutex, Down, Active, Busy
<1>3. ~OnlyLocked(mix)
  BY <1>2 DEF Requeues, Mutex, Discipline
<1>4. \A q \in Procs \ {p} : ~Busy(q)
  BY <1>2, <1>3 DEF Mutex, Discipline
<1>5. \A i \in 1..Len(lockQ) : FALSE
  <2>1. SUFFICES ASSUME NEW i \in 1..Len(lockQ) PROVE FALSE
    OBVIOUS
  <2>2. lockQ[i] \in Procs /\ Busy(lockQ[i]) /\ req[lockQ[i]].op \in Locked
    BY <1>1 DEF Mutex, Queue
  <2>3. QED
    BY <1>4, <2>2 DEF Requeues
<1>6. Len(lockQ') = 1 /\ lockQ'[1] = p
  BY <1>1, <1>5 DEF Requeues
<1>7. Busy(p)' /\ ~Active(p)' /\ req'[p].op = "transition"
  BY DEF Requeues, Busy, Active
<1>8. \A q \in Procs \ {p} : ~Busy(q)' /\ ~Active(q)'
  BY <1>4 DEF Requeues, Busy, Active
<1>9. Queue'
  BY <1>6, <1>7, <1>8 DEF Queue, Locked
<1>10. Discipline'
  BY <1>3, <1>7, <1>8 DEF Discipline
<1>11. QED
  BY <1>2, <1>9, <1>10 DEF Mutex, Down, Requeues

(* The mutex discipline holds through every step of a disciplined use. *)
LEMMA StepMutex ==
    ASSUME \A m \in Mixes : DisciplinedUse(m), Typed, Mutex, [Next]_vars
    PROVE  Mutex'
<1>1. CASE \E p \in Procs, r \in mix.requests : Call(p, r) /\ mix' = mix
  BY <1>1, CallMutex
<1>2. CASE \E p \in Procs : Step(p) /\ mix' = mix
  BY <1>2, StepShape, GrantMutex, GoesOnMutex, ReturnsMutex, RequeuesMutex
<1>3. CASE Crash /\ mix' = mix
  <2>1. lockQ' = <<>> /\ req' = req /\ \A p \in Procs : pc'[p] = "idle"
    BY <1>3 DEF Crash
  <2>2. QED
    BY <1>3, <2>1 DEF Mutex, Queue, Discipline, Down, Busy, Active
<1>4. CASE ((\E d \in Dirs : Reconcile(d)) \/ InitDone) /\ mix' = mix
  <2>1. UNCHANGED <<lockQ, pc, req>> /\ ~up
    BY <1>4 DEF Reconcile, InitDone, local
  <2>2. QED
    BY <1>4, <2>1 DEF Mutex, Queue, Discipline, Down, Busy, Active
<1>5. CASE UNCHANGED vars
  BY <1>5 DEF vars, Mutex, Queue, Discipline, Down, Busy, Active
<1>6. QED
  BY <1>1, <1>2, <1>3, <1>4, <1>5 DEF Next

-----------------------------------------------------------------------------
(* The file system primitives. *)

(* A set of copies: a function from some directories to files. *)
Copies(m) ==
    /\ m = [d \in DOMAIN m |-> m[d]]
    /\ DOMAIN m \subseteq Dirs
    /\ \A d \in DOMAIN m : m[d] \in File

LEMMA RemoveCopies ==
    ASSUME NEW m, Copies(m), NEW d
    PROVE  /\ Copies(Remove(m, d))
           /\ DOMAIN Remove(m, d) = DOMAIN m \ {d}
           /\ \A e \in DOMAIN m \ {d} : Remove(m, d)[e] = m[e]
BY DEF Copies, Remove

(* A write of a single-copy task: in place, or next to the copy. *)
LEMMA PutOne ==
    ASSUME NEW d \in Dirs, NEW e \in Dirs, NEW t, Holds(d, d), Put(e, t),
           Copies(files), files[d].mtime <= clock, clock \in Nat,
           t.status \in Statuses, t.leased \in BOOLEAN, t.rev \in Nat
    PROVE  /\ Copies(files') /\ clock' = clock + 1
           /\ DOMAIN files' = {d, e}
           /\ files'[e].status = t.status /\ files'[e].rev = t.rev /\ files'[e].mtime = clock'
           /\ d # e => files'[d] = files[d] /\ files'[d].mtime < files'[e].mtime
           /\ \A a \in DOMAIN files' : files'[a].mtime <= clock'
<1> DEFINE new == [status |-> t.status, leased |-> t.leased, rev |-> t.rev, mtime |-> clock + 1]
<1>1. files' = [a \in {d, e} |-> IF a = e THEN new ELSE files[a]]
  BY DEF Holds, Put
<1>2. new \in File /\ new.status = t.status /\ new.rev = t.rev /\ new.mtime = clock + 1
  BY DEF File
<1>3. files[d] \in File /\ files[d].mtime \in Nat
  BY DEF Holds, Copies, File
<1> HIDE DEF new
<1>4. DOMAIN files' = {d, e} /\ files'[e] = new /\ (d # e => files'[d] = files[d])
  BY <1>1
<1>5. Copies(files')
  BY <1>1, <1>2, <1>3, <1>4 DEF Copies
<1>6. clock' = clock + 1
  BY DEF Put
<1>7. QED
  BY <1>2, <1>3, <1>4, <1>5, <1>6

(* The newest copy is the one get() settles on. *)
LEMMA WinnerIs ==
    ASSUME NEW m, DOMAIN m \subseteq Dirs, \A e \in DOMAIN m : m[e].mtime \in Nat,
           NEW d \in DOMAIN m, \A e \in DOMAIN m \ {d} : m[d].mtime > m[e].mtime
    PROVE  Winner(m) = d
<1>1. \A e \in Dirs : Pos(e) \in 1..Len(STATUS_DIRS)
  BY DEF Pos, Dirs
<1>2. \A e \in DOMAIN m : Newer(m, d, e)
  BY <1>1 DEF Newer
<1>3. \A a \in DOMAIN m : (\A e \in DOMAIN m : Newer(m, a, e)) => a = d
  BY DEF Newer
<1>4. QED
  BY <1>2, <1>3 DEF Winner

LEMMA CanonicalIs ==
    ASSUME Copies(files), NEW a \in Dirs, NEW b \in Dirs, Holds(a, b)
    PROVE  Winner(files) = a /\ canonical = files[a]
<1>1. DOMAIN files = {a, b} /\ \A e \in DOMAIN files \ {a} : files[a].mtime > files[e].mtime
  BY DEF Holds
<1>2. \A e \in DOMAIN files : files[e].mtime \in Nat
  BY DEF Copies, File
<1>3. Winner(files) = a
  BY <1>1, <1>2, WinnerIs DEF Copies
<1>4. QED
  BY <1>3 DEF canonical

(* A Task object with an edit, and one with a lease. *)
LEMMA EditedObject ==
    ASSUME NEW t \in TaskObj
    PROVE  /\ [t EXCEPT !.rev = @ + 1].path = t.path
           /\ [t EXCEPT !.rev = @ + 1].status = t.status
           /\ [t EXCEPT !.rev = @ + 1].leased = t.leased
           /\ [t EXCEPT !.rev = @ + 1].rev = t.rev + 1
BY DEF TaskObj

LEMMA LeasedObject ==
    ASSUME NEW t \in TaskObj
    PROVE  /\ [t EXCEPT !.leased = TRUE].path = t.path
           /\ [t EXCEPT !.leased = TRUE].status = t.status
           /\ [t EXCEPT !.leased = TRUE].leased \in BOOLEAN
           /\ [t EXCEPT !.leased = TRUE].rev = t.rev
BY DEF TaskObj

-----------------------------------------------------------------------------
(* The steps of the calls.  Each keeps the invariant, and changes the task  *)
(* the callers see only as TaskLifecycle allows and never back to an older  *)
(* revision.                                                                *)

Forward ==
    /\ canonical'.rev >= canonical.rev
    /\ \/ canonical'.status = canonical.status
       \/ canonical.status \notin Closed /\ canonical'.status = "cancelled"
       \/ /\ canonical'.status \in Statuses
          /\ isValidTransition(canonical.status, canonical'.status)

SharedTyped == Copies(files) /\ companions \subseteq Dirs /\ clock \in Nat

LocalsTyped ==
    /\ lockQ \in Seq(Procs)
    /\ pc \in [Procs -> PCs]
    /\ req \in [Procs -> [op : Ops, to : Dirs]]
    /\ scan \in [Procs -> 1..(Len(STATUS_DIRS) + 1)]
    /\ found = [p \in Procs |-> found[p]] /\ \A p \in Procs : Copies(found[p])
    /\ obj \in [Procs -> TaskObj \cup {NoTask}]
    /\ result \in [Procs -> {"none", "ok", "error", "missing"}]
    /\ up \in BOOLEAN /\ mix \in Mixes
    /\ calls \in 0..mix.calls /\ crashes \in 0..mix.crashes

LEMMA TypedParts ==
    /\ Typed <=> SharedTyped /\ LocalsTyped
    /\ Typed' <=> SharedTyped' /\ LocalsTyped'
BY DEF Typed, TypeOK, SharedTyped, LocalsTyped, Copies

LEMMA DirsAreStatuses ==
    /\ Len(STATUS_DIRS) \in Nat
    /\ \A i \in 1..Len(STATUS_DIRS) : STATUS_DIRS[i] \in Dirs
    /\ Dirs \subseteq Statuses /\ NoDir \notin Dirs
    /\ {"ready", "in-progress", "blocked", "cancelled"} \subseteq Dirs
BY DirsAssumption DEF Dirs, Statuses, NoDir

(* The other calls have no copies and no turn while one is active. *)
OthersWait(p) ==
    \A q \in Procs \ {p} : /\ pc'[q] = pc[q] /\ scan'[q] = scan[q] /\ found'[q] = found[q]

LEMMA OthersInStep ==
    ASSUME IInv, NEW p \in Procs, Active(p), OthersWait(p)
    PROVE  \A q \in Procs \ {p} : ~Active(q) /\ ~Active(q)' /\ InStep(q)'
<1> SUFFICES ASSUME NEW q \in Procs \ {p}
             PROVE  ~Active(q) /\ ~Active(q)' /\ InStep(q)'
  OBVIOUS
<1>1. ~Active(q)
  BY OneActive DEF IInv
<1>2. scan[q] = 1 /\ found[q] = NoCopies
  BY <1>1 DEF IInv, Disk, CallsInStep, InStep
<1>3. pc'[q] \in {"idle", "queued"} /\ scan'[q] = 1 /\ found'[q] = NoCopies
  BY <1>1, <1>2 DEF OthersWait, Active
<1>4. QED
  BY <1>1, <1>3 DEF InStep, Active

(* Between two directory moves the files are where their status says. *)
LEMMA AtRest ==
    ASSUME IInv, NEW p \in Procs, pc[p] \in {"scan", "stat", "heal", "apply"}
    PROVE  /\ up
           /\ \A q \in Procs : pc[q] \notin Moving
           /\ \A d \in DOMAIN files : files[d].status = d
           /\ crashes = 0 => \E d \in Dirs : Holds(d, d) /\ companions = {d}
<1>1. Active(p) /\ up
  BY DEF Active, IInv, Mutex, Down, Busy
<1>2. \A q \in Procs : pc[q] \notin Moving
  <2>1. SUFFICES ASSUME NEW q \in Procs, pc[q] \in Moving PROVE FALSE
    OBVIOUS
  <2>2. q = p
    BY <1>1, <2>1, OneActive DEF IInv, Active, Moving
  <2>3. QED
    BY <2>1, <2>2 DEF Moving
<1>3. QED
  BY <1>1, <1>2 DEF IInv, Disk, InDirectory, OneCompanion, Moving

(* A call ends with one file, and its companion when no crash has come in   *)
(* between.                                                                 *)
LEMMA EndsDisk ==
    ASSUME IInv, NEW p \in Procs, Active(p), ~Active(p)', OthersWait(p),
           scan'[p] = 1, found'[p] = NoCopies, UNCHANGED <<up, crashes>>,
           NEW d \in Dirs, Holds(d, d)', files'[d].status = d, files'[d].mtime <= clock',
           \E c \in Dirs : companions' = {c},
           crashes = 0 => companions' = {d}
    PROVE  Disk'
<1>1. \A q \in Procs : ~Active(q)'
  BY OthersInStep
<1>2. \A q \in Procs : pc'[q] \notin Moving
  BY <1>1 DEF Active, Moving
<1>3. DOMAIN files' = {d}
  BY DEF Holds
<1>4. OnDisk' /\ InDirectory'
  BY <1>3 DEF OnDisk, InDirectory
<1>5. InStep(p)'
  BY DEF InStep, Active
<1>6. CallsInStep'
  BY <1>5, OthersInStep DEF CallsInStep
<1>7. OneCompanion'
  <2>1. crashes = 0 => up
    BY DEF IInv, Disk, OneCompanion
  <2>2. QED
    BY <1>2, <2>1 DEF OneCompanion, Moving
<1>8. QED
  BY <1>4, <1>6, <1>7 DEF Disk

(* What Finish does to the local state. *)
LEMMA FinishLocals ==
    ASSUME IInv, NEW p \in Procs, Active(p), NEW r \in {"ok", "error", "missing"}, Finish(p, r),
           UNCHANGED <<req, up, calls, crashes, mix>>
    PROVE  /\ LocalsTyped' /\ ~Active(p)' /\ OthersWait(p)
           /\ scan'[p] = 1 /\ found'[p] = NoCopies
<1>1. LocalsTyped
  BY TypedParts DEF IInv
<1>2. req[p].op \in Locked => lockQ # <<>>
  BY DEF IInv, Mutex, Queue
<1>3. lockQ' \in Seq(Procs)
  BY <1>1, <1>2 DEF LocalsTyped, Finish
<1>4. Copies(NoCopies)
  BY DEF Copies, NoCopies
<1>5. 1 \in 1..(Len(STATUS_DIRS) + 1)
  BY DirsAreStatuses
<1>6. /\ pc' = [pc EXCEPT ![p] = "idle"] /\ scan' = [scan EXCEPT ![p] = 1]
      /\ found' = [found EXCEPT ![p] = NoCopies] /\ obj' = [obj EXCEPT ![p] = NoTask]
      /\ result' = [result EXCEPT ![p] = r]
  BY DEF Finish, Fresh
<1>7. pc' \in [Procs -> PCs] /\ scan' \in [Procs -> 1..(Len(STATUS_DIRS) + 1)]
  BY <1>1, <1>5, <1>6 DEF LocalsTyped, PCs
<1>8. found' = [q \in Procs |-> found'[q]] /\ \A q \in Procs : Copies(found'[q])
  BY <1>1, <1>4, <1>6 DEF LocalsTyped
<1>9. /\ obj' \in [Procs -> TaskObj \cup {NoTask}]
      /\ result' \in [Procs -> {"none", "ok", "error", "missing"}]
  BY <1>1, <1>6 DEF LocalsTyped
<1>10. LocalsTyped'
  BY <1>1, <1>3, <1>7, <1>8, <1>9 DEF LocalsTyped
<1>11. pc'[p] = "idle" /\ scan'[p] = 1 /\ found'[p] = NoCopies
  BY <1>1, <1>6 DEF LocalsTyped
<1>12. OthersWait(p)
  BY <1>1, <1>6 DEF LocalsTyped, OthersWait
<1>13. QED
  BY <1>10, <1>11, <1>12 DEF Active

(* A call about to do its work has the one copy in hand. *)
LEMMA AtApply ==
    ASSUME IInv, NEW p \in Procs, pc[p] = "apply"
    PROVE  /\ Active(p) /\ up /\ obj[p] \in TaskObj /\ obj[p].path \in Dirs
           /\ obj[p].status = obj[p].path
           /\ Holds(obj[p].path, obj[p].path)
           /\ canonical = files[obj[p].path]
           /\ canonical.status = obj[p].path /\ canonical.rev = obj[p].rev
           /\ canonical.rev \in Nat
           /\ files[obj[p].path].mtime <= clock
           /\ crashes = 0 => companions = {obj[p].path}
<1>1. Loaded(p) /\ Holds(obj[p].path, obj[p].path)
  BY DEF IInv, Disk, CallsInStep, InStep
<1>2. obj[p].path \in Dirs /\ obj[p].status = obj[p].path /\ obj[p].rev = files[obj[p].path].rev
  BY <1>1 DEF Loaded
<1>3. SharedTyped /\ LocalsTyped
  BY TypedParts DEF IInv
<1>4. obj[p] \in TaskObj
  <2>1. obj[p] # NoTask
    BY <1>2, DirsAreStatuses DEF NoTask
  <2>2. QED
    BY <1>3, <2>1 DEF LocalsTyped
<1>5. DOMAIN files = {obj[p].path}
  BY <1>1 DEF Holds
<1>6. canonical = files[obj[p].path]
  BY <1>1, <1>2, <1>3, CanonicalIs DEF SharedTyped
<1>7. files[obj[p].path] \in File
  BY <1>3, <1>5 DEF SharedTyped, Copies
<1>8. up /\ files[obj[p].path].status = obj[p].path
  BY <1>5, AtRest
<1>9. files[obj[p].path].mtime <= clock
  BY <1>5 DEF IInv, Disk, OnDisk
<1>10. crashes = 0 => companions = {obj[p].path}
  BY <1>5, AtRest DEF Holds
<1>11. QED
  BY <1>1, <1>2, <1>4, <1>6, <1>7, <1>8, <1>9, <1>10 DEF Active, File

(* Calls that return without a write: not found, refused, nothing to do,    *)
(* and get() itself.                                                        *)
LEMMA NoWriteStep ==
    ASSUME IInv, NEW p \in Procs, pc[p] = "apply",
           NEW r \in {"ok", "error", "missing"}, Finish(p, r),
           UNCHANGED <<shared, req, up, calls, crashes, mix>>
    PROVE  Typed' /\ Disk' /\ Forward
<1>1. /\ LocalsTyped' /\ ~Active(p)' /\ OthersWait(p)
      /\ scan'[p] = 1 /\ found'[p] = NoCopies
  BY AtApply, FinishLocals
<1>2. files' = files /\ companions' = companions /\ clock' = clock
  BY DEF shared
<1>3. SharedTyped'
  BY <1>2, TypedParts DEF IInv, SharedTyped, Copies
<1>4. canonical' = canonical
  BY <1>2 DEF canonical, Winner, Newer
<1>5. \E c \in Dirs : companions' = {c}
  BY <1>2 DEF IInv, Disk, OneCompanion
<1>6. PICK d \in Dirs : d = obj[p].path
  BY AtApply
<1>7. /\ Holds(d, d)' /\ files'[d].status = d /\ files'[d].mtime <= clock'
      /\ crashes = 0 => companions' = {d}
  BY <1>2, <1>6, AtApply DEF Holds
<1>8. Disk'
  BY <1>1, <1>5, <1>7, AtApply, EndsDisk
<1>9. QED
  BY <1>1, <1>3, <1>4, <1>8, AtApply, TypedParts DEF Forward

(* A rewrite of the file in place. *)
InPlace(p, t) ==
    /\ Put(obj[p].path, t)
    /\ t.status = obj[p].path /\ t.leased \in BOOLEAN
    /\ t.rev \in Nat /\ t.rev >= obj[p].rev

LEMMA InPlaceStep ==
    ASSUME IInv, NEW p \in Procs, pc[p] = "apply", NEW t, InPlace(p, t),
           LocalsTyped', ~Active(p)', OthersWait(p), scan'[p] = 1, found'[p] = NoCopies,
           UNCHANGED <<companions, up, crashes, mix>>
    PROVE  Typed' /\ Disk' /\ Forward
<1>1. PICK d \in Dirs : d = obj[p].path
  BY AtApply
<1>2. SharedTyped
  BY TypedParts DEF IInv
<1>3. /\ Holds(d, d) /\ Put(d, t) /\ files[d].mtime <= clock
      /\ t.status \in Statuses /\ t.status = d /\ t.leased \in BOOLEAN /\ t.rev \in Nat
  BY <1>1, AtApply, DirsAreStatuses DEF InPlace
<1>4. /\ Copies(files') /\ clock' = clock + 1 /\ DOMAIN files' = {d}
      /\ files'[d].status = t.status /\ files'[d].rev = t.rev
      /\ \A a \in DOMAIN files' : files'[a].mtime <= clock'
  <2>1. Copies(files) /\ clock \in Nat
    BY <1>2 DEF SharedTyped
  <2>2. /\ Copies(files') /\ clock' = clock + 1
        /\ DOMAIN files' = {d, d}
        /\ files'[d].status = t.status /\ files'[d].rev = t.rev
        /\ \A a \in DOMAIN files' : files'[a].mtime <= clock'
    BY <1>3, <2>1, PutOne
  <2>3. QED
    BY <2>2
<1>5. Holds(d, d)'
  BY <1>4 DEF Holds
<1>6. SharedTyped'
  BY <1>2, <1>4 DEF SharedTyped
<1>7. canonical' = files'[d]
  <2>1. \A e \in DOMAIN files' : files'[e].mtime \in Nat
    BY <1>4 DEF Copies, File
  <2>2. Winner(files') = d
    BY <1>4, <2>1, WinnerIs DEF Copies
  <2>3. QED
    BY <2>2 DEF canonical
<1>8. Forward
  BY <1>1, <1>3, <1>4, <1>7, AtApply DEF Forward, InPlace
<1>9. \E c \in Dirs : companions' = {c}
  BY DEF IInv, Disk, OneCompanion
<1>10. crashes = 0 => companions' = {d}
  BY <1>1, AtApply
<1>11. Disk'
  BY <1>3, <1>4, <1>5, <1>9, <1>10, AtApply, EndsDisk
<1>12. QED
  BY <1>6, <1>8, <1>11, TypedParts

LEMMA UnwrittenStep ==
    ASSUME IInv, NEW p \in Procs, mix' = mix,
           NotFound(p) \/ Refuse(p) \/ TransitionNoop(p) \/ GetReturns(p)
    PROVE  Typed' /\ Disk' /\ Forward
<1>1. PICK r \in {"ok", "error", "missing"} :
          pc[p] = "apply" /\ Finish(p, r) /\ UNCHANGED <<shared, req, up, calls, crashes, mix>>
  BY DEF NotFound, Refuse, TransitionNoop, GetReturns, Proceeds, Applying
<1>2. QED
  BY <1>1, NoWriteStep

(* update(), updateBody(), addDep(), removeDep(), save() and renewLease(),  *)
(* and acquireLease() of a task in progress, write the task back in place.  *)
LEMMA RewriteStep ==
    ASSUME IInv, NEW p \in Procs, pc[p] = "apply", NEW t, InPlace(p, t), Finish(p, "ok"),
           UNCHANGED <<companions, req, up, calls, crashes, mix>>
    PROVE  Typed' /\ Disk' /\ Forward
<1>1. /\ LocalsTyped' /\ ~Active(p)' /\ OthersWait(p)
      /\ scan'[p] = 1 /\ found'[p] = NoCopies
  BY AtApply, FinishLocals
<1>2. QED
  BY <1>1, InPlaceStep

(* The calls that write in place and then queue for a transition. *)
LEMMA RequeueStep ==
    ASSUME IInv, NEW p \in Procs, pc[p] = "apply", NEW t, NEW to \in Dirs,
           InPlace(p, t), t.path = obj[p].path, ThenTransition(p, t, to), mix' = mix
    PROVE  Typed' /\ Disk' /\ Forward
<1>1. LocalsTyped
  BY TypedParts DEF IInv
<1>2. Copies(NoCopies)
  BY DEF Copies, NoCopies
<1>3. /\ lockQ' = Append(lockQ, p) /\ pc' = [pc EXCEPT ![p] = "queued"]
      /\ req' = [req EXCEPT ![p] = [op |-> "transition", to |-> to]]
      /\ scan' = [scan EXCEPT ![p] = 1] /\ found' = [found EXCEPT ![p] = NoCopies]
      /\ obj' = [obj EXCEPT ![p] = NoTask]
      /\ UNCHANGED <<result, up, calls, crashes, mix>>
  BY DEF ThenTransition, Fresh, Enqueue
<1>4. [op |-> "transition", to |-> to] \in [op : Ops, to : Dirs]
  BY DEF Ops
<1>5. lockQ' \in Seq(Procs) /\ pc' \in [Procs -> PCs] /\ req' \in [Procs -> [op : Ops, to : Dirs]]
  BY <1>1, <1>3, <1>4 DEF LocalsTyped, PCs
<1>6. LocalsTyped'
  <2>1. found' = [q \in Procs |-> found'[q]] /\ \A q \in Procs : Copies(found'[q])
    BY <1>1, <1>2, <1>3 DEF LocalsTyped
  <2>2. scan' \in [Procs -> 1..(Len(STATUS_DIRS) + 1)] /\ obj' \in [Procs -> TaskObj \cup {NoTask}]
    BY <1>1, <1>3, DirsAreStatuses DEF LocalsTyped
  <2>3. QED
    BY <1>1, <1>3, <1>5, <2>1, <2>2 DEF LocalsTyped
<1>7. ~Active(p)' /\ OthersWait(p) /\ scan'[p] = 1 /\ found'[p] = NoCopies
  BY <1>1, <1>3 DEF LocalsTyped, Active, OthersWait
<1>8. QED
  BY <1>6, <1>7, InPlaceStep DEF ThenTransition

LEMMA InPlaceWrites ==
    ASSUME IInv, NEW p \in Procs, mix' = mix,
           Update(p) \/ SaveBack(p) \/ Acquire(p) \/ Block(p) \/ Unblock(p)
    PROVE  Typed' /\ Disk' /\ Forward
<1>1. pc[p] = "apply"
  BY DEF Update, SaveBack, Acquire, Block, Unblock, Proceeds, Applying
<1>2. obj[p] \in TaskObj /\ obj[p].status = obj[p].path
  BY <1>1, AtApply
<1>3. obj[p].leased \in BOOLEAN /\ obj[p].rev \in Nat
  BY <1>2 DEF TaskObj
<1>4. CASE Update(p)
  <2>1. InPlace(p, [obj[p] EXCEPT !.rev = @ + 1])
    BY <1>2, <1>3, <1>4, EditedObject DEF Update, InPlace, Task
  <2>2. QED
    BY <1>1, <1>4, <2>1, RewriteStep DEF Update
<1>5. CASE SaveBack(p)
  <2>1. InPlace(p, obj[p])
    BY <1>2, <1>3, <1>5 DEF SaveBack, InPlace, Task
  <2>2. QED
    BY <1>1, <1>5, <2>1, RewriteStep DEF SaveBack
<1>6. CASE Acquire(p)
  <2> DEFINE t == [obj[p] EXCEPT !.leased = TRUE]
  <2>1. t.path = obj[p].path /\ t.status = obj[p].path /\ t.leased \in BOOLEAN /\ t.rev = obj[p].rev
    BY <1>2, LeasedObject
  <2>2. Acquire(p) => \/ ThenTransition(p, t, "in-progress")
                      \/ /\ Put(t.path, t) /\ Finish(p, "ok")
                         /\ UNCHANGED <<companions, req, up, calls, crashes>>
    BY DEF Acquire, Task
  <2> HIDE DEF t
  <2>3. CASE ThenTransition(p, t, "in-progress")
    <3>1. Put(obj[p].path, t)
      BY <2>1, <2>3 DEF ThenTransition, Put
    <3>2. InPlace(p, t)
      BY <1>3, <2>1, <3>1 DEF InPlace
    <3>3. QED
      BY <1>1, <2>1, <2>3, <3>2, RequeueStep, DirsAreStatuses
  <2>4. CASE Put(t.path, t) /\ Finish(p, "ok") /\ UNCHANGED <<companions, req, up, calls, crashes>>
    <3>1. Put(obj[p].path, t)
      BY <2>1, <2>4 DEF Put
    <3>2. InPlace(p, t)
      BY <1>3, <2>1, <3>1 DEF InPlace
    <3>3. QED
      BY <1>1, <2>4, <3>2, RewriteStep
  <2>5. QED
    BY <1>6, <2>2, <2>3, <2>4
<1>7. CASE Block(p) \/ Unblock(p)
  <2>1. PICK to \in Dirs : ThenTransition(p, obj[p], to)
    BY <1>7, DirsAreStatuses DEF Block, Unblock, Task
  <2>2. InPlace(p, obj[p])
    BY <1>2, <1>3, <2>1 DEF ThenTransition, InPlace
  <2>3. QED
    BY <1>1, <2>1, <2>2, RequeueStep
<1>8. QED
  BY <1>4, <1>5, <1>6, <1>7

(* A disciplined use has no delete() and no writeTaskOutput(). *)
LEMMA NotRequested ==
    ASSUME IInv, NEW p \in Procs, Delete(p) \/ WriteOutput(p)
    PROVE  FALSE
<1>1. Busy(p) /\ req[p].op \in {"delete", "output"}
  BY DEF Delete, WriteOutput, Proceeds, Applying, Busy
<1>2. QED
  BY <1>1 DEF IInv, Mutex, Discipline

(* A move of the task in several awaited steps: the call keeps its object   *)
(* and its place in the queue.                                              *)
MovesTo(p, x) ==
    /\ pc' = [pc EXCEPT ![p] = x]
    /\ UNCHANGED <<lockQ, req, scan, found, obj, result, up, calls, crashes, mix>>

LEMMA MoveLocals ==
    ASSUME IInv, NEW p \in Procs, Active(p), NEW x \in Moving, MovesTo(p, x)
    PROVE  LocalsTyped' /\ OthersWait(p) /\ pc'[p] = x /\ Active(p)'
<1>1. LocalsTyped
  BY TypedParts DEF IInv
<1>2. QED
  BY <1>1 DEF MovesTo, LocalsTyped, Moving, PCs, OthersWait, Active

LEMMA MoveDisk ==
    ASSUME IInv, NEW p \in Procs, Active(p), NEW x \in Moving, MovesTo(p, x),
           OnDisk', InDirectory', InStep(p)',
           \E c \in Dirs : companions' = {c},
           x \in {"moveDir", "rename", "cancelDir"} /\ crashes = 0 => companions' = {obj[p].path},
           x \in {"verify", "unlink"} /\ crashes = 0 => companions' = {req[p].to}
    PROVE  Disk'
<1>1. OthersWait(p) /\ pc'[p] = x /\ Active(p)'
  BY MoveLocals
<1>2. CallsInStep'
  BY <1>1, OthersInStep DEF CallsInStep
<1>3. \A q \in Procs \ {p} : pc'[q] \notin Moving
  BY <1>1, OthersInStep DEF Active, Moving
<1>4. OneCompanion'
  <2>1. crashes = 0 => up
    BY DEF IInv, Disk, OneCompanion
  <2>2. QED
    BY <1>1, <1>3, <2>1 DEF OneCompanion, MovesTo, Moving
<1>5. QED
  BY <1>2, <1>4 DEF Disk

(* transitionTask: the new file is the newer of two. *)
LEMMA WriteNewStep ==
    ASSUME IInv, NEW p \in Procs, WriteNew(p), mix' = mix
    PROVE  Typed' /\ Disk' /\ Forward
<1> DEFINE t == [status |-> req[p].to, leased |-> Task(p).leased /\ req[p].to \notin LeaseClearing,
                 rev |-> Task(p).rev]
<1>1. pc[p] = "apply" /\ req[p].op = "transition" /\ obj[p].status # req[p].to
  BY DEF WriteNew, Proceeds, Applying, Task
<1>2. PICK d \in Dirs : d = obj[p].path
  BY <1>1, AtApply
<1>3. SharedTyped /\ LocalsTyped
  BY TypedParts DEF IInv
<1>4. PICK to \in Dirs : to = req[p].to
  BY <1>3 DEF LocalsTyped
<1>5. d # to /\ isValidTransition(d, to)
  BY <1>1, <1>2, <1>4, AtApply DEF WriteNew, Proceeds, Refuses, Task
<1>6. Put(to, t) /\ MovesTo(p, "moveDir") /\ UNCHANGED companions
  BY <1>1, <1>2, <1>4, <1>5 DEF WriteNew, Task, MovesTo
<1>7. t.status = to /\ t.leased \in BOOLEAN /\ t.rev = obj[p].rev /\ t.rev \in Nat
  <2>1. obj[p].rev \in Nat
    BY <1>1, AtApply
  <2>2. QED
    BY <1>4, <2>1 DEF Task
<1> HIDE DEF t
<1>8. /\ Copies(files') /\ clock' = clock + 1
      /\ DOMAIN files' = {d, to}
      /\ files'[to].status = t.status /\ files'[to].rev = t.rev
      /\ files'[d] = files[d] /\ files'[d].mtime < files'[to].mtime
      /\ \A a \in DOMAIN files' : files'[a].mtime <= clock'
  <2>1. Holds(d, d) /\ files[d].mtime <= clock
    BY <1>1, <1>2, AtApply
  <2>2. Copies(files) /\ clock \in Nat /\ t.status \in Statuses
    BY <1>3, <1>7, DirsAreStatuses DEF SharedTyped
  <2>3. QED
    BY <1>5, <1>6, <1>7, <2>1, <2>2, PutOne
<1>9. Holds(to, d)'
  BY <1>5, <1>8 DEF Holds
<1>10. Winner(files') = to
  <2>1. \A e \in DOMAIN files' : files'[e].mtime \in Nat
    BY <1>8 DEF Copies, File
  <2>2. \A e \in DOMAIN files' \ {to} : files'[to].mtime > files'[e].mtime
    BY <1>8, <2>1
  <2>3. QED
    BY <1>8, <2>1, <2>2, WinnerIs DEF Copies
<1>11. Forward
  <2>1. canonical' = files'[to]
    BY <1>10 DEF canonical
  <2>2. canonical.status = d /\ canonical.rev = obj[p].rev /\ canonical.rev \in Nat
    BY <1>1, <1>2, AtApply
  <2>3. QED
    BY <1>5, <1>7, <1>8, <2>1, <2>2, DirsAreStatuses DEF Forward
<1>12. SharedTyped'
  BY <1>3, <1>6, <1>8 DEF SharedTyped
<1>13. OnDisk'
  BY <1>8, <1>9 DEF OnDisk
<1>14. InDirectory'
  <2>1. files[d].status = d
    BY <1>1, <1>2, AtApply
  <2>2. QED
    BY <1>7, <1>8, <2>1 DEF InDirectory
<1>15. pc'[p] = "moveDir" /\ LocalsTyped' /\ Active(p)' /\ Active(p)
  BY <1>1, <1>6, MoveLocals DEF Moving, Active
<1>16. InStep(p)'
  <2>1. req'[p].op = "transition" /\ req'[p].to = to /\ obj'[p].path = d /\ obj'[p].status = d
    BY <1>1, <1>2, <1>4, <1>6, AtApply DEF MovesTo
  <2>2. QED
    BY <1>5, <1>9, <1>15, <2>1 DEF InStep
<1>17. Disk'
  <2>1. (\E c \in Dirs : companions' = {c}) /\ (crashes = 0 => companions' = {obj[p].path})
    BY <1>1, <1>6, AtApply DEF IInv, Disk, OneCompanion
  <2>2. QED
    BY <1>6, <1>13, <1>14, <1>15, <1>16, <2>1, MoveDisk DEF Moving
<1>18. QED
  BY <1>11, <1>12, <1>15, <1>17, TypedParts

(* The state between a transition's write and its unlink. *)
LEMMA MidTransition ==
    ASSUME IInv, NEW p \in Procs, pc[p] \in {"moveDir", "verify", "unlink"}
    PROVE  /\ Active(p) /\ up /\ req[p].op = "transition"
           /\ req[p].to \in Dirs /\ obj[p].path \in Dirs /\ req[p].to # obj[p].path
           /\ obj[p].status = obj[p].path
           /\ Holds(req[p].to, obj[p].path)
           /\ canonical = files[req[p].to]
           /\ \A d \in DOMAIN files : files[d].status = d /\ files[d].mtime <= clock
           /\ crashes = 0 /\ pc[p] = "moveDir" => companions = {obj[p].path}
           /\ crashes = 0 /\ pc[p] # "moveDir" => companions = {req[p].to}
           /\ \E c \in Dirs : companions = {c}
<1>1. Active(p) /\ up
  BY DEF Active, IInv, Mutex, Down, Busy
<1>2. /\ req[p].op = "transition" /\ req[p].to # obj[p].path
      /\ obj[p].path \in Dirs /\ obj[p].status = obj[p].path
      /\ Holds(req[p].to, obj[p].path)
  BY DEF IInv, Disk, CallsInStep, InStep
<1>3. SharedTyped /\ LocalsTyped
  BY TypedParts DEF IInv
<1>4. req[p].to \in Dirs
  BY <1>3 DEF LocalsTyped
<1>5. canonical = files[req[p].to]
  BY <1>2, <1>3, <1>4, CanonicalIs DEF SharedTyped
<1>6. \A d \in DOMAIN files : files[d].status = d
  <2>1. SUFFICES ASSUME NEW d \in Dirs, Holds(d, d),
                        ~up \/ \E q \in Procs : pc[q] = "rename"
                 PROVE  FALSE
    BY DEF IInv, Disk, InDirectory
  <2>2. PICK q \in Procs : pc[q] = "rename"
    BY <1>1, <2>1
  <2>3. q = p
    BY <1>1, <2>2, OneActive DEF IInv, Active
  <2>4. QED
    BY <2>2, <2>3
<1>7. QED
  BY <1>1, <1>2, <1>4, <1>5, <1>6 DEF IInv, Disk, OnDisk, OneCompanion

(* A step that leaves the files alone leaves the task alone. *)
LEMMA SameFiles ==
    ASSUME SharedTyped, UNCHANGED <<files, clock>>, companions' \subseteq Dirs, IInv
    PROVE  SharedTyped' /\ Forward
<1>1. canonical' = canonical /\ SharedTyped'
  BY DEF canonical, Winner, Newer, SharedTyped, Copies
<1>2. PICK a \in Dirs, b \in Dirs : Holds(a, b)
  BY DEF IInv, Disk, OnDisk
<1>3. canonical = files[a] /\ a \in DOMAIN files
  BY <1>2, CanonicalIs DEF SharedTyped, Holds
<1>4. canonical.rev \in Nat
  BY <1>3 DEF SharedTyped, Copies, File
<1>5. QED
  BY <1>1, <1>4 DEF Forward

(* The companion follows: as there is only one, the target is free. *)
LEMMA MoveDirStep ==
    ASSUME IInv, NEW p \in Procs, MoveDir(p), mix' = mix
    PROVE  Typed' /\ Disk' /\ Forward
<1>1. pc[p] = "moveDir"
  BY DEF MoveDir
<1>2. PICK d \in Dirs, to \in Dirs : d = obj[p].path /\ to = req[p].to
  BY <1>1, MidTransition
<1>3. d # to /\ obj[p].status = d /\ Active(p)
  BY <1>1, <1>2, MidTransition
<1>4. PICK c \in Dirs : companions = {c}
  BY <1>1, MidTransition
<1>5. CanMoveDir(d, to)
  BY <1>3, <1>4 DEF CanMoveDir
<1>6. companions' = MovedDir(d, to) /\ UNCHANGED <<files, clock>> /\ MovesTo(p, "verify")
  BY <1>2, <1>3, <1>5 DEF MoveDir, Task, MovesTo
<1>7. companions' = IF c = d THEN {to} ELSE {c}
  BY <1>3, <1>4, <1>6 DEF MovedDir
<1>8. LocalsTyped' /\ pc'[p] = "verify" /\ Active(p)'
  BY <1>3, <1>6, MoveLocals DEF Moving
<1>9. SharedTyped' /\ Forward
  BY <1>6, <1>7, SameFiles, TypedParts DEF IInv
<1>10. OnDisk' /\ InDirectory'
  <2>1. \A e \in DOMAIN files : files[e].status = e
    BY <1>1, MidTransition
  <2>2. QED
    BY <1>6, <2>1 DEF IInv, Disk, OnDisk, InDirectory, Holds
<1>11. InStep(p)'
  BY <1>1, <1>2, <1>3, <1>6, <1>8, MidTransition DEF InStep, MovesTo, Holds
<1>12. crashes = 0 => companions' = {req[p].to}
  BY <1>1, <1>2, <1>4, <1>7, MidTransition
<1>13. Disk'
  BY <1>3, <1>6, <1>7, <1>10, <1>11, <1>12, MoveDisk DEF Moving
<1>14. QED
  BY <1>8, <1>9, <1>13, TypedParts

(* The new file is there: nobody else removes files. *)
LEMMA VerifyStep ==
    ASSUME IInv, NEW p \in Procs, Verify(p), mix' = mix
    PROVE  Typed' /\ Disk' /\ Forward
<1>1. pc[p] = "verify" /\ UNCHANGED shared
  BY DEF Verify
<1>2. PICK d \in Dirs, to \in Dirs : d = obj[p].path /\ to = req[p].to
  BY <1>1, MidTransition
<1>3. d # to /\ obj[p].status = d /\ Active(p) /\ to \in DOMAIN files
  BY <1>1, <1>2, MidTransition DEF Holds
<1>4. MovesTo(p, "unlink")
  BY <1>2, <1>3 DEF Verify, MovesTo
<1>5. LocalsTyped' /\ pc'[p] = "unlink" /\ Active(p)'
  BY <1>3, <1>4, MoveLocals DEF Moving
<1>6. files' = files /\ clock' = clock /\ companions' = companions
  BY <1>1 DEF shared
<1>7. SharedTyped' /\ Forward
  BY <1>6, SameFiles, TypedParts DEF IInv, SharedTyped
<1>8. OnDisk' /\ InDirectory'
  <2>1. \A e \in DOMAIN files : files[e].status = e
    BY <1>1, MidTransition
  <2>2. QED
    BY <1>6, <2>1 DEF IInv, Disk, OnDisk, InDirectory, Holds
<1>9. InStep(p)'
  BY <1>1, <1>2, <1>3, <1>4, <1>5, <1>6, MidTransition DEF InStep, MovesTo, Holds
<1>10. (\E c \in Dirs : companions' = {c}) /\ (crashes = 0 => companions' = {req[p].to})
  BY <1>1, <1>6, MidTransition
<1>11. Disk'
  BY <1>3, <1>4, <1>8, <1>9, <1>10, MoveDisk DEF Moving
<1>12. QED
  BY <1>5, <1>7, <1>11, TypedParts

(* The older of the two files goes. *)
LEMMA UnlinkOldStep ==
    ASSUME IInv, NEW p \in Procs, UnlinkOld(p), mix' = mix
    PROVE  Typed' /\ Disk' /\ Forward
<1>1. pc[p] = "unlink"
  BY DEF UnlinkOld
<1>2. PICK d \in Dirs, to \in Dirs : d = obj[p].path /\ to = req[p].to
  BY <1>1, MidTransition
<1>3. d # to /\ Active(p) /\ Holds(to, d)
  BY <1>1, <1>2, MidTransition
<1>4. SharedTyped
  BY TypedParts DEF IInv
<1>5. /\ Copies(files') /\ DOMAIN files' = {to} /\ files'[to] = files[to]
      /\ UNCHANGED <<companions, clock>>
  <2>1. files' = Remove(files, d) /\ UNCHANGED <<companions, clock>>
    BY <1>2 DEF UnlinkOld, Task
  <2>2. DOMAIN files = {to, d} /\ Copies(files)
    BY <1>3, <1>4 DEF Holds, SharedTyped
  <2>3. /\ Copies(Remove(files, d)) /\ DOMAIN Remove(files, d) = DOMAIN files \ {d}
        /\ \A e \in DOMAIN files \ {d} : Remove(files, d)[e] = files[e]
    BY <2>2, RemoveCopies
  <2>4. {to, d} \ {d} = {to} /\ to \in DOMAIN files \ {d}
    BY <1>3, <2>2
  <2>5. QED
    BY <2>1, <2>2, <2>3, <2>4
<1>6. SharedTyped'
  BY <1>4, <1>5 DEF SharedTyped
<1>7. canonical' = files[to] /\ canonical = files[to] /\ files[to] \in File
  <2>1. \A e \in DOMAIN files' : files'[e].mtime \in Nat
    BY <1>5 DEF Copies, File
  <2>2. Winner(files') = to
    BY <1>5, <2>1, WinnerIs DEF Copies
  <2>3. QED
    BY <1>1, <1>2, <1>5, <2>2, MidTransition DEF canonical, Copies
<1>8. Forward
  BY <1>7 DEF Forward, File
<1>9. /\ LocalsTyped' /\ ~Active(p)' /\ OthersWait(p)
      /\ scan'[p] = 1 /\ found'[p] = NoCopies
  BY <1>3, FinishLocals DEF UnlinkOld
<1>10. Disk'
  <2>1. Holds(to, to)' /\ files'[to].status = to /\ files'[to].mtime <= clock'
    BY <1>1, <1>3, <1>5, MidTransition DEF Holds
  <2>2. (\E c \in Dirs : companions' = {c}) /\ (crashes = 0 => companions' = {to})
    BY <1>1, <1>2, <1>5, MidTransition
  <2>3. UNCHANGED <<up, crashes>>
    BY DEF UnlinkOld
  <2>4. QED
    BY <1>3, <1>9, <2>1, <2>2, <2>3, EndsDisk
<1>11. QED
  BY <1>6, <1>8, <1>9, <1>10, TypedParts

(* cancelTask: the old file is rewritten first, then renamed, then the      *)
(* companion follows.                                                       *)
LEMMA WriteCancelledStep ==
    ASSUME IInv, NEW p \in Procs, WriteCancelled(p), mix' = mix
    PROVE  Typed' /\ Disk' /\ Forward
<1> DEFINE t == [status |-> "cancelled", leased |-> FALSE, rev |-> Task(p).rev]
<1>1. pc[p] = "apply" /\ req[p].op = "cancel" /\ obj[p].status \notin Closed
  BY DEF WriteCancelled, Proceeds, Applying, Task, Refuses
<1>2. PICK d \in Dirs : d = obj[p].path
  BY <1>1, AtApply
<1>3. SharedTyped /\ LocalsTyped
  BY TypedParts DEF IInv
<1>4. d # "cancelled" /\ d \notin Closed /\ obj[p].status = d
  BY <1>1, <1>2, AtApply DEF Closed
<1>5. Put(d, t) /\ MovesTo(p, "rename") /\ UNCHANGED companions
  BY <1>2, <1>4 DEF WriteCancelled, Task, MovesTo
<1>6. /\ t.status = "cancelled" /\ t.leased \in BOOLEAN /\ t.rev = obj[p].rev /\ t.rev \in Nat
      /\ t.status \in Statuses
  <2>1. obj[p].rev \in Nat
    BY <1>1, AtApply
  <2>2. QED
    BY <2>1, DirsAreStatuses DEF Task
<1> HIDE DEF t
<1>7. /\ Copies(files') /\ clock' = clock + 1 /\ DOMAIN files' = {d, d}
      /\ files'[d].status = t.status /\ files'[d].rev = t.rev
      /\ \A a \in DOMAIN files' : files'[a].mtime <= clock'
  <2>1. Holds(d, d) /\ files[d].mtime <= clock
    BY <1>1, <1>2, AtApply
  <2>2. Copies(files) /\ clock \in Nat
    BY <1>3 DEF SharedTyped
  <2>3. QED
    BY <1>5, <1>6, <2>1, <2>2, PutOne
<1>8. DOMAIN files' = {d}
  BY <1>7
<1>9. Forward
  <2>1. \A e \in DOMAIN files' : files'[e].mtime \in Nat
    BY <1>7 DEF Copies, File
  <2>2. Winner(files') = d
    BY <1>7, <1>8, <2>1, WinnerIs DEF Copies
  <2>3. canonical'.status = "cancelled" /\ canonical'.rev = obj[p].rev
    BY <1>6, <1>7, <2>2 DEF canonical
  <2>4. QED
    BY <1>1, <1>2, <1>4, <2>3, AtApply DEF Forward
<1>10. SharedTyped'
  BY <1>3, <1>5, <1>7 DEF SharedTyped
<1>11. pc'[p] = "rename" /\ LocalsTyped' /\ Active(p)' /\ Active(p)
  BY <1>1, <1>5, MoveLocals DEF Moving, Active
<1>12. Holds(d, d)' /\ files'[d].status = "cancelled"
  BY <1>6, <1>7, <1>8 DEF Holds
<1>13. OnDisk' /\ InDirectory'
  BY <1>4, <1>7, <1>11, <1>12 DEF OnDisk, InDirectory
<1>14. InStep(p)'
  BY <1>1, <1>2, <1>4, <1>5, <1>11, <1>12 DEF InStep, MovesTo
<1>15. Disk'
  <2>1. (\E c \in Dirs : companions' = {c}) /\ (crashes = 0 => companions' = {obj[p].path})
    BY <1>1, <1>5, AtApply DEF IInv, Disk, OneCompanion
  <2>2. QED
    BY <1>5, <1>11, <1>13, <1>14, <2>1, MoveDisk DEF Moving
<1>16. QED
  BY <1>9, <1>10, <1>11, <1>15, TypedParts

(* The state between a cancel's write and its last directory move. *)
LEMMA MidCancel ==
    ASSUME IInv, NEW p \in Procs, pc[p] \in {"rename", "cancelDir"}
    PROVE  /\ Active(p) /\ req[p].op = "cancel"
           /\ obj[p].path \in Dirs /\ obj[p].path # "cancelled" /\ obj[p].status = obj[p].path
           /\ pc[p] = "rename" => /\ Holds(obj[p].path, obj[p].path)
                                  /\ files[obj[p].path].status = "cancelled"
           /\ pc[p] = "cancelDir" => /\ Holds("cancelled", "cancelled")
                                     /\ files["cancelled"].status = "cancelled"
           /\ crashes = 0 => companions = {obj[p].path}
           /\ \E c \in Dirs : companions = {c}
<1>1. Active(p) /\ up
  BY DEF Active, IInv, Mutex, Down, Busy
<1>2. InStep(p)
  BY DEF IInv, Disk, CallsInStep
<1>3. pc[p] = "cancelDir" => files["cancelled"].status = "cancelled"
  <2>1. SUFFICES ASSUME pc[p] = "cancelDir" PROVE files["cancelled"].status = "cancelled"
    OBVIOUS
  <2>2. DOMAIN files = {"cancelled"}
    BY <1>2, <2>1 DEF InStep, Holds
  <2>3. QED
    BY <2>2 DEF IInv, Disk, InDirectory, Holds
<1>4. QED
  BY <1>1, <1>2, <1>3 DEF InStep, IInv, Disk, OneCompanion

LEMMA RenameStep ==
    ASSUME IInv, NEW p \in Procs, Rename(p), mix' = mix
    PROVE  Typed' /\ Disk' /\ Forward
<1>1. pc[p] = "rename" /\ UNCHANGED <<companions, clock>>
  BY DEF Rename
<1>2. PICK d \in Dirs : d = obj[p].path
  BY <1>1, MidCancel
<1>3. /\ Active(p) /\ d # "cancelled" /\ DOMAIN files = {d}
      /\ files[d].status = "cancelled" /\ Holds(d, d)
  BY <1>1, <1>2, MidCancel DEF Holds
<1>4. SharedTyped
  BY TypedParts DEF IInv
<1>5. /\ files' = [e \in (DOMAIN files \ {d}) \cup {"cancelled"} |->
                      IF e = "cancelled" THEN files[d] ELSE files[e]]
      /\ MovesTo(p, "cancelDir")
  BY <1>2, <1>3 DEF Rename, Task, MovesTo
<1>6. DOMAIN files' = {"cancelled"} /\ files'["cancelled"] = files[d] /\ files[d] \in File
  <2>1. (DOMAIN files \ {d}) \cup {"cancelled"} = {"cancelled"}
    BY <1>3
  <2>2. QED
    BY <1>3, <1>4, <1>5, <2>1 DEF SharedTyped, Copies
<1>7. "cancelled" \in Dirs /\ Copies(files')
  <2>1. files' = [e \in DOMAIN files' |-> files'[e]]
    BY <1>5
  <2>2. QED
    BY <1>6, <2>1, DirsAreStatuses DEF Copies
<1>8. SharedTyped'
  BY <1>1, <1>4, <1>7 DEF SharedTyped
<1>9. canonical' = files[d] /\ canonical = files[d]
  <2>1. \A e \in DOMAIN files' : files'[e].mtime \in Nat
    BY <1>6 DEF File
  <2>2. Winner(files') = "cancelled"
    BY <1>6, <1>7, <2>1, WinnerIs DEF Copies
  <2>3. canonical = files[d]
    BY <1>3, <1>4, CanonicalIs DEF SharedTyped
  <2>4. QED
    BY <1>6, <2>2, <2>3 DEF canonical
<1>10. Forward
  BY <1>6, <1>9 DEF Forward, File
<1>11. pc'[p] = "cancelDir" /\ LocalsTyped' /\ Active(p)'
  BY <1>3, <1>5, MoveLocals DEF Moving
<1>12. Holds("cancelled", "cancelled")'
  BY <1>6 DEF Holds
<1>13. OnDisk' /\ InDirectory'
  BY <1>1, <1>3, <1>6, <1>7, <1>12 DEF OnDisk, InDirectory, IInv, Disk
<1>14. InStep(p)'
  BY <1>1, <1>2, <1>5, <1>11, <1>12, MidCancel DEF InStep, MovesTo
<1>15. Disk'
  <2>1. (\E c \in Dirs : companions' = {c}) /\ (crashes = 0 => companions' = {obj[p].path})
    BY <1>1, MidCancel
  <2>2. QED
    BY <1>3, <1>5, <1>13, <1>14, <2>1, MoveDisk DEF Moving
<1>16. QED
  BY <1>8, <1>10, <1>11, <1>15, TypedParts

LEMMA CancelDirStep ==
    ASSUME IInv, NEW p \in Procs, CancelDir(p), mix' = mix
    PROVE  Typed' /\ Disk' /\ Forward
<1>1. pc[p] = "cancelDir" /\ UNCHANGED <<files, clock, req, up, calls, crashes>>
  BY DEF CancelDir
<1>2. PICK d \in Dirs : d = obj[p].path
  BY <1>1, MidCancel
<1>3. /\ Active(p) /\ d # "cancelled" /\ obj[p].status = d
      /\ Holds("cancelled", "cancelled") /\ files["cancelled"].status = "cancelled"
  BY <1>1, <1>2, MidCancel
<1>4. PICK c \in Dirs : companions = {c}
  BY <1>1, MidCancel
<1>5. companions' = IF c = d THEN {"cancelled"} ELSE {c}
  BY <1>3, <1>4 DEF CancelDir, Task, MovedDir
<1>6. "cancelled" \in Dirs
  BY DirsAreStatuses
<1>7. SharedTyped' /\ Forward
  BY <1>1, <1>5, <1>6, SameFiles, TypedParts DEF IInv
<1>8. /\ LocalsTyped' /\ ~Active(p)' /\ OthersWait(p)
      /\ scan'[p] = 1 /\ found'[p] = NoCopies
  BY <1>1, <1>3, FinishLocals DEF CancelDir
<1>9. Disk'
  <2>1. /\ Holds("cancelled", "cancelled")' /\ files'["cancelled"].status = "cancelled"
        /\ files'["cancelled"].mtime <= clock'
    BY <1>1, <1>3 DEF Holds, IInv, Disk, OnDisk
  <2>2. (\E e \in Dirs : companions' = {e}) /\ (crashes = 0 => companions' = {"cancelled"})
    BY <1>1, <1>2, <1>4, <1>5, <1>6, MidCancel
  <2>3. QED
    BY <1>1, <1>3, <1>6, <1>8, <2>1, <2>2, EndsDisk
<1>10. QED
  BY <1>7, <1>8, <1>9, TypedParts

(* A step of get() that writes nothing. *)
LEMMA ReadingDisk ==
    ASSUME IInv, NEW p \in Procs, pc[p] \in {"scan", "stat"},
           pc'[p] \in {"scan", "stat", "heal", "apply"}, OthersWait(p), InStep(p)',
           UNCHANGED <<shared, up, crashes>>
    PROVE  SharedTyped' /\ Disk' /\ Forward
<1>1. files' = files /\ clock' = clock /\ companions' = companions
  BY DEF shared
<1>2. Active(p)
  BY DEF Active
<1>3. SharedTyped' /\ Forward
  BY <1>1, SameFiles, TypedParts DEF IInv, SharedTyped
<1>4. OnDisk' /\ InDirectory'
  BY <1>1, AtRest DEF IInv, Disk, OnDisk, InDirectory, Holds
<1>5. CallsInStep'
  BY <1>2, OthersInStep DEF CallsInStep
<1>6. OneCompanion'
  <2>1. \A q \in Procs : pc'[q] \notin Moving
    <3>1. \A q \in Procs \ {p} : pc'[q] = pc[q]
      BY DEF OthersWait
    <3>2. QED
      BY <3>1, AtRest DEF Moving
  <2>2. crashes = 0 => \E d \in Dirs : Holds(d, d)' /\ companions' = {d}
    BY <1>1, AtRest DEF Holds
  <2>3. \E c \in Dirs : companions' = {c}
    BY <1>1 DEF IInv, Disk, OneCompanion
  <2>4. QED
    BY <2>1, <2>2, <2>3, AtRest DEF OneCompanion, Moving
<1>7. QED
  BY <1>3, <1>4, <1>5, <1>6 DEF Disk

LEMMA ReadDirStep ==
    ASSUME IInv, NEW p \in Procs, ReadDir(p), mix' = mix
    PROVE  Typed' /\ Disk' /\ Forward
<1>1. /\ pc[p] = "scan" /\ scan[p] <= Len(STATUS_DIRS)
      /\ UNCHANGED <<shared, lockQ, req, obj, result, up, calls, crashes>>
  BY DEF ReadDir
<1>2. SharedTyped /\ LocalsTyped
  BY TypedParts DEF IInv
<1>3. PICK n \in 1..Len(STATUS_DIRS) : n = scan[p]
  BY <1>1, <1>2, DirsAreStatuses DEF LocalsTyped
<1>4. PICK d \in Dirs : d = STATUS_DIRS[n]
  BY DirsAreStatuses
<1>5. ReadUpTo(p, n - 1) /\ Copies(found[p])
  BY <1>1, <1>2, <1>3 DEF IInv, Disk, CallsInStep, InStep, LocalsTyped
<1>6. \A e : (\E i \in 1..n : STATUS_DIRS[i] = e)
               <=> (e = d \/ \E i \in 1..(n - 1) : STATUS_DIRS[i] = e)
  <2>1. \A i : i \in 1..n <=> i = n \/ i \in 1..(n - 1)
    BY DirsAreStatuses
  <2>2. QED
    BY <1>4, <2>1
<1>7. CASE d \in DOMAIN files
  <2> DEFINE m == [e \in DOMAIN found[p] \cup {d} |-> IF e = d THEN files[d] ELSE found[p][e]]
  <2>1. found' = [found EXCEPT ![p] = m] /\ pc' = [pc EXCEPT ![p] = "stat"] /\ scan' = scan
    BY <1>3, <1>4, <1>7 DEF ReadDir
  <2>2. Copies(m)
    BY <1>2, <1>5, <1>7 DEF Copies, SharedTyped
  <2>3. /\ DOMAIN m = {e \in DOMAIN files : \E i \in 1..n : STATUS_DIRS[i] = e}
        /\ \A e \in DOMAIN m : m[e] = files[e]
    <3>1. DOMAIN m = DOMAIN found[p] \cup {d}
      OBVIOUS
    <3>2. DOMAIN found[p] = {e \in DOMAIN files : \E i \in 1..(n - 1) : STATUS_DIRS[i] = e}
      BY <1>5 DEF ReadUpTo
    <3>3. DOMAIN m = {e \in DOMAIN files : \E i \in 1..n : STATUS_DIRS[i] = e}
      BY <1>6, <1>7, <3>1, <3>2
    <3>4. QED
      BY <1>5, <3>1, <3>3 DEF ReadUpTo
  <2> HIDE DEF m
  <2>4. found'[p] = m /\ pc'[p] = "stat" /\ scan'[p] = n
    BY <1>2, <1>3, <2>1 DEF LocalsTyped
  <2>5. OthersWait(p)
    BY <1>2, <2>1 DEF OthersWait, LocalsTyped
  <2>6. LocalsTyped'
    BY <1>1, <1>2, <2>1, <2>2 DEF LocalsTyped, PCs
  <2>7. InStep(p)'
    BY <1>1, <1>4, <1>7, <2>3, <2>4 DEF InStep, ReadUpTo, Active, shared
  <2>8. QED
    BY <1>1, <2>4, <2>5, <2>6, <2>7, ReadingDisk, TypedParts
<1>8. CASE d \notin DOMAIN files
  <2>1. scan' = [scan EXCEPT ![p] = n + 1] /\ UNCHANGED <<pc, found>>
    BY <1>2, <1>3, <1>4, <1>8 DEF ReadDir, LocalsTyped
  <2>2. scan'[p] = n + 1 /\ n + 1 \in 1..(Len(STATUS_DIRS) + 1) /\ (n + 1) - 1 = n
    BY <1>2, <2>1, DirsAreStatuses DEF LocalsTyped
  <2>3. OthersWait(p)
    BY <1>2, <2>1 DEF OthersWait, LocalsTyped
  <2>4. LocalsTyped'
    BY <1>1, <1>2, <2>1, <2>2 DEF LocalsTyped
  <2>5. ReadUpTo(p, n)
    BY <1>5, <1>6, <1>8 DEF ReadUpTo
  <2>6. ReadUpTo(p, scan[p] - 1)'
    BY <1>1, <2>1, <2>2, <2>5 DEF ReadUpTo, shared
  <2>7. InStep(p)'
    BY <1>1, <2>1, <2>6 DEF InStep, Active
  <2>8. QED
    BY <1>1, <2>1, <2>3, <2>4, <2>7, ReadingDisk, TypedParts
<1>9. QED
  BY <1>7, <1>8

(* stat() finds the file just read: its mtime is the one read. *)
LEMMA StatDirStep ==
    ASSUME IInv, NEW p \in Procs, StatDir(p), mix' = mix
    PROVE  Typed' /\ Disk' /\ Forward
<1>1. /\ pc[p] = "stat"
      /\ UNCHANGED <<shared, lockQ, req, obj, result, up, calls, crashes>>
      /\ scan' = [scan EXCEPT ![p] = @ + 1] /\ pc' = [pc EXCEPT ![p] = "scan"]
  BY DEF StatDir
<1>2. SharedTyped /\ LocalsTyped
  BY TypedParts DEF IInv
<1>3. scan[p] <= Len(STATUS_DIRS) /\ STATUS_DIRS[scan[p]] \in DOMAIN files /\ ReadUpTo(p, scan[p])
  BY <1>1 DEF IInv, Disk, CallsInStep, InStep
<1>4. PICK n \in 1..Len(STATUS_DIRS) : n = scan[p]
  BY <1>2, <1>3, DirsAreStatuses DEF LocalsTyped
<1>5. PICK d \in DOMAIN files : d = STATUS_DIRS[n]
  BY <1>3, <1>4
<1>6. d \in DOMAIN found[p] /\ found[p][d] = files[d]
  BY <1>3, <1>4, <1>5 DEF ReadUpTo
<1>7. found' = found
  <2>1. found' = [found EXCEPT ![p] = [found[p] EXCEPT ![d] = [found[p][d] EXCEPT !.mtime = files[d].mtime]]]
    BY <1>4, <1>5 DEF StatDir
  <2>2. files[d] \in File
    BY <1>2 DEF SharedTyped, Copies
  <2>3. [found[p][d] EXCEPT !.mtime = files[d].mtime] = found[p][d]
    BY <1>6, <2>2 DEF File
  <2>4. [found[p] EXCEPT ![d] = found[p][d]] = found[p]
    BY <1>2 DEF LocalsTyped, Copies
  <2>5. [found EXCEPT ![p] = found[p]] = found
    BY <1>2 DEF LocalsTyped
  <2>6. QED
    BY <2>1, <2>3, <2>4, <2>5
<1>8. /\ scan'[p] = n + 1 /\ n + 1 \in 1..(Len(STATUS_DIRS) + 1) /\ (n + 1) - 1 = n
      /\ pc'[p] = "scan"
  <2>1. scan' = [scan EXCEPT ![p] = n + 1]
    BY <1>1, <1>4
  <2>2. n + 1 \in 1..(Len(STATUS_DIRS) + 1) /\ (n + 1) - 1 = n
    BY DirsAreStatuses
  <2>3. QED
    BY <1>1, <1>2, <2>1, <2>2 DEF LocalsTyped
<1>9. OthersWait(p)
  BY <1>1, <1>2, <1>7 DEF OthersWait, LocalsTyped
<1>10. LocalsTyped'
  BY <1>1, <1>2, <1>4, <1>7, <1>8, DirsAreStatuses DEF LocalsTyped, PCs
<1>11. ReadUpTo(p, scan[p] - 1)'
  BY <1>1, <1>3, <1>4, <1>7, <1>8 DEF ReadUpTo, shared
<1>12. InStep(p)'
  BY <1>8, <1>11 DEF InStep, Active
<1>13. QED
  BY <1>1, <1>8, <1>9, <1>10, <1>12, ReadingDisk, TypedParts

(* All directories read: the copies are the files. *)
LEMMA SettleStep ==
    ASSUME IInv, NEW p \in Procs, Settle(p), mix' = mix
    PROVE  Typed' /\ Disk' /\ Forward
<1>1. /\ pc[p] = "scan" /\ scan[p] > Len(STATUS_DIRS)
      /\ UNCHANGED <<shared, lockQ, req, scan, result, up, calls, crashes>>
  BY DEF Settle
<1>2. SharedTyped /\ LocalsTyped
  BY TypedParts DEF IInv
<1>3. scan[p] - 1 = Len(STATUS_DIRS)
  BY <1>1, <1>2, DirsAreStatuses DEF LocalsTyped
<1>4. found[p] = files
  <2>1. ReadUpTo(p, Len(STATUS_DIRS))
    BY <1>1, <1>3 DEF IInv, Disk, CallsInStep, InStep
  <2>2. DOMAIN found[p] = DOMAIN files
    <3>1. \A e \in DOMAIN files : \E i \in 1..Len(STATUS_DIRS) : STATUS_DIRS[i] = e
      BY <1>2 DEF SharedTyped, Copies, Dirs
    <3>2. QED
      BY <2>1, <3>1 DEF ReadUpTo
  <2>3. QED
    BY <1>2, <2>1, <2>2 DEF ReadUpTo, SharedTyped, LocalsTyped, Copies
<1>5. PICK a \in Dirs, b \in Dirs : Holds(a, b)
  BY DEF IInv, Disk, OnDisk
<1>6. DOMAIN files = {a, b} /\ Winner(files) = a
  BY <1>2, <1>5, CanonicalIs DEF SharedTyped, Holds
<1> DEFINE c == [path |-> a, status |-> files[a].status, leased |-> files[a].leased, rev |-> files[a].rev]
           x == IF a # b THEN "heal" ELSE "apply"
<1>7. files[a] \in File /\ files[a].status = a
  BY <1>1, <1>2, <1>6, AtRest DEF SharedTyped, Copies
<1>8. c \in TaskObj /\ c.path = a /\ c.status = a /\ c.rev = files[a].rev
  BY <1>7 DEF TaskObj, File
<1>9. Cardinality({a, b}) > 1 <=> a # b
  <2>1. CASE a = b
    <3>1. {a, b} = {a} /\ Cardinality({a}) = 1
      BY <2>1, FS_Singleton
    <3>2. QED
      BY <2>1, <3>1
  <2>2. CASE a # b
    <3>1. IsFiniteSet({a}) /\ Cardinality({a}) = 1
      BY FS_Singleton
    <3>2. {a} \cup {b} = {a, b} /\ b \notin {a}
      BY <2>2
    <3>3. Cardinality({a, b}) = Cardinality({a}) + 1
      BY <3>1, <3>2, FS_AddElement
    <3>4. QED
      BY <2>2, <3>1, <3>3
  <2>3. QED
    BY <2>1, <2>2
<1>10. /\ obj' = [obj EXCEPT ![p] = c] /\ found' = [found EXCEPT ![p] = Remove(files, a)]
       /\ pc' = [pc EXCEPT ![p] = x]
  BY <1>4, <1>6, <1>9 DEF Settle
<1> HIDE DEF c
<1>11. Copies(Remove(files, a)) /\ DOMAIN Remove(files, a) = DOMAIN files \ {a}
       /\ \A e \in DOMAIN files \ {a} : Remove(files, a)[e] = files[e]
  BY <1>2, RemoveCopies DEF SharedTyped
<1>12. found'[p] = Remove(files, a) /\ obj'[p] = c /\ pc'[p] = x /\ x \in {"heal", "apply"}
  BY <1>2, <1>10 DEF LocalsTyped
<1>13. OthersWait(p)
  BY <1>1, <1>2, <1>10 DEF OthersWait, LocalsTyped
<1>14. LocalsTyped'
  BY <1>1, <1>2, <1>8, <1>10, <1>11 DEF LocalsTyped, PCs
<1>15. files' = files
  BY <1>1 DEF shared
<1>16. Loaded(p)'
  BY <1>8, <1>12, <1>15 DEF Loaded
<1>17. InStep(p)'
  <2>1. CASE a = b
    <3>1. Holds(a, a)' /\ pc'[p] = "apply"
      BY <1>5, <1>12, <1>15, <2>1 DEF Holds
    <3>2. QED
      BY <1>8, <1>12, <1>16, <3>1 DEF InStep, Active
  <2>2. CASE a # b
    <3>1. Holds(a, b)' /\ pc'[p] = "heal"
      BY <1>5, <1>12, <1>15, <2>2 DEF Holds
    <3>2. DOMAIN found'[p] = {b} /\ found'[p][b] = files'[b]
      BY <1>6, <1>11, <1>12, <1>15, <2>2
    <3>3. QED
      BY <1>8, <1>12, <1>16, <2>2, <3>1, <3>2 DEF InStep, Active
  <2>3. QED
    BY <2>1, <2>2
<1>18. QED
  BY <1>1, <1>12, <1>13, <1>14, <1>17, ReadingDisk, TypedParts

(* The stale copy is the older one of the two. *)
LEMMA HealStep ==
    ASSUME IInv, NEW p \in Procs, Heal(p), mix' = mix
    PROVE  Typed' /\ Disk' /\ Forward
<1>1. /\ pc[p] = "heal" /\ Active(p)
      /\ UNCHANGED <<companions, clock, lockQ, req, scan, obj, result, up, calls, crashes>>
  BY DEF Heal, Active
<1>2. SharedTyped /\ LocalsTyped
  BY TypedParts DEF IInv
<1>3. Loaded(p) /\ \E e \in Dirs \ {obj[p].path} :
                      Holds(obj[p].path, e) /\ DOMAIN found[p] = {e} /\ found[p][e] = files[e]
  BY <1>1 DEF IInv, Disk, CallsInStep, InStep
<1>4. PICK a \in Dirs : a = obj[p].path
  BY <1>3 DEF Loaded
<1>5. PICK b \in Dirs : b # a /\ Holds(a, b) /\ DOMAIN found[p] = {b}
  BY <1>3, <1>4
<1>6. Winner(found[p]) = b
  <2>1. \A e \in DOMAIN found[p] : found[p][e].mtime \in Nat
    BY <1>2 DEF LocalsTyped, Copies, File
  <2>2. QED
    BY <1>5, <2>1, WinnerIs
<1>7. /\ files' = Remove(files, b) /\ found' = [found EXCEPT ![p] = Remove(found[p], b)]
      /\ pc' = [pc EXCEPT ![p] = "apply"]
  BY <1>5, <1>6 DEF Heal
<1>8. Copies(files') /\ DOMAIN files' = {a} /\ files'[a] = files[a]
  <2>1. DOMAIN files = {a, b} /\ Copies(files)
    BY <1>2, <1>5 DEF Holds, SharedTyped
  <2>2. /\ Copies(Remove(files, b)) /\ DOMAIN Remove(files, b) = DOMAIN files \ {b}
        /\ \A e \in DOMAIN files \ {b} : Remove(files, b)[e] = files[e]
    BY <2>1, RemoveCopies
  <2>3. {a, b} \ {b} = {a} /\ a \in DOMAIN files \ {b}
    BY <1>5, <2>1
  <2>4. QED
    BY <1>7, <2>1, <2>2, <2>3
<1>9. Copies(Remove(found[p], b))
  BY <1>2, RemoveCopies DEF LocalsTyped
<1>10. SharedTyped' /\ LocalsTyped'
  BY <1>1, <1>2, <1>7, <1>8, <1>9 DEF SharedTyped, LocalsTyped, PCs
<1>11. pc'[p] = "apply" /\ Active(p)' /\ OthersWait(p)
  BY <1>1, <1>2, <1>7 DEF LocalsTyped, Active, OthersWait
<1>12. Holds(a, a)' /\ files'[a].status = a /\ files[a] \in File
  <2>1. a \in DOMAIN files
    BY <1>5 DEF Holds
  <2>2. QED
    BY <1>1, <1>2, <1>8, <2>1, AtRest DEF Holds, SharedTyped, Copies
<1>13. Forward
  <2>1. \A e \in DOMAIN files' : files'[e].mtime \in Nat
    BY <1>8 DEF Copies, File
  <2>2. Winner(files') = a
    BY <1>8, <2>1, WinnerIs DEF Copies
  <2>3. canonical = files[a]
    BY <1>2, <1>5, CanonicalIs DEF SharedTyped
  <2>4. QED
    BY <1>8, <1>12, <2>2, <2>3 DEF canonical, Forward, File
<1>14. OnDisk' /\ InDirectory'
  BY <1>1, <1>5, <1>8, <1>12 DEF OnDisk, InDirectory, IInv, Disk, Holds
<1>15. InStep(p)'
  BY <1>1, <1>3, <1>4, <1>8, <1>11, <1>12 DEF InStep, Loaded
<1>16. CallsInStep'
  BY <1>1, <1>11, <1>15, OthersInStep DEF CallsInStep
<1>17. crashes # 0
  <2>1. SUFFICES ASSUME crashes = 0 PROVE FALSE
    OBVIOUS
  <2>2. PICK d \in Dirs : Holds(d, d)
    BY <1>1, <2>1, AtRest
  <2>3. QED
    BY <1>5, <2>2 DEF Holds
<1>18. OneCompanion'
  BY <1>1, <1>17 DEF OneCompanion, IInv, Disk
<1>19. QED
  BY <1>10, <1>13, <1>14, <1>16, <1>18, TypedParts DEF Disk

-----------------------------------------------------------------------------
(* The steps that do not run a call. *)

(* An arriving or granted call has read nothing yet. *)
LEMMA StartDisk ==
    ASSUME IInv, NEW p \in Procs, ~Active(p), pc'[p] \in {"queued", "scan"}, OthersWait(p),
           UNCHANGED <<shared, scan, found, obj, up, crashes>>,
           \A q \in Procs : Active(q) => req'[q] = req[q]
    PROVE  SharedTyped' /\ Disk' /\ Forward
<1>1. files' = files /\ clock' = clock /\ companions' = companions
  BY DEF shared
<1>2. SharedTyped' /\ Forward
  BY <1>1, SameFiles, TypedParts DEF IInv, SharedTyped
<1>3. \A q \in Procs : pc'[q] \in Moving <=> pc[q] \in Moving
  BY DEF OthersWait, Active, Moving
<1>4. \A q \in Procs : pc'[q] = "rename" <=> pc[q] = "rename"
  BY DEF OthersWait, Active
<1>5. OnDisk'
  BY <1>1 DEF IInv, Disk, OnDisk, Holds
<1>6. InDirectory'
  BY <1>1, <1>4 DEF IInv, Disk, InDirectory, Holds
<1>7. CallsInStep'
  <2>1. SUFFICES ASSUME NEW q \in Procs PROVE InStep(q)'
    BY DEF CallsInStep
  <2>2. CASE q = p
    <3>1. scan'[p] = 1 /\ found'[p] = NoCopies
      BY DEF IInv, Disk, CallsInStep, InStep
    <3>2. DOMAIN found'[p] = {} /\ \A i \in 1..(scan'[p] - 1) : FALSE
      BY <3>1 DEF NoCopies
    <3>3. ReadUpTo(p, scan[p] - 1)'
      BY <3>2 DEF ReadUpTo
    <3>4. QED
      BY <2>2, <3>1, <3>3 DEF InStep, Active
  <2>3. CASE q # p
    <3>1. InStep(q) /\ pc'[q] = pc[q] /\ scan'[q] = scan[q] /\ found'[q] = found[q]
      BY <2>3 DEF IInv, Disk, CallsInStep, OthersWait
    <3>2. CASE ~Active(q)
      BY <3>1, <3>2 DEF InStep, Active
    <3>3. CASE Active(q)
      BY <1>1, <3>1, <3>3 DEF InStep, Active, ReadUpTo, Loaded, Holds
    <3>4. QED
      BY <3>2, <3>3
  <2>4. QED
    BY <2>2, <2>3
<1>8. OneCompanion'
  <2>1. \A q \in Procs : pc'[q] \in Moving => req'[q] = req[q] /\ pc'[q] = pc[q]
    BY <1>3 DEF Active, Moving, OthersWait
  <2>2. QED
    BY <1>1, <1>3, <2>1 DEF IInv, Disk, OneCompanion, Moving, Holds
<1>9. QED
  BY <1>2, <1>5, <1>6, <1>7, <1>8 DEF Disk

LEMMA GrantStep ==
    ASSUME IInv, NEW p \in Procs, Grant(p), mix' = mix
    PROVE  Typed' /\ Disk' /\ Forward
<1>1. LocalsTyped
  BY TypedParts DEF IInv
<1>2. /\ pc[p] = "queued" /\ pc' = [pc EXCEPT ![p] = "scan"]
      /\ UNCHANGED <<shared, lockQ, req, scan, found, obj, result, up, calls, crashes>>
  BY DEF Grant
<1>3. LocalsTyped'
  BY <1>1, <1>2 DEF LocalsTyped, PCs
<1>4. ~Active(p) /\ pc'[p] = "scan" /\ OthersWait(p)
  BY <1>1, <1>2 DEF LocalsTyped, Active, OthersWait
<1>5. QED
  BY <1>2, <1>3, <1>4, StartDisk, TypedParts

LEMMA CallStep ==
    ASSUME IInv, NEW p \in Procs, NEW r \in mix.requests, Call(p, r), mix' = mix
    PROVE  Typed' /\ Disk' /\ Forward
<1>1. LocalsTyped
  BY TypedParts DEF IInv
<1>2. /\ pc[p] = "idle" /\ calls < mix.calls /\ calls' = calls + 1
      /\ req' = [req EXCEPT ![p] = r] /\ result' = [result EXCEPT ![p] = "none"]
      /\ UNCHANGED <<shared, scan, found, obj, up, crashes>>
  BY DEF Call
<1>3. PICK x \in {"queued", "scan"} :
          pc' = [pc EXCEPT ![p] = x] /\ (lockQ' = Append(lockQ, p) \/ lockQ' = lockQ)
  BY DEF Call, Enqueue
<1>4. mix.calls \in Nat /\ r \in [op : Ops, to : Dirs]
  BY <1>1, MixesAssumption DEF LocalsTyped
<1>5. lockQ' \in Seq(Procs)
  <2>1. lockQ \in Seq(Procs) /\ Append(lockQ, p) \in Seq(Procs)
    BY <1>1 DEF LocalsTyped
  <2>2. QED
    BY <1>3, <2>1
<1>6. calls' \in 0..mix.calls
  BY <1>1, <1>2, <1>4 DEF LocalsTyped
<1>7. LocalsTyped'
  BY <1>1, <1>2, <1>3, <1>4, <1>5, <1>6 DEF LocalsTyped, PCs
<1>8. ~Active(p) /\ pc'[p] \in {"queued", "scan"} /\ OthersWait(p)
  BY <1>1, <1>2, <1>3 DEF LocalsTyped, Active, OthersWait
<1>9. \A q \in Procs : Active(q) => req'[q] = req[q]
  BY <1>1, <1>2 DEF LocalsTyped, Active
<1>10. QED
  BY <1>2, <1>7, <1>8, <1>9, StartDisk, TypedParts

(* A crash leaves the files as they are, and every call is gone. *)
LEMMA CrashStep ==
    ASSUME IInv, Crash, mix' = mix
    PROVE  Typed' /\ Disk' /\ Forward
<1>1. SharedTyped /\ LocalsTyped
  BY TypedParts DEF IInv
<1>2. /\ files' = files /\ clock' = clock /\ companions' = companions
      /\ crashes < mix.crashes /\ crashes' = crashes + 1 /\ ~up'
      /\ lockQ' = <<>> /\ pc' = [p \in Procs |-> "idle"]
      /\ found' = [p \in Procs |-> NoCopies] /\ obj' = [p \in Procs |-> NoTask]
      /\ scan' = [p \in Procs |-> 1] /\ result' = [p \in Procs |-> "none"]
      /\ UNCHANGED <<req, calls>>
  BY DEF Crash, shared
<1>3. SharedTyped' /\ Forward
  BY <1>1, <1>2, SameFiles DEF SharedTyped
<1>4. Copies(NoCopies)
  BY DEF Copies, NoCopies
<1>5. crashes' \in 0..mix.crashes /\ crashes' # 0
  BY <1>1, <1>2, MixesAssumption DEF LocalsTyped
<1>6. LocalsTyped'
  <2>1. up' \in BOOLEAN
    BY DEF Crash
  <2>2. QED
    BY <1>1, <1>2, <1>4, <1>5, <2>1, DirsAreStatuses DEF LocalsTyped, PCs
<1>7. OnDisk' /\ InDirectory'
  BY <1>2 DEF IInv, Disk, OnDisk, InDirectory, Holds
<1>8. CallsInStep'
  BY <1>2 DEF CallsInStep, InStep, Active
<1>9. OneCompanion'
  BY <1>2, <1>5 DEF IInv, Disk, OneCompanion
<1>10. QED
  BY <1>3, <1>6, <1>7, <1>8, <1>9, TypedParts DEF Disk

(* The only file out of place is that of a task being cancelled. *)
LEMMA ReconcileStep ==
    ASSUME IInv, NEW d \in Dirs, Reconcile(d), mix' = mix
    PROVE  Typed' /\ Disk' /\ Forward
<1>1. /\ ~up /\ d \in DOMAIN files /\ files[d].status # d
      /\ UNCHANGED <<clock, lockQ, local, up, calls, crashes>>
  BY DEF Reconcile, Mismatched
<1>2. SharedTyped /\ LocalsTyped
  BY TypedParts DEF IInv
<1>3. Holds(d, d) /\ files[d].status = "cancelled" /\ d # "cancelled"
  BY <1>1 DEF IInv, Disk, InDirectory, Holds
<1>4. DOMAIN files = {d} /\ files[d] \in File
  BY <1>2, <1>3 DEF Holds, SharedTyped, Copies
<1>5. /\ files' = [e \in (DOMAIN files \ {d}) \cup {"cancelled"} |->
                      IF e = "cancelled" THEN files[d] ELSE files[e]]
      /\ companions' = MovedDir(d, "cancelled")
  BY <1>3 DEF Reconcile
<1>6. DOMAIN files' = {"cancelled"} /\ files'["cancelled"] = files[d]
  <2>1. (DOMAIN files \ {d}) \cup {"cancelled"} = {"cancelled"}
    BY <1>4
  <2>2. QED
    BY <1>5, <2>1
<1>7. "cancelled" \in Dirs /\ Copies(files')
  <2>1. files' = [e \in DOMAIN files' |-> files'[e]]
    BY <1>5
  <2>2. QED
    BY <1>4, <1>6, <2>1, DirsAreStatuses DEF Copies
<1>8. \E c \in Dirs : companions' = {c}
  <2>1. PICK c \in Dirs : companions = {c}
    BY DEF IInv, Disk, OneCompanion
  <2>2. companions' = IF c = d THEN {"cancelled"} ELSE {c}
    BY <1>3, <1>5, <2>1 DEF MovedDir
  <2>3. QED
    BY <1>7, <2>2
<1>9. Typed'
  <2>1. SharedTyped'
    BY <1>1, <1>2, <1>7, <1>8 DEF SharedTyped
  <2>2. LocalsTyped'
    BY <1>1, <1>2 DEF LocalsTyped, local
  <2>3. QED
    BY <2>1, <2>2, TypedParts
<1>10. Forward
  <2>1. \A e \in DOMAIN files' : files'[e].mtime \in Nat
    BY <1>4, <1>6 DEF File
  <2>2. Winner(files') = "cancelled"
    BY <1>6, <1>7, <2>1, WinnerIs DEF Copies
  <2>3. canonical = files[d]
    BY <1>2, <1>3, CanonicalIs DEF SharedTyped
  <2>4. QED
    BY <1>4, <1>6, <2>2, <2>3 DEF canonical, Forward, File
<1>11. Holds("cancelled", "cancelled")'
  BY <1>6 DEF Holds
<1>12. OnDisk' /\ InDirectory'
  BY <1>1, <1>3, <1>4, <1>6, <1>7, <1>11 DEF OnDisk, InDirectory, IInv, Disk
<1>13. CallsInStep'
  <2>1. \A p \in Procs : ~Busy(p) /\ InStep(p)
    BY <1>1 DEF IInv, Mutex, Down, Disk, CallsInStep
  <2>2. QED
    BY <1>1, <2>1 DEF CallsInStep, InStep, Active, Busy, local
<1>14. OneCompanion'
  BY <1>1, <1>8 DEF OneCompanion, IInv, Disk
<1>15. QED
  BY <1>9, <1>10, <1>12, <1>13, <1>14 DEF Disk

LEMMA InitDoneStep ==
    ASSUME IInv, InitDone, mix' = mix
    PROVE  Typed' /\ Disk' /\ Forward
<1>1. /\ ~up /\ up' = TRUE /\ \A d \in DOMAIN files : files[d].status = d
      /\ UNCHANGED <<files, clock, companions, lockQ, local, calls, crashes>>
  BY DEF InitDone, Mismatched, shared
<1>2. SharedTyped /\ LocalsTyped
  BY TypedParts DEF IInv
<1>3. SharedTyped' /\ Forward
  BY <1>1, <1>2, SameFiles DEF SharedTyped
<1>4. LocalsTyped'
  BY <1>1, <1>2 DEF LocalsTyped, local
<1>5. OnDisk' /\ InDirectory'
  BY <1>1 DEF IInv, Disk, OnDisk, InDirectory, Holds
<1>6. CallsInStep'
  <2>1. \A p \in Procs : ~Busy(p) /\ InStep(p)
    BY <1>1 DEF IInv, Mutex, Down, Disk, CallsInStep
  <2>2. QED
    BY <1>1, <2>1 DEF CallsInStep, InStep, Active, Busy, local
<1>7. OneCompanion'
  BY <1>1 DEF OneCompanion, IInv, Disk
<1>8. QED
  BY <1>3, <1>4, <1>5, <1>6, <1>7, TypedParts DEF Disk

LEMMA StutterStep ==
    ASSUME IInv, UNCHANGED vars
    PROVE  Typed' /\ Disk' /\ Forward
<1>1. /\ UNCHANGED <<files, companions, clock, lockQ, pc, req, scan, found, obj, result>>
      /\ UNCHANGED <<up, calls, crashes, mix>>
  BY DEF vars
<1>2. SharedTyped /\ LocalsTyped
  BY TypedParts DEF IInv
<1>3. SharedTyped' /\ Forward
  BY <1>1, <1>2, SameFiles DEF SharedTyped
<1>4. LocalsTyped'
  BY <1>1, <1>2 DEF LocalsTyped
<1>5. OnDisk' /\ InDirectory'
  BY <1>1 DEF IInv, Disk, OnDisk, InDirectory, Holds
<1>6. CallsInStep'
  <2>1. SUFFICES ASSUME NEW p \in Procs PROVE InStep(p)'
    BY DEF CallsInStep
  <2>2. InStep(p)
    BY DEF IInv, Disk, CallsInStep
  <2>3. QED
    BY <1>1, <2>2 DEF InStep, Active, ReadUpTo, Loaded, Holds
<1>7. OneCompanion'
  BY <1>1 DEF OneCompanion, IInv, Disk, Holds
<1>8. QED
  BY <1>3, <1>4, <1>5, <1>6, <1>7, TypedParts DEF Disk

-----------------------------------------------------------------------------
(* The theorems. *)

(* At the start create() has written the one file and its companion. *)
LEMMA InitIInv == Init => IInv /\ canonical.status \in InitialStatuses
<1> SUFFICES ASSUME Init PROVE IInv /\ canonical.status \in InitialStatuses
  OBVIOUS
<1>1. PICK s \in InitialStatuses \cap Dirs :
          /\ files = [d \in {s} |-> [status |-> s, leased |-> FALSE, rev |-> 0, mtime |-> 1]]
          /\ companions = {s}
  BY DEF Init
<1>2. DOMAIN files = {s} /\ files[s] \in File /\ files[s].status = s /\ files[s].mtime = 1
  BY <1>1, DirsAreStatuses DEF File
<1>3. Copies(files) /\ Holds(s, s)
  BY <1>1, <1>2 DEF Copies, Holds
<1>4. SharedTyped
  BY <1>1, <1>3 DEF SharedTyped, Init
<1>5. LocalsTyped
  <2>1. Copies(NoCopies)
    BY DEF Copies, NoCopies
  <2>2. [op |-> "get", to |-> "ready"] \in [op : Ops, to : Dirs]
    BY DirsAreStatuses DEF Ops
  <2>3. mix \in Mixes /\ mix.calls \in Nat /\ mix.crashes \in Nat
    BY MixesAssumption DEF Init
  <2>4. lockQ \in Seq(Procs) /\ 1 \in 1..(Len(STATUS_DIRS) + 1)
    BY DirsAreStatuses DEF Init
  <2>5. QED
    BY <2>1, <2>2, <2>3, <2>4 DEF LocalsTyped, Init, PCs
<1>6. OnDisk /\ InDirectory
  BY <1>2, <1>3 DEF OnDisk, InDirectory, Init
<1>7. CallsInStep
  BY DEF Init, CallsInStep, InStep, Active
<1>8. OneCompanion
  BY <1>1, <1>3 DEF OneCompanion, Init
<1>9. canonical.status = s
  BY <1>2, <1>3, CanonicalIs
<1>10. QED
  BY <1>4, <1>5, <1>6, <1>7, <1>8, <1>9, TypedParts, InitMutex DEF IInv, Disk

(* A step of a call. *)
LEMMA StepStep ==
    ASSUME IInv, NEW p \in Procs, Step(p), mix' = mix
    PROVE  Typed' /\ Disk' /\ Forward
<1>1. CASE Get(p)
  BY <1>1, ReadDirStep, StatDirStep, SettleStep, HealStep DEF Get
<1>2. CASE Grant(p)
  BY <1>2, GrantStep
<1>3. CASE NotFound(p) \/ Refuse(p) \/ TransitionNoop(p) \/ GetReturns(p)
  BY <1>3, UnwrittenStep
<1>4. CASE WriteNew(p) \/ MoveDir(p) \/ Verify(p) \/ UnlinkOld(p)
  BY <1>4, WriteNewStep, MoveDirStep, VerifyStep, UnlinkOldStep
<1>5. CASE WriteCancelled(p) \/ Rename(p) \/ CancelDir(p)
  BY <1>5, WriteCancelledStep, RenameStep, CancelDirStep
<1>6. CASE Update(p) \/ SaveBack(p) \/ Acquire(p) \/ Block(p) \/ Unblock(p)
  BY <1>6, InPlaceWrites
<1>7. CASE Delete(p) \/ WriteOutput(p)
  BY <1>7, NotRequested
<1>8. QED
  BY <1>1, <1>2, <1>3, <1>4, <1>5, <1>6, <1>7 DEF Step, Body

LEMMA NextIInv ==
    ASSUME \A m \in Mixes : DisciplinedUse(m), IInv, [Next]_vars
    PROVE  IInv' /\ Forward
<1>1. Mutex'
  BY StepMutex DEF IInv
<1>2. Typed' /\ Disk' /\ Forward
  <2>1. CASE \E p \in Procs, r \in mix.requests : Call(p, r) /\ mix' = mix
    BY <2>1, CallStep
  <2>2. CASE \E p \in Procs : Step(p) /\ mix' = mix
    BY <2>2, StepStep
  <2>3. CASE Crash /\ mix' = mix
    BY <2>3, CrashStep
  <2>4. CASE \E d \in Dirs : Reconcile(d) /\ mix' = mix
    BY <2>4, ReconcileStep
  <2>5. CASE InitDone /\ mix' = mix
    BY <2>5, InitDoneStep
  <2>6. CASE UNCHANGED vars
    BY <2>6, StutterStep
  <2>7. QED
    BY <2>1, <2>2, <2>3, <2>4, <2>5, <2>6 DEF Next
<1>3. QED
  BY <1>1, <1>2 DEF IInv

(* Every disciplined use of the store keeps the invariant. *)
THEOREM Invariance ==
    ASSUME \A m \in Mixes : DisciplinedUse(m)
    PROVE  Spec => []IInv
<1>1. Init => IInv
  BY InitIInv
<1>2. IInv /\ [Next]_vars => IInv'
  BY NextIInv
<1>3. QED
  BY <1>1, <1>2, PTL DEF Spec

(* No interleaving of locked calls, and no crash at any await of them, ever *)
(* leaves the task without a file (transitionTask writes before it unlinks, *)
(* cancelTask renames, get() removes only older copies).                    *)
THEOREM TaskNeverLost ==
    ASSUME \A m \in Mixes : DisciplinedUse(m)
    PROVE  Spec => []NeverLost
<1>1. IInv => NeverLost
  BY DEF IInv, Disk, OnDisk, Holds, NeverLost
<1>2. QED
  BY <1>1, Invariance, PTL

(* The store's types are right, there are never more than two copies of the *)
(* task, and with no crash a task at rest has one copy and its companion    *)
(* directory beside it.                                                     *)
THEOREM TaskInOnePlace ==
    ASSUME \A m \in Mixes : DisciplinedUse(m)
    PROVE  Spec => []InOnePlace
<1>1. IInv => InOnePlace
  <2> SUFFICES ASSUME IInv PROVE InOnePlace
    OBVIOUS
  <2>1. PICK a \in Dirs, b \in Dirs : DOMAIN files = {a, b}
    BY DEF IInv, Disk, OnDisk, Holds
  <2>2. Cardinality({a, b}) <= 2
    <3>1. CASE a = b
      <4>1. {a, b} = {a} /\ Cardinality({a}) = 1
        BY <3>1, FS_Singleton
      <4>2. QED
        BY <4>1
    <3>2. CASE a # b
      <4>1. IsFiniteSet({a}) /\ Cardinality({a}) = 1
        BY FS_Singleton
      <4>2. {a} \cup {b} = {a, b} /\ b \notin {a}
        BY <3>2
      <4>3. Cardinality({a, b}) = 2
        BY <4>1, <4>2, FS_AddElement
      <4>4. QED
        BY <4>3
    <3>3. QED
      BY <3>1, <3>2
  <2>3. ASSUME lockQ = <<>>, crashes = 0
        PROVE  \E d \in Dirs : DOMAIN files = {d} /\ companions = {d}
    <3>1. \A p \in Procs : pc[p] \notin Moving
      <4>1. SUFFICES ASSUME NEW p \in Procs, pc[p] \in Moving PROVE FALSE
        OBVIOUS
      <4>2. Active(p) /\ req[p].op \in Locked
        BY <4>1, MidTransition, MidCancel DEF Moving, Locked
      <4>3. QED
        BY <2>3, <4>2 DEF IInv, Mutex, Queue
    <3>2. PICK d \in Dirs : Holds(d, d) /\ companions = {d}
      BY <2>3, <3>1 DEF IInv, Disk, OneCompanion
    <3>3. QED
      BY <3>2 DEF Holds
  <2>4. SingleCopy
    BY <2>1, <2>2, <2>3, FS_Singleton DEF SingleCopy
  <2>5. CompanionFollows
    BY <2>3 DEF CompanionFollows
  <2>6. QED
    BY <2>4, <2>5 DEF InOnePlace, IInv, Typed
<1>2. QED
  BY <1>1, Invariance, PTL

(* An edit made by one call is never undone by another (the mutex of        *)
(* update, updateBody, addDep), and a done or cancelled task stays so.      *)
THEOREM NothingIsUndone ==
    ASSUME \A m \in Mixes : DisciplinedUse(m)
    PROVE  Spec => NothingUndone
<1>1. IInv /\ [Next]_vars => [canonical'.rev >= canonical.rev]_vars
  BY NextIInv DEF Forward
<1>2. IInv /\ [Next]_vars => [(DOMAIN files # {} /\ canonical.status \in Closed /\ DOMAIN files' # {})
                                => canonical'.status = canonical.status]_vars
  <2> SUFFICES ASSUME IInv, [Next]_vars, canonical.status \in Closed
               PROVE  canonical'.status = canonical.status
    OBVIOUS
  <2>1. Forward
    BY NextIInv
  <2>2. VALID_TRANSITIONS[canonical.status] = {}
    BY DEF Closed, VALID_TRANSITIONS, Statuses
  <2>3. QED
    BY <2>1, <2>2 DEF Forward, isValidTransition
<1>3. QED
  BY <1>1, <1>2, Invariance, PTL DEF Spec, NothingUndone, EditsKept, ClosedIsFinal

(* The store, file write by file write and with crashes, implements the     *)
(* task lifecycle its callers are promised (VALID_TRANSITIONS, cancelTask). *)
THEOREM LifecycleImplemented ==
    ASSUME \A m \in Mixes : DisciplinedUse(m)
    PROVE  Spec => ImplementsLifecycle
<1>0. /\ LC!InitialStatuses = InitialStatuses /\ LC!Closed = Closed /\ LC!Statuses = Statuses
      /\ \A s, to \in Statuses : LC!isValidTransition(s, to) <=> isValidTransition(s, to)
  BY DEF LC!InitialStatuses, InitialStatuses, LC!Closed, Closed, LC!Statuses, Statuses,
     LC!isValidTransition, isValidTransition, LC!VALID_TRANSITIONS, VALID_TRANSITIONS
<1>1. Init => LC!Init
  BY <1>0, InitIInv DEF LC!Init
<1>2. IInv /\ [Next]_vars => [LC!Next]_(canonical.status)
  <2> SUFFICES ASSUME IInv, [Next]_vars PROVE [LC!Next]_(canonical.status)
    OBVIOUS
  <2>1. Forward
    BY NextIInv
  <2>2. canonical.status \in Statuses
    <3>1. PICK a \in Dirs, b \in Dirs : Holds(a, b)
      BY DEF IInv, Disk, OnDisk
    <3>2. Copies(files) /\ canonical = files[a] /\ a \in DOMAIN files
      BY <3>1, CanonicalIs, TypedParts DEF IInv, SharedTyped, Holds
    <3>3. QED
      BY <3>2 DEF Copies, File
  <2>3. QED
    BY <1>0, <2>1, <2>2 DEF Forward, LC!Next, LC!Cancel, LC!Transition
<1>3. QED
  BY <1>1, <1>2, Invariance, PTL DEF Spec, ImplementsLifecycle, LC!Spec

=============================================================================
