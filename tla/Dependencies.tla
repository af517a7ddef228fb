---------------------------- MODULE Dependencies ----------------------------
(* The dependency graph between tasks: addDep() and removeDep() of the      *)
(* store, which hold the mutex of the task they change while they walk the  *)
(* other tasks' files one await at a time; and the poll's scan of it for    *)
(* circular dependencies.                                                   *)
EXTENDS Naturals, Sequences, SequencesExt, FiniteSets

CONSTANTS
    Tasks,
    Callers,     \* concurrent users of the store
    Overlaps,    \* how many calls may overlap: one choice per behaviour
    MaxCalls     \* bound: calls that get past the argument checks

ASSUME BoundsAreNumbers == MaxCalls \in Nat /\ Overlaps \subseteq Nat

VARIABLES
    dependsOn,   \* frontmatter.dependsOn of every task file
    closed,      \* the tasks in a terminal status
    call,        \* call[c]: the call of caller c, Returned between calls
    calls,       \* the calls made so far
    overlap      \* the choice from Overlaps

vars == <<dependsOn, closed, call, calls, overlap>>

Returned == [op |-> "none"]

(* A call in progress: the task it changes and the dependsOn array it read, *)
(* the blocker, and hasCycle()'s search: the ids its recursion has still to *)
(* enter, in order, and the ones it has visited.                            *)
InProgress == [op : {"add", "remove"}, task : Tasks, blocker : Tasks, own : Seq(Tasks),
               todo : Seq(Tasks), visited : SUBSET Tasks]

Init ==
    /\ dependsOn = [t \in Tasks |-> <<>>]
    /\ closed = {}
    /\ call = [c \in Callers |-> Returned]
    /\ calls = 0
    /\ overlap \in Overlaps

-----------------------------------------------------------------------------
Running == {c \in Callers : call[c] # Returned}

(* Mutation of MutexFree: dependency changes do not take the mutex. *)
MutexFreeAlways(t) == TRUE

(* The store's mutex of t is free. *)
MutexFree(t) == \A c \in Running : call[c].task # t

(* addDependency() and removeDependency() up to the first await that        *)
(* matters: the task is read.  A closed task, a self-dependency, an edge    *)
(* that is there already (or not there, for a removal) end the call without *)
(* effect.                                                                  *)
Begin(c, op, t, b) ==
    /\ call[c] = Returned
    /\ calls < MaxCalls /\ Cardinality(Running) < overlap
    /\ MutexFree(t)
    /\ t \notin closed
    /\ IF op = "add" THEN t # b /\ b \notin Range(dependsOn[t]) ELSE b \in Range(dependsOn[t])
    /\ call' = [call EXCEPT ![c] =
                   [op |-> op, task |-> t, blocker |-> b, own |-> dependsOn[t],
                    todo |-> IF op = "add" THEN <<b>> ELSE <<>>, visited |-> {}]]
    /\ calls' = calls + 1
    /\ UNCHANGED <<dependsOn, closed, overlap>>

(* Mutation of Searched: the dependencies of a dependency are not entered.  *)
SearchedShallow(k) ==
    LET id == Head(k.todo)
    IN IF id = k.task THEN Returned
       ELSE [k EXCEPT !.todo = Tail(k.todo), !.visited = k.visited \cup {id}]

(* hasCycle(): the call k after one more entry of its depth-first search.   *)
(* Reaching the task that gets the dependency ends the call with an error;  *)
(* a new id is read and its dependencies searched before the rest.          *)
Searched(k) ==
    LET id == Head(k.todo)
    IN IF id = k.task THEN Returned
       ELSE IF id \in k.visited THEN [k EXCEPT !.todo = Tail(k.todo)]
       ELSE [k EXCEPT !.todo = dependsOn[id] \o Tail(k.todo), !.visited = k.visited \cup {id}]

Walk(c) ==
    /\ call[c] # Returned /\ call[c].todo # <<>>
    /\ call' = [call EXCEPT ![c] = Searched(call[c])]
    /\ UNCHANGED <<dependsOn, closed, calls, overlap>>

indexOf(s, e) == CHOOSE i \in DOMAIN s : s[i] = e /\ \A j \in 1..(i - 1) : s[j] # e

(* The task is written back with the blocker pushed or spliced out. *)
Write(c) ==
    /\ call[c] # Returned /\ call[c].todo = <<>>
    /\ dependsOn' = [dependsOn EXCEPT ![call[c].task] =
                        IF call[c].op = "add" THEN Append(call[c].own, call[c].blocker)
                        ELSE RemoveAt(call[c].own, indexOf(call[c].own, call[c].blocker))]
    /\ call' = [call EXCEPT ![c] = Returned]
    /\ UNCHANGED <<closed, calls, overlap>>

(* A transition to done or cancelled, under the same mutex. *)
Close(t) ==
    /\ t \notin closed
    /\ MutexFree(t)
    /\ closed' = closed \cup {t}
    /\ UNCHANGED <<dependsOn, call, calls, overlap>>

Next ==
    \/ \E c \in Callers : \/ \E op \in {"add", "remove"}, t, b \in Tasks : Begin(c, op, t, b)
                          \/ Walk(c) \/ Write(c)
    \/ \E t \in Tasks : Close(t)

(* A call in progress goes on: the event loop resumes it after each await. *)
Spec == Init /\ [][Next]_vars /\ \A c \in Callers : WF_vars(Walk(c) \/ Write(c))

-----------------------------------------------------------------------------
(* The scan for circular dependencies that every poll makes. *)

(* The tasks explored so far and those marked. *)
Marks == [visited : SUBSET Tasks, circular : SUBSET Tasks]

(* The members of the stack from id on. *)
From(stack, id) == {stack[i] : i \in {j \in DOMAIN stack : \E k \in 1..j : stack[k] = id}}

(* Mutation of detectCircularDeps: the visited test comes first. *)
detectCircularDepsVisitedFirst(start, marks) ==
    LET search[id \in Tasks, stack \in Seq(Tasks), found \in Marks] ==
          IF id \in found.visited THEN found
          ELSE IF id \in Range(stack)
          THEN [found EXCEPT !.circular = @ \cup From(stack, id)]
          ELSE FoldLeft(LAMBDA acc, d : search[d, Append(stack, id), acc],
                        [found EXCEPT !.visited = @ \cup {id}], dependsOn[id])
    IN  search[start, <<>>, marks]

(* detectCircularDeps(): an id on the stack closes a cycle, whose members   *)
(* are the stack from that id on; an id explored before is skipped;         *)
(* otherwise its dependencies are searched with it on the stack.            *)
detectCircularDeps(start, marks) ==
    LET search[id \in Tasks, stack \in Seq(Tasks), found \in Marks] ==
          IF id \in Range(stack)
          THEN [found EXCEPT !.circular = @ \cup From(stack, id)]
          ELSE IF id \in found.visited THEN found
          ELSE FoldLeft(LAMBDA acc, d : search[d, Append(stack, id), acc],
                        [found EXCEPT !.visited = @ \cup {id}], dependsOn[id])
    IN  search[start, <<>>, marks]

(* poll(): the search from every task of the listing that no earlier one    *)
(* has reached.                                                             *)
circularDeps(listing) ==
    FoldLeft(LAMBDA acc, t : IF t \in acc.visited THEN acc ELSE detectCircularDeps(t, acc),
             [visited |-> {}, circular |-> {}], listing).circular

-----------------------------------------------------------------------------
TypeOK ==
    /\ dependsOn \in [Tasks -> Seq(Tasks)]
    /\ closed \subseteq Tasks
    /\ call \in [Callers -> InProgress \cup {Returned}]
    /\ calls \in 0..MaxCalls
    /\ overlap \in Overlaps

(* u is among the tasks that t depends on, directly or not, or is t: it is  *)
(* in every set that holds t and whatever its members depend on.  This is   *)
(* the reference the searches are compared with.                            *)
ClosedUnderDeps(V) == \A t \in V : Range(dependsOn[t]) \subseteq V
Reaches(t, u) == \A V \in SUBSET Tasks : t \in V /\ ClosedUnderDeps(V) => u \in V

OnCycle(t) == \E d \in Range(dependsOn[t]) : Reaches(d, t)

(* When calls do not overlap, addDep() never closes a cycle, whatever was   *)
(* removed and closed before: hasCycle() finds every path back.             *)
SoloAcyclic == overlap <= 1 => \A t \in Tasks : ~OnCycle(t)

(* Calls that come one at a time never make tasks wait for each other       *)
(* (addDependency, hasCycle).                                               *)
NoCycleAlone == TypeOK /\ SoloAcyclic

(* A call changes nothing but its own edge: the mutex keeps two changes of  *)
(* one task from overwriting each other.                                    *)
OneEdgePerWrite ==
    [][\A t \in Tasks :
          LET old == Range(dependsOn[t])
              new == Range(dependsOn'[t])
          IN /\ Cardinality((old \ new) \cup (new \ old)) <= 1
             /\ Len(dependsOn'[t]) = Cardinality(new)]_vars

(* The dependencies of a closed task are never changed, although the status *)
(* is checked long before the write.                                        *)
ClosedKeepsDeps ==
    [][\A t \in closed : dependsOn'[t] = dependsOn[t]]_vars

(* What is written was not read too early: of overlapping changes to one    *)
(* task none is lost, and none comes after the task was closed              *)
(* (addDependency, removeDependency under the mutex).                       *)
WritesKept == OneEdgePerWrite /\ ClosedKeepsDeps

(* Two overlapping calls can each miss the other's edge and close a cycle.  *)
(* The scan of the next poll then marks a member of every cycle, and no     *)
(* task that is not on one, although it explores each task only once and    *)
(* store.list() returns the tasks in any order.                             *)
CyclesNoticed ==
    \A listing \in SetToSeqs(Tasks) :
      LET marked == circularDeps(listing)
      IN  /\ \A t \in marked : OnCycle(t)
          /\ \A t \in Tasks : OnCycle(t) => \E u \in marked : Reaches(t, u) /\ Reaches(u, t)

(* A call in progress returns, also when its search runs into a cycle or    *)
(* the graph changes under it.                                              *)
SearchesEnd == \A c \in Callers : call[c] # Returned => <>(call[c] = Returned)

(* No cycle stops the searches or passes unseen: the one of a call ends, the *)
(* one of a poll finds what overlapping calls have closed (hasCycle,         *)
(* detectCircularDeps).                                                      *)
CyclesSeen == [](CyclesNoticed /\ SearchesEnd)
=============================================================================
