------------------------- MODULE DependenciesProofs -------------------------
(* The dependency graph for any tasks, callers and number of calls, and, at *)
(* the end, the mutexes it is written under.                                *)
(*                                                                          *)
(* With overlap, the mutex of the changed task makes the array that a call  *)
(* writes back the file's array plus or minus its own edge                  *)
(* (ReadsStayCurrent, NoEdgeTwice).  Without overlap the graph stands still *)
(* during a search.  What the search has visited depends only on what it    *)
(* has visited or is still to enter (Covered), so at its end the visited    *)
(* tasks are a set that holds the blocker, lacks the task and is left by no *)
(* edge: the new edge leads into it and none leads back.  That no task is   *)
(* on a cycle is kept in this form, a set for each task (Apart).            *)
EXTENDS Dependencies, TaskLocks, FiniteSetTheorems, SequenceTheorems, TLAPS

(* No task is listed twice. *)
Distinct(q) == \A i, j \in DOMAIN q : q[i] = q[j] => i = j
NoEdgeTwice == \A t \in Tasks : Distinct(dependsOn[t])

(* One caller per task. *)
OneCallPerTask == \A c, d \in Running : call[c].task = call[d].task => c = d

(* Between its first read and its write, the task stays open and its file   *)
(* as the call has read it.                                                 *)
ReadsStayCurrent ==
    \A c \in Callers : call[c] # Returned =>
        /\ call[c].task \notin closed
        /\ call[c].own = dependsOn[call[c].task]

(* What a call was let in for is still to be done. *)
StillDue ==
    \A c \in Running :
        /\ call[c].op = "add" => call[c].blocker \notin Range(call[c].own)
        /\ call[c].op = "remove" => call[c].blocker \in Range(call[c].own) /\ call[c].todo = <<>>

(* The search of a call: what it has seen so far. *)
Covered(k) ==
    k.op = "add" =>
        /\ k.task \notin k.visited
        /\ k.blocker \in k.visited \cup Range(k.todo)
        /\ \A v \in k.visited : Range(dependsOn[v]) \subseteq k.visited \cup Range(k.todo)

(* What t depends on lies in a set without t that no edge leaves. *)
Apart(t) ==
    \E V \in SUBSET Tasks : ClosedUnderDeps(V) /\ Range(dependsOn[t]) \subseteq V /\ t \notin V

Alone ==
    /\ \A c, d \in Running : c = d
    /\ \A c \in Running : Covered(call[c])
    /\ \A t \in Tasks : Apart(t)

IInv ==
    /\ TypeOK /\ IsFiniteSet(Running) /\ NoEdgeTwice
    /\ OneCallPerTask /\ ReadsStayCurrent /\ StillDue
    /\ overlap <= 1 => Alone

-----------------------------------------------------------------------------
(* The arrays. *)

(* A sequence without repetitions has as many elements as places. *)
LEMMA SizeIsLength ==
    ASSUME NEW q \in Seq(Tasks), Distinct(q)
    PROVE  IsFiniteSet(Range(q)) /\ Cardinality(Range(q)) = Len(q)
<1> DEFINE D == 1..Len(q)
<1>1. Len(q) \in Nat /\ DOMAIN q = D /\ q \in [D -> Tasks]
    BY LenProperties
<1>2. IsFiniteSet(D) /\ Cardinality(D) = Len(q)
    BY <1>1, FS_Interval
<1>3. q \in Bijection(D, Range(q))
    BY <1>1 DEF Bijection, Injection, Surjection, IsInjective, Range, Distinct
<1>4. ExistsBijection(D, Range(q))
    BY <1>3 DEF ExistsBijection
<1> HIDE DEF D
<1> QED
    BY <1>2, <1>4, FS_Bijection

(* The blocker pushed. *)
LEMMA Pushed ==
    ASSUME NEW q \in Seq(Tasks), Distinct(q), NEW b \in Tasks, b \notin Range(q)
    PROVE  /\ Append(q, b) \in Seq(Tasks) /\ Distinct(Append(q, b))
           /\ Range(Append(q, b)) = Range(q) \cup {b}
<1> DEFINE r == Append(q, b)
<1>1. /\ r \in Seq(Tasks) /\ Len(r) = Len(q) + 1 /\ r[Len(q) + 1] = b
      /\ \A i \in 1..Len(q) : r[i] = q[i]
    BY AppendProperties
<1>2. DOMAIN q = 1..Len(q) /\ DOMAIN r = 1..(Len(q) + 1) /\ Len(q) \in Nat
    BY <1>1, LenProperties
<1> HIDE DEF r
<1>3. \A i \in DOMAIN q : q[i] # b
    BY DEF Range
<1>4. Distinct(r)
    BY <1>1, <1>2, <1>3 DEF Distinct
<1>5. Range(r) = Range(q) \cup {b}
    BY <1>1, <1>2 DEF Range
<1> QED
    BY <1>1, <1>4, <1>5 DEF r

(* The blocker spliced out at its place. *)
LEMMA Spliced ==
    ASSUME NEW q \in Seq(Tasks), Distinct(q), NEW b \in Range(q)
    PROVE  /\ RemoveAt(q, indexOf(q, b)) \in Seq(Tasks) /\ Distinct(RemoveAt(q, indexOf(q, b)))
           /\ Range(RemoveAt(q, indexOf(q, b))) = Range(q) \ {b}
<1> DEFINE n == Len(q)
           i == indexOf(q, b)
           l == SubSeq(q, 1, i - 1)
           r == SubSeq(q, i + 1, n)
           s == l \o r
<1>1. n \in Nat /\ DOMAIN q = 1..n /\ \A j \in 1..n : q[j] \in Tasks
    BY LenProperties
<1>2. i \in 1..n /\ q[i] = b
  <2>1. PICK k \in DOMAIN q : q[k] = b
      BY DEF Range
  <2>2. \A j \in 1..(k - 1) : q[j] # b
      BY <1>1, <2>1 DEF Distinct
  <2> QED
      BY <1>1, <2>1, <2>2 DEF indexOf
<1> HIDE DEF i, n
<1>3. l \in Seq(Tasks) /\ Len(l) = i - 1 /\ \A j \in 1..(i - 1) : l[j] = q[j]
  <2>1. \A j \in 1..(i - 1) : q[j] \in Tasks
      BY <1>1, <1>2
  <2>2. /\ l \in Seq(Tasks) /\ Len(l) = IF 1 <= i - 1 THEN i - 1 - 1 + 1 ELSE 0
        /\ \A j \in 1 .. (i - 1 - 1 + 1) : l[j] = q[1 + j - 1]
      BY <1>1, <1>2, <2>1, SubSeqProperties
  <2> HIDE DEF l
  <2> QED
      BY <1>1, <1>2, <2>2
<1>4. r \in Seq(Tasks) /\ Len(r) = n - i /\ \A j \in 1..(n - i) : r[j] = q[i + j]
  <2>1. \A j \in (i + 1)..n : q[j] \in Tasks
      BY <1>1, <1>2
  <2>2. /\ r \in Seq(Tasks) /\ Len(r) = IF i + 1 <= n THEN n - (i + 1) + 1 ELSE 0
        /\ \A j \in 1 .. (n - (i + 1) + 1) : r[j] = q[i + 1 + j - 1]
      BY <1>1, <1>2, <2>1, SubSeqProperties
  <2> HIDE DEF r
  <2>3. \A j \in 1..(n - i) : i + 1 + j - 1 = i + j
      BY <1>1, <1>2
  <2> QED
      BY <1>1, <1>2, <2>2, <2>3
<1> HIDE DEF l, r
<1>5. /\ s \in Seq(Tasks) /\ Len(s) = n - 1
      /\ \A j \in 1..(n - 1) : s[j] = IF j <= i - 1 THEN l[j] ELSE r[j - (i - 1)]
  <2>1. /\ s \in Seq(Tasks) /\ Len(s) = Len(l) + Len(r)
        /\ \A j \in 1 .. Len(l) + Len(r) : s[j] = IF j <= Len(l) THEN l[j] ELSE r[j - Len(l)]
      BY <1>3, <1>4, ConcatProperties
  <2>2. Len(l) + Len(r) = n - 1
      BY <1>1, <1>2, <1>3, <1>4
  <2> HIDE DEF s
  <2> QED
      BY <1>3, <2>1, <2>2
<1> HIDE DEF s
<1>6. \A j \in 1..(n - 1) : s[j] = IF j < i THEN q[j] ELSE q[j + 1]
  <2> SUFFICES ASSUME NEW j \in 1..(n - 1) PROVE s[j] = IF j < i THEN q[j] ELSE q[j + 1]
      OBVIOUS
  <2>1. CASE j < i
      BY <1>1, <1>2, <1>3, <1>5, <2>1
  <2>2. CASE ~(j < i)
    <3>1. j - (i - 1) \in 1..(n - i) /\ i + (j - (i - 1)) = j + 1 /\ ~(j <= i - 1)
        BY <1>1, <1>2, <2>2
    <3> QED
        BY <1>4, <1>5, <2>2, <3>1
  <2> QED
      BY <2>1, <2>2
<1>7. DOMAIN s = 1..(n - 1)
    BY <1>1, <1>2, <1>5, LenProperties
<1>8. Distinct(s)
  <2> SUFFICES ASSUME NEW j \in 1..(n - 1), NEW k \in 1..(n - 1), s[j] = s[k] PROVE j = k
      BY <1>7 DEF Distinct
  <2> DEFINE at(x) == IF x < i THEN x ELSE x + 1
  <2>1. at(j) \in 1..n /\ at(k) \in 1..n
      BY <1>1, <1>2
  <2>2. q[at(j)] = q[at(k)]
      BY <1>6
  <2>3. at(j) = at(k)
      BY <1>1, <2>1, <2>2 DEF Distinct
  <2> QED
      BY <1>1, <1>2, <2>3
<1>9. Range(s) = Range(q) \ {b}
  <2>1. ASSUME NEW j \in 1..(n - 1) PROVE s[j] \in Range(q) /\ s[j] # b
      BY <1>1, <1>2, <1>6 DEF Range, Distinct
  <2>2. ASSUME NEW j \in 1..n, q[j] # b PROVE \E k \in 1..(n - 1) : s[k] = q[j]
    <3>1. CASE j < i
        BY <1>1, <1>2, <1>6, <3>1
    <3>2. CASE j > i
      <4>1. j - 1 \in 1..(n - 1) /\ ~(j - 1 < i) /\ (j - 1) + 1 = j
          BY <1>1, <1>2, <3>2
      <4> QED
          BY <1>6, <4>1
    <3> QED
        BY <1>1, <1>2, <2>2, <3>1, <3>2
  <2>3. \A x \in Range(s) : x \in Range(q) \ {b}
      BY <1>7, <2>1 DEF Range
  <2>4. \A x \in Range(q) \ {b} : x \in Range(s)
      BY <1>1, <1>7, <2>2 DEF Range
  <2> QED
      BY <2>3, <2>4
<1>10. s = RemoveAt(q, i)
    BY DEF s, l, r, n, RemoveAt
<1> QED
    BY <1>5, <1>8, <1>9, <1>10 DEF i

(* The ids still to be entered, when one of them has been. *)
LEMMA Taken ==
    ASSUME NEW q \in Seq(Tasks), q # <<>>
    PROVE  /\ Head(q) \in Tasks /\ Tail(q) \in Seq(Tasks)
           /\ Range(q) = {Head(q)} \cup Range(Tail(q))
<1>1. /\ Head(q) \in Tasks /\ Tail(q) \in Seq(Tasks) /\ Len(Tail(q)) = Len(q) - 1
      /\ \A i \in 1..Len(Tail(q)) : Tail(q)[i] = q[i + 1]
    BY HeadTailProperties
<1>2. /\ Len(q) \in Nat /\ DOMAIN q = 1..Len(q) /\ DOMAIN Tail(q) = 1..(Len(q) - 1)
      /\ Len(q) # 0 /\ Head(q) = q[1]
    BY <1>1, LenProperties, EmptySeq
<1>3. ASSUME NEW i \in DOMAIN q PROVE q[i] = Head(q) \/ q[i] \in Range(Tail(q))
  <2>1. CASE i = 1
      BY <1>2, <2>1
  <2>2. CASE i # 1
    <3>1. i - 1 \in 1..(Len(q) - 1) /\ (i - 1) + 1 = i
        BY <1>2, <2>2
    <3>2. Tail(q)[i - 1] = q[i]
        BY <1>1, <3>1
    <3> QED
        BY <1>2, <3>1, <3>2 DEF Range
  <2> QED
      BY <2>1, <2>2
<1>4. ASSUME NEW i \in DOMAIN Tail(q) PROVE Tail(q)[i] \in Range(q)
    BY <1>1, <1>2 DEF Range
<1> QED
    BY <1>1, <1>2, <1>3, <1>4 DEF Range

LEMMA Joint ==
    ASSUME NEW q \in Seq(Tasks), NEW r \in Seq(Tasks)
    PROVE  q \o r \in Seq(Tasks) /\ Range(q \o r) = Range(q) \cup Range(r)
<1> DEFINE s == q \o r
<1>1. /\ s \in Seq(Tasks) /\ Len(s) = Len(q) + Len(r)
      /\ \A i \in 1 .. Len(q) + Len(r) : s[i] = IF i <= Len(q) THEN q[i] ELSE r[i - Len(q)]
    BY ConcatProperties
<1>2. /\ Len(q) \in Nat /\ Len(r) \in Nat
      /\ DOMAIN q = 1..Len(q) /\ DOMAIN r = 1..Len(r) /\ DOMAIN s = 1..(Len(q) + Len(r))
    BY <1>1, LenProperties
<1> HIDE DEF s
<1>3. \A i \in 1..Len(q) : s[i] = q[i] /\ i \in DOMAIN s
    BY <1>1, <1>2
<1>4. ASSUME NEW i \in 1..Len(r) PROVE s[i + Len(q)] = r[i] /\ i + Len(q) \in DOMAIN s
    BY <1>1, <1>2
<1>5. ASSUME NEW i \in DOMAIN s PROVE s[i] \in Range(q) \cup Range(r)
  <2>1. CASE i <= Len(q)
      BY <1>2, <1>3, <2>1 DEF Range
  <2>2. CASE ~(i <= Len(q))
    <3>1. i - Len(q) \in 1..Len(r) /\ i \in 1..(Len(q) + Len(r))
        BY <1>2, <2>2
    <3> QED
        BY <1>1, <1>2, <2>2, <3>1 DEF Range
  <2> QED
      BY <2>1, <2>2
<1>6. Range(s) \subseteq Range(q) \cup Range(r)
    BY <1>5 DEF Range
<1>7. Range(q) \subseteq Range(s) /\ Range(r) \subseteq Range(s)
    BY <1>2, <1>3, <1>4 DEF Range
<1> QED
    BY <1>1, <1>6, <1>7 DEF s

-----------------------------------------------------------------------------
(* The graph. *)

(* A task that is apart from what it depends on is on no cycle. *)
LEMMA ApartNotOnCycle ==
    ASSUME NEW t \in Tasks, Apart(t) PROVE ~OnCycle(t)
BY DEF Apart, OnCycle, Reaches

(* An edge into a set that the search has covered keeps every task apart:   *)
(* what a task outside the set depends on is joined with the set, what one  *)
(* inside depends on is in it.                                              *)
LEMMA EdgeKeepsApart ==
    ASSUME TypeOK, NEW a \in Tasks, NEW b \in Tasks, NEW W \in SUBSET Tasks,
           ClosedUnderDeps(W), b \in W, a \notin W, dependsOn'[a] \in Seq(Tasks),
           Range(dependsOn'[a]) = Range(dependsOn[a]) \cup {b},
           \A t \in Tasks : t # a => dependsOn'[t] = dependsOn[t],
           NEW t \in Tasks, Apart(t)
    PROVE  Apart(t)'
<1>1. PICK V \in SUBSET Tasks : ClosedUnderDeps(V) /\ Range(dependsOn[t]) \subseteq V /\ t \notin V
    BY DEF Apart
<1>2. CASE t \in W
  <2>1. (V \cap W) \in SUBSET Tasks /\ t \notin V \cap W
      BY <1>1
  <2>2. ClosedUnderDeps(V \cap W)'
      BY <1>1 DEF ClosedUnderDeps
  <2>3. t # a /\ Range(dependsOn'[t]) \subseteq V \cap W
      BY <1>1, <1>2 DEF ClosedUnderDeps
  <2> QED
      BY <2>1, <2>2, <2>3 DEF Apart
<1>3. CASE t \notin W
  <2>1. (V \cup W) \in SUBSET Tasks /\ t \notin V \cup W
      BY <1>1, <1>3
  <2>2. ClosedUnderDeps(V \cup W)'
      BY <1>1 DEF ClosedUnderDeps
  <2>3. Range(dependsOn'[t]) \subseteq V \cup W
      BY <1>1
  <2> QED
      BY <2>1, <2>2, <2>3 DEF Apart
<1> QED
    BY <1>2, <1>3

(* Nothing comes on a cycle by an edge less. *)
LEMMA FewerKeepApart ==
    ASSUME \A u \in Tasks : Range(dependsOn'[u]) \subseteq Range(dependsOn[u]),
           NEW t \in Tasks, Apart(t)
    PROVE  Apart(t)'
<1>1. PICK V \in SUBSET Tasks : ClosedUnderDeps(V) /\ Range(dependsOn[t]) \subseteq V /\ t \notin V
    BY DEF Apart
<1>2. ClosedUnderDeps(V)'
    BY <1>1 DEF ClosedUnderDeps
<1> QED
    BY <1>1, <1>2 DEF Apart

-----------------------------------------------------------------------------
(* The steps. *)

(* No call is in progress at the start, and there is no edge. *)
LEMMA InitIInv == Init => IInv
<1> SUFFICES ASSUME Init PROVE IInv
    OBVIOUS
<1>1. dependsOn = [t \in Tasks |-> <<>>] /\ Running = {} /\ <<>> \in Seq(Tasks)
    BY DEF Init, Running
<1>2. \A t \in Tasks : Range(dependsOn[t]) = {} /\ DOMAIN dependsOn[t] = {}
    BY <1>1 DEF Range
<1>3. TypeOK
    BY <1>1, BoundsAreNumbers DEF Init, TypeOK
<1>4. IsFiniteSet(Running)
    BY <1>1, FS_EmptySet
<1>5. NoEdgeTwice
    BY <1>2 DEF NoEdgeTwice, Distinct
<1>6. OneCallPerTask /\ StillDue /\ ReadsStayCurrent
    BY <1>1 DEF OneCallPerTask, StillDue, ReadsStayCurrent, Running
<1>7. Alone
  <2>1. ASSUME NEW t \in Tasks PROVE Apart(t)
    <3>1. {} \in SUBSET Tasks /\ ClosedUnderDeps({}) /\ Range(dependsOn[t]) \subseteq {} /\ t \notin {}
        BY <1>2 DEF ClosedUnderDeps
    <3> QED
        BY <3>1 DEF Apart
  <2> QED
      BY <1>1, <2>1 DEF Alone
<1> QED
    BY <1>3, <1>4, <1>5, <1>6, <1>7 DEF IInv

(* A call begins on a task that no other call is about; where calls do not  *)
(* overlap, it is the only one.                                             *)
LEMMA BeginIInv ==
    ASSUME IInv, NEW c \in Callers, NEW op \in {"add", "remove"}, NEW t \in Tasks, NEW b \in Tasks,
           Begin(c, op, t, b)
    PROVE  IInv'
<1> DEFINE new == [op |-> op, task |-> t, blocker |-> b, own |-> dependsOn[t],
                   todo |-> IF op = "add" THEN <<b>> ELSE <<>>, visited |-> {}]
<1>1. /\ call' = [call EXCEPT ![c] = new] /\ call[c] = Returned
      /\ UNCHANGED <<dependsOn, closed, overlap>> /\ calls' = calls + 1 /\ calls < MaxCalls
      /\ t \notin closed /\ Cardinality(Running) < overlap
      /\ \A d \in Running : call[d].task # t
      /\ op = "add" => b \notin Range(dependsOn[t]) /\ t # b
      /\ op = "remove" => b \in Range(dependsOn[t])
    BY DEF Begin, MutexFree
<1>2. TypeOK /\ overlap \in Nat
    BY BoundsAreNumbers DEF IInv, TypeOK
<1>3. /\ new \in InProgress /\ new # Returned
      /\ new.op = op /\ new.task = t /\ new.blocker = b /\ new.own = dependsOn[t] /\ new.visited = {}
      /\ new.todo = IF op = "add" THEN <<b>> ELSE <<>>
  <2>1. dependsOn[t] \in Seq(Tasks) /\ <<b>> \in Seq(Tasks) /\ <<>> \in Seq(Tasks)
      BY <1>2 DEF TypeOK
  <2>2. new \in InProgress
      BY <2>1 DEF InProgress
  <2>3. new.op # Returned.op
      BY DEF Returned
  <2> QED
      BY <2>2, <2>3
<1> HIDE DEF new
<1>4. /\ \A d \in Callers : call'[d] = IF d = c THEN new ELSE call[d]
      /\ Running' = Running \cup {c} /\ c \notin Running
    BY <1>1, <1>2, <1>3 DEF TypeOK, Running
<1>5. TypeOK'
    BY <1>1, <1>2, <1>3, BoundsAreNumbers DEF TypeOK
<1>6. IsFiniteSet(Running')
    BY <1>4, FS_AddElement DEF IInv
<1>7. NoEdgeTwice'
    BY <1>1 DEF IInv, NoEdgeTwice
<1>8. OneCallPerTask'
    BY <1>1, <1>3, <1>4 DEF IInv, OneCallPerTask, Running
<1>9. ReadsStayCurrent'
    BY <1>1, <1>3, <1>4 DEF IInv, ReadsStayCurrent
<1>10. StillDue'
    BY <1>1, <1>3, <1>4 DEF IInv, StillDue, Running
<1>11. ASSUME overlap <= 1 PROVE Alone'
  <2>1. Running = {}
    <3>1. IsFiniteSet(Running) /\ Cardinality(Running) \in Nat
        BY FS_CardinalityType DEF IInv
    <3>2. Cardinality(Running) = 0
        BY <1>1, <1>2, <1>11, <3>1
    <3> QED
        BY <3>1, <3>2, FS_EmptySet
  <2>2. Running' = {c} /\ call'[c] = new
      BY <1>4, <2>1
  <2>3. Covered(call[c])'
    <3>1. op = "add" => b \in Range(new.todo)
        BY <1>3 DEF Range
    <3> QED
        BY <1>3, <2>2, <3>1 DEF Covered
  <2>4. \A u \in Tasks : Apart(u)'
      BY <1>1, <1>11 DEF IInv, Alone, Apart, ClosedUnderDeps
  <2> QED
      BY <2>2, <2>3, <2>4 DEF Alone
<1> QED
    BY <1>1, <1>5, <1>6, <1>7, <1>8, <1>9, <1>10, <1>11 DEF IInv

(* A step of the search keeps what it covers: the entered task is visited,  *)
(* what it depends on is to be entered.                                     *)
LEMMA SearchCovers ==
    ASSUME TypeOK, NEW k \in InProgress, k.todo # <<>>, Searched(k) # Returned
    PROVE  /\ Searched(k) \in InProgress
           /\ Searched(k).op = k.op /\ Searched(k).task = k.task
           /\ Searched(k).own = k.own /\ Searched(k).blocker = k.blocker
           /\ k.op = "add" /\ Covered(k) => Covered(Searched(k))
<1> DEFINE id == Head(k.todo)
           new == Searched(k)
<1>1. k.todo \in Seq(Tasks) /\ k.visited \in SUBSET Tasks
    BY DEF InProgress
<1>2. /\ id \in Tasks /\ Tail(k.todo) \in Seq(Tasks)
      /\ Range(k.todo) = {id} \cup Range(Tail(k.todo))
    BY <1>1, Taken
<1>3. id # k.task
    BY DEF Searched
<1>4. CASE id \in k.visited
  <2>1. new = [k EXCEPT !.todo = Tail(k.todo)]
      BY <1>3, <1>4 DEF Searched
  <2> HIDE DEF id, new
  <2>2. /\ new \in InProgress /\ new.op = k.op /\ new.task = k.task /\ new.own = k.own
        /\ new.blocker = k.blocker /\ new.visited = k.visited /\ new.todo = Tail(k.todo)
      BY <1>2, <2>1 DEF InProgress
  <2>3. k.visited \cup Range(new.todo) = k.visited \cup Range(k.todo)
      BY <1>2, <1>4, <2>2
  <2>4. Covered(k) => Covered(new)
      BY <2>2, <2>3 DEF Covered
  <2> QED
      BY <2>2, <2>4 DEF new
<1>5. CASE id \notin k.visited
  <2>1. new = [k EXCEPT !.todo = dependsOn[id] \o Tail(k.todo), !.visited = k.visited \cup {id}]
      BY <1>3, <1>5 DEF Searched
  <2>2. dependsOn[id] \in Seq(Tasks)
      BY <1>2 DEF TypeOK
  <2> HIDE DEF id, new
  <2>3. /\ dependsOn[id] \o Tail(k.todo) \in Seq(Tasks)
        /\ Range(dependsOn[id] \o Tail(k.todo)) = Range(dependsOn[id]) \cup Range(Tail(k.todo))
      BY <1>2, <2>2, Joint
  <2>4. /\ new \in InProgress /\ new.op = k.op /\ new.task = k.task /\ new.own = k.own
        /\ new.blocker = k.blocker /\ new.visited = k.visited \cup {id}
        /\ new.todo = dependsOn[id] \o Tail(k.todo)
      BY <1>1, <1>2, <2>1, <2>3 DEF InProgress
  <2>5. new.visited \cup Range(new.todo) = k.visited \cup Range(k.todo) \cup Range(dependsOn[id])
      BY <1>2, <2>3, <2>4
  <2>6. Covered(k) => Covered(new)
      BY <1>3, <2>4, <2>5 DEF Covered
  <2> QED
      BY <2>4, <2>6 DEF new
<1> QED
    BY <1>4, <1>5

(* A step of the search changes neither the task of the call nor its copy. *)
LEMMA WalkIInv ==
    ASSUME IInv, NEW c \in Callers, Walk(c)
    PROVE  IInv'
<1> DEFINE new == Searched(call[c])
<1>1. /\ call' = [call EXCEPT ![c] = new]
      /\ UNCHANGED <<dependsOn, closed, calls, overlap>>
      /\ call[c] # Returned /\ call[c].todo # <<>>
    BY DEF Walk
<1>2. TypeOK /\ call[c] \in InProgress /\ c \in Running
    BY <1>1 DEF IInv, TypeOK, Running
<1>3. new # Returned =>
        /\ new \in InProgress /\ new.op = call[c].op /\ new.task = call[c].task
        /\ new.own = call[c].own /\ new.blocker = call[c].blocker
        /\ call[c].op = "add" /\ Covered(call[c]) => Covered(new)
    BY <1>1, <1>2, SearchCovers
<1>4. call[c].op = "add"
    BY <1>1, <1>2 DEF IInv, StillDue, InProgress
<1> HIDE DEF new
<1>5. /\ \A d \in Callers : call'[d] = IF d = c THEN new ELSE call[d]
      /\ Running' \subseteq Running
    BY <1>1, <1>2 DEF TypeOK, Running
<1>6. TypeOK'
    BY <1>1, <1>2, <1>3 DEF TypeOK
<1>7. IsFiniteSet(Running')
    BY <1>5, FS_Subset DEF IInv
<1>8. NoEdgeTwice'
    BY <1>1 DEF IInv, NoEdgeTwice
<1>9. OneCallPerTask'
    BY <1>2, <1>3, <1>5 DEF IInv, OneCallPerTask, Running
<1>10. ReadsStayCurrent'
    BY <1>1, <1>3, <1>5 DEF IInv, ReadsStayCurrent
<1>11. StillDue'
    BY <1>2, <1>3, <1>4, <1>5 DEF IInv, StillDue, Running
<1>12. ASSUME overlap <= 1 PROVE Alone'
  <2>1. Alone
      BY <1>12 DEF IInv
  <2>2. \A d \in Running' : d = c /\ call'[d] = new /\ new # Returned
      BY <1>2, <1>5, <2>1 DEF Alone, Running
  <2>3. call'[c] = new
      BY <1>5
  <2>4. Covered(call[c])
      BY <1>2, <2>1 DEF Alone
  <2>5. new # Returned => Covered(call[c])'
      BY <1>1, <1>3, <1>4, <2>3, <2>4 DEF Covered
  <2>6. \A u \in Tasks : Apart(u)'
      BY <1>1, <2>1 DEF Alone, Apart, ClosedUnderDeps
  <2> QED
      BY <2>2, <2>5, <2>6 DEF Alone
<1> QED
    BY <1>1, <1>6, <1>7, <1>8, <1>9, <1>10, <1>11, <1>12 DEF IInv

(* The file after a write: that of the call's task, plus or minus the       *)
(* blocker.                                                                 *)
LEMMA Written ==
    ASSUME IInv, NEW c \in Callers, Write(c)
    PROVE  LET t == call[c].task
               b == call[c].blocker
           IN  /\ c \in Running /\ call[c] \in InProgress /\ t \in Tasks /\ b \in Tasks /\ t \notin closed
               /\ dependsOn' \in [Tasks -> Seq(Tasks)] /\ Distinct(dependsOn'[t])
               /\ \A u \in Tasks : u # t => dependsOn'[u] = dependsOn[u]
               /\ call[c].op = "add" => b \notin Range(dependsOn[t]) /\ Range(dependsOn'[t]) = Range(dependsOn[t]) \cup {b}
               /\ call[c].op = "remove" => Range(dependsOn'[t]) = Range(dependsOn[t]) \ {b}
<1> DEFINE t == call[c].task
           b == call[c].blocker
           q == call[c].own
           file == IF call[c].op = "add" THEN Append(q, b) ELSE RemoveAt(q, indexOf(q, b))
<1>1. /\ call[c] # Returned /\ dependsOn' = [dependsOn EXCEPT ![t] = file]
    BY DEF Write
<1>2. TypeOK /\ c \in Running /\ call[c] \in InProgress
    BY <1>1 DEF IInv, TypeOK, Running
<1>3. t \in Tasks /\ b \in Tasks /\ call[c].op \in {"add", "remove"} /\ q \in Seq(Tasks)
    BY <1>2 DEF InProgress
<1>4. t \notin closed /\ q = dependsOn[t] /\ Distinct(q)
    BY <1>1, <1>3 DEF IInv, ReadsStayCurrent, NoEdgeTwice
<1>5. (call[c].op = "add" => b \notin Range(q)) /\ (call[c].op = "remove" => b \in Range(q))
    BY <1>2 DEF IInv, StillDue
<1> HIDE DEF t, b, q
<1>6. /\ file \in Seq(Tasks) /\ Distinct(file)
      /\ call[c].op = "add" => Range(file) = Range(q) \cup {b}
      /\ call[c].op = "remove" => Range(file) = Range(q) \ {b}
    BY <1>3, <1>4, <1>5, Pushed, Spliced
<1> HIDE DEF file
<1>7. /\ dependsOn' \in [Tasks -> Seq(Tasks)] /\ dependsOn'[t] = file
      /\ \A u \in Tasks : u # t => dependsOn'[u] = dependsOn[u]
    BY <1>1, <1>2, <1>3, <1>6 DEF TypeOK
<1> QED
    BY <1>2, <1>3, <1>4, <1>5, <1>6, <1>7 DEF t, b, q

(* A write changes the file of a task that no other call is about, and the  *)
(* edge it adds closes no cycle.                                            *)
LEMMA WriteIInv ==
    ASSUME IInv, NEW c \in Callers, Write(c)
    PROVE  IInv'
<1> DEFINE t == call[c].task
           b == call[c].blocker
<1>1. /\ call' = [call EXCEPT ![c] = Returned] /\ call[c].todo = <<>>
      /\ UNCHANGED <<closed, calls, overlap>>
    BY DEF Write
<1>2. TypeOK
    BY DEF IInv
<1>3. /\ c \in Running /\ call[c] \in InProgress /\ t \in Tasks /\ b \in Tasks /\ t \notin closed
      /\ dependsOn' \in [Tasks -> Seq(Tasks)] /\ Distinct(dependsOn'[t])
      /\ \A u \in Tasks : u # t => dependsOn'[u] = dependsOn[u]
      /\ call[c].op = "add" => b \notin Range(dependsOn[t]) /\ Range(dependsOn'[t]) = Range(dependsOn[t]) \cup {b}
      /\ call[c].op = "remove" => Range(dependsOn'[t]) = Range(dependsOn[t]) \ {b}
    BY Written
<1>4. /\ \A d \in Callers : call'[d] = IF d = c THEN Returned ELSE call[d]
      /\ Running' = Running \ {c}
    BY <1>1, <1>2 DEF TypeOK, Running
<1>5. \A d \in Running : d # c => call[d].task # t
    BY <1>3 DEF IInv, OneCallPerTask
<1>6. \A d \in Running : call[d] \in InProgress /\ call[d].task \in Tasks
    BY <1>2 DEF TypeOK, Running, InProgress
<1>7. TypeOK'
    BY <1>1, <1>2, <1>3 DEF TypeOK
<1>8. IsFiniteSet(Running')
    BY <1>4, FS_Subset DEF IInv
<1>9. NoEdgeTwice'
    BY <1>3 DEF IInv, NoEdgeTwice
<1>10. OneCallPerTask'
    BY <1>4 DEF IInv, OneCallPerTask, Running
<1>11. ReadsStayCurrent'
  <2> SUFFICES ASSUME NEW d \in Callers, call'[d] # Returned
               PROVE  call'[d].task \notin closed' /\ call'[d].own = dependsOn'[call'[d].task]
      BY DEF ReadsStayCurrent
  <2>1. d # c /\ call'[d] = call[d] /\ d \in Running
      BY <1>4 DEF Running
  <2>2. call[d].task # t
      BY <1>5, <2>1
  <2>3. call[d].task \notin closed /\ call[d].own = dependsOn[call[d].task]
      BY <2>1 DEF IInv, ReadsStayCurrent, Running
  <2>4. dependsOn'[call[d].task] = dependsOn[call[d].task]
      BY <1>3, <1>6, <2>1, <2>2
  <2> QED
      BY <1>1, <2>1, <2>3, <2>4
<1>12. StillDue'
    BY <1>4 DEF IInv, StillDue, Running
<1>13. ASSUME overlap <= 1 PROVE Alone'
  <2>1. Alone
      BY <1>13 DEF IInv
  <2>2. Running' = {}
      BY <1>3, <1>4, <2>1 DEF Alone
  <2>3. ASSUME call[c].op = "add", NEW u \in Tasks PROVE Apart(u)'
    <3> DEFINE W == call[c].visited
    <3>1. Range(call[c].todo) = {}
        BY <1>1 DEF Range
    <3>2. Covered(call[c])
        BY <1>3, <2>1 DEF Alone
    <3>3. W \in SUBSET Tasks /\ t \notin W /\ b \in W /\ ClosedUnderDeps(W)
        BY <1>3, <2>3, <3>1, <3>2 DEF Covered, ClosedUnderDeps, InProgress
    <3>4. Apart(u)
        BY <2>1 DEF Alone
    <3>5. dependsOn'[t] \in Seq(Tasks)
        BY <1>3
    <3> HIDE DEF W, t, b
    <3> QED
        BY <1>2, <1>3, <2>3, <3>3, <3>4, <3>5, EdgeKeepsApart
  <2>4. ASSUME call[c].op = "remove", NEW u \in Tasks PROVE Apart(u)'
    <3>1. \A v \in Tasks : Range(dependsOn'[v]) \subseteq Range(dependsOn[v])
        BY <1>3, <2>4
    <3>2. Apart(u)
        BY <2>1 DEF Alone
    <3> QED
        BY <3>1, <3>2, FewerKeepApart
  <2>5. call[c].op \in {"add", "remove"}
      BY <1>3 DEF InProgress
  <2> QED
      BY <2>2, <2>3, <2>4, <2>5 DEF Alone
<1> QED
    BY <1>1, <1>7, <1>8, <1>9, <1>10, <1>11, <1>12, <1>13 DEF IInv

(* A task is closed only while no call is about it. *)
LEMMA CloseIInv ==
    ASSUME IInv, NEW t \in Tasks, Close(t)
    PROVE  IInv'
<1>1. /\ closed' = closed \cup {t} /\ UNCHANGED <<dependsOn, call, calls, overlap>>
      /\ Running' = Running /\ \A c \in Running : call[c].task # t
    BY DEF Close, MutexFree, Running
<1>2. TypeOK'
    BY <1>1 DEF IInv, TypeOK
<1>3. ReadsStayCurrent'
    BY <1>1 DEF IInv, ReadsStayCurrent, Running
<1>4. NoEdgeTwice' /\ OneCallPerTask' /\ StillDue' /\ IsFiniteSet(Running')
    BY <1>1 DEF IInv, NoEdgeTwice, OneCallPerTask, StillDue
<1>5. overlap' <= 1 => Alone'
    BY <1>1 DEF IInv, Alone, Covered, Apart, ClosedUnderDeps
<1> QED
    BY <1>2, <1>3, <1>4, <1>5 DEF IInv

(* Every step of the store keeps the invariant. *)
LEMMA NextIInv == IInv /\ [Next]_vars => IInv'
<1> SUFFICES ASSUME IInv, [Next]_vars PROVE IInv'
    OBVIOUS
<1>1. CASE Next
    BY <1>1, BeginIInv, WalkIInv, WriteIInv, CloseIInv DEF Next
<1>2. CASE UNCHANGED vars
  <2>1. UNCHANGED <<dependsOn, closed, call, calls, overlap>> /\ Running' = Running
      BY <1>2 DEF vars, Running
  <2>2. TypeOK' /\ ReadsStayCurrent'
      BY <2>1 DEF IInv, TypeOK, ReadsStayCurrent
  <2>3. NoEdgeTwice' /\ OneCallPerTask' /\ StillDue' /\ IsFiniteSet(Running')
      BY <2>1 DEF IInv, NoEdgeTwice, OneCallPerTask, StillDue
  <2>4. overlap' <= 1 => Alone'
      BY <2>1 DEF IInv, Alone, Covered, Apart, ClosedUnderDeps
  <2> QED
      BY <2>2, <2>3, <2>4 DEF IInv
<1> QED
    BY <1>1, <1>2

-----------------------------------------------------------------------------
(* A dependency call in progress always works on the current file of an     *)
(* open task: the array that addDep() and removeDep() write back after      *)
(* their awaits is the file's array plus or minus their own edge.           *)
THEOREM NoLostUpdate == Spec => []ReadsStayCurrent
<1>1. IInv => ReadsStayCurrent
    BY DEF IInv
<1> QED
    BY InitIInv, NextIInv, <1>1, PTL DEF Spec

(* As long as calls come one at a time, addDep() never makes tasks wait for *)
(* each other: hasCycle() finds every path back to the task.                *)
THEOREM NoCycle == Spec => []NoCycleAlone
<1>1. IInv => NoCycleAlone
    BY ApartNotOnCycle DEF IInv, NoCycleAlone, SoloAcyclic, Alone
<1> QED
    BY InitIInv, NextIInv, <1>1, PTL DEF Spec

(* Only a write changes a file. *)
LEMMA OnlyWrites ==
    ASSUME Next, ~ \E c \in Callers : Write(c) PROVE dependsOn' = dependsOn
BY DEF Next, Begin, Walk, Close

(* Only a write changes a file, and then that of an open task. *)
LEMMA StepKeepsClosed ==
    IInv /\ [Next]_vars => [\A t \in closed : dependsOn'[t] = dependsOn[t]]_vars
<1> SUFFICES ASSUME IInv, Next, NEW t \in closed PROVE dependsOn'[t] = dependsOn[t]
    BY DEF vars
<1>1. CASE \E c \in Callers : Write(c)
    BY <1>1, Written DEF IInv, TypeOK
<1> QED
    BY <1>1, OnlyWrites

(* A write changes one edge, and lists no task twice. *)
LEMMA StepKeepsEdges ==
    IInv /\ [Next]_vars =>
        [\A t \in Tasks :
            LET old == Range(dependsOn[t])
                new == Range(dependsOn'[t])
            IN /\ Cardinality((old \ new) \cup (new \ old)) <= 1
               /\ Len(dependsOn'[t]) = Cardinality(new)]_vars
<1> SUFFICES ASSUME IInv, Next, NEW t \in Tasks
             PROVE  LET old == Range(dependsOn[t])
                        new == Range(dependsOn'[t])
                    IN /\ Cardinality((old \ new) \cup (new \ old)) <= 1
                       /\ Len(dependsOn'[t]) = Cardinality(new)
    BY DEF vars
<1> DEFINE old == Range(dependsOn[t])
           new == Range(dependsOn'[t])
           changed == (old \ new) \cup (new \ old)
<1>1. dependsOn'[t] \in Seq(Tasks) /\ Distinct(dependsOn'[t])
  <2>1. IInv'
      BY NextIInv
  <2> QED
      BY <2>1 DEF IInv, TypeOK, NoEdgeTwice
<1>2. Len(dependsOn'[t]) = Cardinality(new)
    BY <1>1, SizeIsLength
<1>3. changed = {} \/ \E b : changed = {b}
  <2>1. CASE \E c \in Callers : Write(c)
    <3>1. PICK c \in Callers : Write(c)
        BY <2>1
    <3> DEFINE b == call[c].blocker
    <3>2. /\ t # call[c].task => dependsOn'[t] = dependsOn[t]
          /\ t = call[c].task /\ call[c].op = "add" => b \notin old /\ new = old \cup {b}
          /\ t = call[c].task /\ call[c].op = "remove" => new = old \ {b}
          /\ call[c].op \in {"add", "remove"}
        BY <3>1, Written DEF InProgress
    <3> HIDE DEF b
    <3>3. CASE t # call[c].task
      <4>1. new = old
          BY <3>2, <3>3
      <4> QED
          BY <4>1
    <3>4. CASE t = call[c].task
      <4> HIDE DEF old, new
      <4>1. changed \subseteq {b}
          BY <3>2, <3>4
      <4> QED
          BY <4>1
    <3> QED
        BY <3>3, <3>4
  <2>2. CASE ~ \E c \in Callers : Write(c)
    <3>1. new = old
        BY <2>2, OnlyWrites
    <3> QED
        BY <3>1
  <2> QED
      BY <2>1, <2>2
<1> HIDE DEF changed
<1>4. Cardinality(changed) \in {0, 1}
    BY <1>3, FS_EmptySet, FS_Singleton
<1> QED
    BY <1>2, <1>4 DEF changed

(* A write of addDep() or removeDep() changes its own edge, lists no task   *)
(* twice, and never comes after the task was closed, although both look at  *)
(* the task long before they write.                                         *)
THEOREM WritesNeverLost == Spec => WritesKept
<1> QED
    BY InitIInv, NextIInv, StepKeepsClosed, StepKeepsEdges, PTL
    DEF Spec, WritesKept, OneEdgePerWrite, ClosedKeepsDeps

-----------------------------------------------------------------------------
(* The mutexes (TaskLocks): mutual exclusion and first-come-first-served    *)
(* order, for any number of calls and ids and for both variants.            *)
(*                                                                          *)
(* The Map only holds the newest promise, so mutual exclusion rests on what *)
(* the prior pointers and the order of arrival say together:                *)
(*   - the call in a slot is the newest one of its id, and an empty slot    *)
(*     means that every call of that id has settled (Slots);                *)
(*   - every call older than a waiting one is its predecessor, is older     *)
(*     than its predecessor, or has settled (Chain);                        *)
(*   - a call that has started is the oldest unsettled one of its id (Fifo).*)

Older(d, c) == Made(d) /\ key[d] = key[c] /\ ticket[d] < ticket[c]

Tickets ==
    /\ \A c \in Calls : Made(c) => ticket[c] < arrivals /\ key[c] \in Ids
    /\ \A c, d \in Calls : Made(c) /\ Made(d) /\ ticket[c] = ticket[d] => c = d

Slots ==
    \A id \in Ids :
        /\ inflight[id] = NoCall => \A c \in Calls : Made(c) /\ key[c] = id => Settled(c)
        /\ inflight[id] # NoCall =>
              /\ Made(inflight[id]) /\ key[inflight[id]] = id
              /\ \A c \in Calls : Made(c) /\ key[c] = id
                                      => ticket[c] <= ticket[inflight[id]]

Chain ==
    \A c \in Calls : Made(c) =>
        /\ prior[c] # NoCall => Older(prior[c], c)
        /\ \A d \in Calls : Older(d, c) =>
              \/ Settled(d)
              \/ prior[c] # NoCall /\ (d = prior[c] \/ Older(d, prior[c]))

LocksInv == LocksTypeOK /\ Tickets /\ Slots /\ Chain /\ Fifo

(* Before any call every part of the invariant holds trivially. *)
LEMMA LocksInitInv == LocksInit => LocksInv
  BY CallsAssumption DEF LocksInit, LocksInv, LocksTypeOK, Tickets, Slots, Chain, Fifo, Older, Made, Settled

(* A new call becomes the newest of its id and points at the one before. *)
LEMMA ArriveInv ==
    ASSUME LocksInv, NEW c \in Calls, NEW id \in Ids, Arrive(c, id)
    PROVE  LocksInv'
<1> USE CallsAssumption
<1>1. LocksTypeOK'
  BY DEF LocksInv, LocksTypeOK, Arrive
<1>2. Tickets'
  BY DEF LocksInv, LocksTypeOK, Arrive, Tickets, Made
<1>3. Slots'
  BY DEF LocksInv, LocksTypeOK, Arrive, Tickets, Slots, Made, Settled
<1>4. Chain'
  <2>1. SUFFICES ASSUME NEW e \in Calls, Made(e)'
                 PROVE  /\ prior'[e] # NoCall => Older(prior[e], e)'
                        /\ \A d \in Calls : Older(d, e)' =>
                              \/ Settled(d)'
                              \/ /\ prior'[e] # NoCall
                                 /\ d = prior'[e] \/ Older(d, prior[e])'
    BY DEF Chain
  <2>2. CASE e = c
    <3>1. prior'[c] = inflight[id] /\ key'[c] = id /\ ticket'[c] = arrivals
      BY DEF Arrive, LocksInv, LocksTypeOK
    <3>2. inflight[id] # c
      BY DEF Arrive, LocksInv, Slots, LocksTypeOK, Made
    <3>3. \A d \in Calls \ {c} : /\ key'[d] = key[d] /\ ticket'[d] = ticket[d]
                                 /\ Made(d)' <=> Made(d)
                                 /\ Settled(d)' <=> Settled(d)
      BY DEF Arrive, LocksInv, LocksTypeOK, Made, Settled
    <3>4. CASE inflight[id] = NoCall
      <4>1. \A d \in Calls : Older(d, c)' => d # c /\ Made(d) /\ key[d] = id
        BY <1>1, <3>1, <3>3 DEF Older, LocksTypeOK
      <4> QED BY <2>2, <3>1, <3>3, <3>4, <4>1 DEF LocksInv, Slots
    <3>5. CASE inflight[id] # NoCall
      <4>1. inflight[id] \in Calls \ {c} /\ Made(inflight[id]) /\ key[inflight[id]] = id
        BY <3>2, <3>5 DEF LocksInv, Slots, LocksTypeOK
      <4>2. Older(prior[c], c)'
        BY <3>1, <3>3, <4>1 DEF LocksInv, Tickets, Older
      <4>3. ASSUME NEW d \in Calls, Older(d, c)', d # inflight[id]
            PROVE  Older(d, prior[c])'
        <5>1. d # c /\ Made(d) /\ key[d] = id
          BY <3>1, <3>3, <4>3 DEF Older, LocksInv, LocksTypeOK
        <5>2. ticket[d] < ticket[inflight[id]]
          BY <3>5, <4>1, <4>3, <5>1 DEF LocksInv, Slots, Tickets, LocksTypeOK
        <5> QED BY <3>1, <3>3, <4>1, <5>1, <5>2 DEF Older
      <4> QED BY <2>2, <3>1, <3>5, <4>2, <4>3
    <3> QED BY <3>4, <3>5
  <2>3. CASE e # c
    <3>1. Made(e) /\ prior'[e] = prior[e]
      BY <2>1, <2>3 DEF Arrive, LocksInv, LocksTypeOK, Made
    <3>2. ~Made(c) /\ \A d \in Calls : Older(d, e)' => d # c
      BY <2>3, <3>1 DEF Arrive, LocksInv, LocksTypeOK, Tickets, Older, Made
    <3>3. \A d \in Calls \ {c} : /\ Older(d, e)' <=> Older(d, e)
                                 /\ Settled(d)' <=> Settled(d)
      BY <2>3 DEF Arrive, LocksInv, LocksTypeOK, Older, Made, Settled
    <3>4. prior[e] # NoCall => prior[e] \in Calls \ {c} /\ Older(prior[e], e)
      BY <3>1, <3>2 DEF LocksInv, Chain, Older, LocksTypeOK
    <3>5. \A d \in Calls \ {c} : prior[e] # NoCall =>
                                   (Older(d, prior[e])' <=> Older(d, prior[e]))
      BY <3>1, <3>4 DEF Arrive, LocksInv, LocksTypeOK, Older, Made
    <3> QED BY <3>1, <3>2, <3>3, <3>4, <3>5 DEF LocksInv, Chain
  <2> QED BY <2>2, <2>3
<1>5. Fifo'
  BY DEF LocksInv, LocksTypeOK, Arrive, Tickets, Slots, Fifo, Made, Settled
<1> QED BY <1>1, <1>2, <1>3, <1>4, <1>5 DEF LocksInv

(* A waiter's predecessor has settled when it resumes, whichever variant.   *)
(* A waiter starts after its predecessor, and so after every older call. *)
LEMMA ResumeInv ==
    ASSUME LocksInv, NEW c \in Calls, Resume(c)
    PROVE  LocksInv'
<1> USE CallsAssumption
<1>0. prior[c] = NoCall \/ Settled(prior[c])
  BY DEF Resume, Resumable, Settled
<1>1. LocksTypeOK'
  BY DEF LocksInv, LocksTypeOK, Resume
<1>2. Tickets' /\ Slots' /\ Chain'
  BY DEF LocksInv, LocksTypeOK, Resume, Tickets, Slots, Chain, Older, Made, Settled
<1>3. \A d \in Calls : Older(d, c) => Settled(d)
  <2>1. SUFFICES ASSUME NEW d \in Calls, Older(d, c), ~Settled(d)
                 PROVE  FALSE
    OBVIOUS
  <2>2. prior[c] \in Calls /\ Settled(prior[c]) /\ (d = prior[c] \/ Older(d, prior[c]))
    BY <1>0, <2>1 DEF LocksInv, LocksTypeOK, Chain, Resume, Made
  <2>3. Older(d, prior[c])
    BY <2>1, <2>2
  <2> QED BY <2>1, <2>2, <2>3 DEF LocksInv, Fifo, Settled, Older, Made
<1>4. Fifo'
  BY <1>3 DEF LocksInv, LocksTypeOK, Resume, Fifo, Older, Made, Settled
<1> QED BY <1>1, <1>2, <1>4 DEF LocksInv

(* Settling only makes calls settled. *)
LEMMA SettleInv ==
    ASSUME LocksInv, NEW c \in Calls, NEW o \in {"ok", "failed"}, Settle(c, o)
    PROVE  LocksInv'
<1>1. LocksTypeOK'
  BY DEF LocksInv, LocksTypeOK, Settle
<1>2. Tickets' /\ Slots' /\ Chain'
  BY CallsAssumption DEF LocksInv, LocksTypeOK, Settle, Tickets, Slots, Chain, Older, Made, Settled
<1>3. Fifo'
  BY DEF LocksInv, LocksTypeOK, Settle, Fifo, Made, Settled
<1> QED BY <1>1, <1>2, <1>3 DEF LocksInv

(* Freeing the slot is sound because its holder, the newest call, settled:  *)
(* by Fifo all the older ones have too.                                     *)
(* A call clears the slot only while it is the newest of its id. *)
LEMMA CleanupInv ==
    ASSUME LocksInv, NEW c \in Calls, Cleanup(c)
    PROVE  LocksInv'
<1> USE CallsAssumption
<1>1. LocksTypeOK'
  BY DEF LocksInv, LocksTypeOK, Cleanup
<1>2. Tickets' /\ Chain' /\ Fifo'
  BY DEF LocksInv, LocksTypeOK, Cleanup, Tickets, Chain, Fifo, Older, Made, Settled
<1>3. Slots'
  <2>1. CASE inflight[key[c]] = c
    <3>1. key[c] \in Ids /\ Settled(c) /\ Made(c)
      BY DEF LocksInv, Tickets, Cleanup, Settled, Made
    <3>2. \A d \in Calls : Made(d) /\ key[d] = key[c] => Settled(d)
      <4>1. SUFFICES ASSUME NEW d \in Calls, Made(d), key[d] = key[c], d # c
                     PROVE  Settled(d)
        BY <3>1
      <4>2. ticket[d] < ticket[c]
        BY <2>1, <3>1, <4>1 DEF LocksInv, LocksTypeOK, Slots, Tickets
      <4> QED BY <3>1, <4>1, <4>2 DEF LocksInv, Fifo, Cleanup
    <3> QED BY <2>1, <3>1, <3>2 DEF LocksInv, LocksTypeOK, Cleanup, Slots, Made, Settled
  <2>2. CASE inflight[key[c]] # c
    BY <2>2 DEF LocksInv, LocksTypeOK, Cleanup, Slots, Made, Settled
  <2> QED BY <2>1, <2>2
<1> QED BY <1>1, <1>2, <1>3 DEF LocksInv

(* Nothing changes in a stuttering step. *)
LEMMA StutterInv ==
    ASSUME LocksInv, UNCHANGED lockVars
    PROVE  LocksInv'
  BY DEF LocksInv, lockVars, LocksTypeOK, Tickets, Slots, Chain, Fifo, Older, Made, Settled

(* The inductive invariant holds in every behaviour of either mutex. *)
THEOREM Invariance == LocksSpec => []LocksInv
<1>1. LocksInit => LocksInv
  BY LocksInitInv
<1>2. LocksInv /\ [LocksNext]_lockVars => LocksInv'
  <2>1. SUFFICES ASSUME LocksInv, [LocksNext]_lockVars PROVE LocksInv'
    OBVIOUS
  <2>2. CASE \E c \in Calls, id \in Ids : Arrive(c, id)
    BY <2>1, <2>2, ArriveInv
  <2>3. CASE \E c \in Calls : Progress(c)
    BY <2>1, <2>3, ResumeInv, SettleInv, CleanupInv DEF Progress
  <2>4. CASE Quiet \/ UNCHANGED lockVars
    BY <2>1, <2>4, StutterInv DEF Quiet
  <2> QED BY <2>1, <2>2, <2>3, <2>4 DEF LocksNext
<1> QED BY <1>1, <1>2, PTL DEF LocksSpec

(* Operations of one task start in the order TaskLocks.run or withLock was  *)
(* called, each after all the earlier ones have settled.                    *)
THEOREM FirstComeFirstServed == LocksSpec => []Fifo
<1>1. LocksInv => Fifo
  BY DEF LocksInv
<1> QED BY <1>1, Invariance, PTL

(* At most one operation per task id runs at any time.                      *)
THEOREM MutualExclusion == LocksSpec => []Mutex
<1>1. LocksInv => Mutex
  <2>1. SUFFICES ASSUME LocksInv, NEW c \in Calls, NEW d \in Calls,
                        st[c] = "running", st[d] = "running", key[c] = key[d]
                 PROVE  c = d
    BY DEF Mutex
  <2>2. Made(c) /\ Made(d) /\ ~Settled(c) /\ ~Settled(d)
    BY <2>1 DEF Made, Settled
  <2>3. ~(ticket[d] < ticket[c]) /\ ~(ticket[c] < ticket[d])
    BY <2>1, <2>2 DEF LocksInv, Fifo
  <2> QED BY <2>1, <2>2, <2>3 DEF LocksInv, LocksTypeOK, Tickets
<1> QED BY <1>1, Invariance, PTL

(* The mutexes' types. *)
THEOREM TypeCorrect == LocksSpec => []LocksTypeOK
<1>1. LocksInv => LocksTypeOK
  BY DEF LocksInv
<1> QED BY <1>1, Invariance, PTL
=============================================================================
