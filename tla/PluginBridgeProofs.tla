------------------------- MODULE PluginBridgeProofs -------------------------
(* The bridge for any requests, loops and setups: whatever is lost, times    *)
(* out, restarts or is forced to an end, no request is answered twice or     *)
(* given to two loops, and a success that the daemon hears of was one.       *)
(* The argument follows a request through its places.  While it is queued,   *)
(* it was never given to a loop (QueuedAreNew); while a loop carries it or   *)
(* the plugin works on it, it was given once (GivenOnce), so it cannot be    *)
(* queued too; while it is awaited, nothing was said about it (Unanswered).  *)
(* What a loop posts and what a session reports is what happened             *)
(* (ReportsAreTrue); a turn holds the slot of its session (TurnsHoldSlots).  *)
EXTENDS PluginBridge, SequenceTheorems, TLAPS

(* No request is queued twice. *)
QueueOK(q) == q \in Seq(Ids) /\ \A a, b \in DOMAIN q : a # b => q[a] # q[b]

Shape ==
    /\ setup \in Setups
    /\ claimed \subseteq Ids /\ awaited \subseteq Ids /\ finished \subseteq Ids
    /\ conn \in [Loops -> {"none", "open", "sent"}]
    /\ inbox \in [Loops -> {"none", "204", "error"} \cup Ids]
    /\ loop \in [Loops -> {"off", "poll", "await", "sleep"}]
    /\ work \in [Ids -> {"none", "running", "post", "postFail", "done"}]
    /\ session \in [Ids -> {"none", "alive", "completed", "dead"}]
    /\ outcome \in [Ids -> Outcomes]
    /\ settles \in [Ids -> Nat] /\ handed \in [Ids -> Nat] /\ wakeRuns \in [Keys -> Nat]

(* A forced completion leaves a queued run in the queue. *)
QueuedAreNew ==
    \A i \in Range(pending) :
        /\ handed[i] = 0 /\ session[i] = "none"
        /\ i \in awaited \/ (Spawning /\ outcome[i] = "aborted")

Given(i) == work[i] # "none" \/ \E l \in Loops : inbox[l] = i

GivenOnce == \A i \in Ids : handed[i] <= 1 /\ (Given(i) => handed[i] = 1)

Unanswered ==
    \A i \in Ids :
        /\ i \in awaited => outcome[i] = "none"
        /\ settles[i] <= 1
        /\ outcome[i] \in {"none", "held", "refused"} => settles[i] = 0

ReportsAreTrue ==
    \A i \in Ids :
        /\ work[i] = "post" \/ session[i] = "completed" \/ outcome[i] = "ok" => i \in finished
        /\ session[i] # "none" => Spawning

TurnsHoldSlots == \A k \in Keys : wakeRuns[k] <= 1 /\ (wakeRuns[k] = 1 => k \in waking)

IInv ==
    /\ QueueOK(pending) /\ Shape /\ QueuedAreNew /\ GivenOnce /\ NoLostWakeup /\ Unanswered
    /\ ReportsAreTrue /\ ClaimsReleased /\ TurnsHoldSlots

(* A queue without repetitions stays one. *)
LEMMA QueueGrows ==
    ASSUME NEW q, QueueOK(q), NEW i \in Ids, i \notin Range(q)
    PROVE  QueueOK(Append(q, i)) /\ Range(Append(q, i)) = Range(q) \cup {i}
<1> DEFINE r == Append(q, i)
<1>1. /\ r \in Seq(Ids) /\ Len(r) = Len(q) + 1 /\ r[Len(q) + 1] = i
      /\ \A k \in 1..Len(q) : r[k] = q[k]
    BY AppendProperties DEF QueueOK
<1>2. DOMAIN q = 1..Len(q) /\ DOMAIN r = 1..(Len(q) + 1) /\ Len(q) \in Nat
    BY <1>1, LenProperties DEF QueueOK
<1> HIDE DEF r
<1>3. \A k \in DOMAIN q : q[k] # i
    BY DEF Range
<1>4. \A a, b \in DOMAIN r : a # b => r[a] # r[b]
    BY <1>1, <1>2, <1>3 DEF QueueOK
<1>5. Range(r) = Range(q) \cup {i}
    BY <1>1, <1>2 DEF Range
<1> QED
    BY <1>1, <1>4, <1>5 DEF QueueOK, r

LEMMA QueueYields ==
    ASSUME NEW q, QueueOK(q), q # <<>>
    PROVE  /\ QueueOK(Tail(q)) /\ Head(q) \in Ids /\ Head(q) \in Range(q)
           /\ Range(Tail(q)) \subseteq Range(q) \ {Head(q)}
<1> DEFINE r == Tail(q)
<1>1. /\ r \in Seq(Ids) /\ Len(r) = Len(q) - 1 /\ Head(q) \in Ids
      /\ \A k \in 1..Len(r) : r[k] = q[k + 1]
    BY HeadTailProperties DEF QueueOK
<1>2. DOMAIN q = 1..Len(q) /\ DOMAIN r = 1..(Len(q) - 1) /\ Len(q) \in Nat \ {0} /\ Head(q) = q[1]
    BY <1>1, LenProperties, EmptySeq DEF QueueOK
<1> HIDE DEF r
<1>3. \A k \in DOMAIN r : k + 1 \in DOMAIN q /\ k + 1 # 1 /\ r[k] = q[k + 1]
  <2> TAKE k \in DOMAIN r
  <2>1. k \in 1..(Len(q) - 1)
      BY <1>2
  <2>2. r[k] = q[k + 1]
      BY <1>1, <2>1
  <2>3. k + 1 \in 1..Len(q) /\ k + 1 # 1
      BY <1>2, <2>1
  <2> QED
      BY <1>2, <2>2, <2>3
<1>4. \A a, b \in DOMAIN r : a # b => r[a] # r[b]
  <2> TAKE a \in DOMAIN r, b \in DOMAIN r
  <2> HAVE a # b
  <2>1. a + 1 \in DOMAIN q /\ b + 1 \in DOMAIN q /\ r[a] = q[a + 1] /\ r[b] = q[b + 1]
      BY <1>3
  <2>2. a + 1 # b + 1
      BY <1>2
  <2> QED
      BY <2>1, <2>2 DEF QueueOK
<1>5. 1 \in DOMAIN q /\ Head(q) = q[1]
    BY <1>2
<1>6. Head(q) \in Range(q)
    BY <1>5 DEF Range
<1>7. \A k \in DOMAIN r : r[k] \in Range(q) /\ r[k] # Head(q)
  <2> TAKE k \in DOMAIN r
  <2>1. k + 1 \in DOMAIN q /\ k + 1 # 1 /\ r[k] = q[k + 1]
      BY <1>3
  <2>2. r[k] \in Range(q)
      BY <2>1 DEF Range
  <2>3. q[k + 1] # q[1]
      BY <2>1, <1>5 DEF QueueOK
  <2> QED
      BY <2>1, <2>2, <2>3, <1>5
<1> QED
    BY <1>1, <1>4, <1>6, <1>7 DEF QueueOK, r, Range

LEMMA QueueForgets ==
    ASSUME QueueOK(pending), NEW i \in Ids, dequeue(i)
    PROVE  QueueOK(pending') /\ Range(pending') = Range(pending) \ {i}
<1>1. CASE i \notin Range(pending) /\ UNCHANGED pending
    BY <1>1 DEF QueueOK, Range
<1>2. ASSUME NEW k \in DOMAIN pending, pending[k] = i, pending' = RemoveAt(pending, k)
      PROVE  QueueOK(pending') /\ Range(pending') = Range(pending) \ {i}
  <2> DEFINE n == Len(pending)
             before == SubSeq(pending, 1, k - 1)
             after == SubSeq(pending, k + 1, n)
             r == before \o after
  <2>1. pending \in Seq(Ids) /\ DOMAIN pending = 1..n /\ n \in Nat /\ k \in 1..n
      BY <1>2, LenProperties DEF QueueOK
  <2>2. \A j \in 1..n : pending[j] \in Ids
      BY <2>1, ElementOfSeq
  <2>3. /\ before \in Seq(Ids) /\ Len(before) = k - 1
        /\ \A j \in 1..(k - 1) : before[j] = pending[j]
    <3>1. /\ before \in Seq(Ids) /\ Len(before) = IF 1 <= k - 1 THEN (k - 1) - 1 + 1 ELSE 0
          /\ \A j \in 1..((k - 1) - 1 + 1) : before[j] = pending[1 + j - 1]
      <4>1. 1 \in Int /\ k - 1 \in Int /\ \A j \in 1..(k - 1) : pending[j] \in Ids
          BY <2>1, <2>2
      <4> QED
          BY <4>1, SubSeqProperties
    <3>2. Len(before) = k - 1
        BY <3>1, <2>1
    <3>3. \A j \in 1..(k - 1) : j \in 1..((k - 1) - 1 + 1) /\ 1 + j - 1 = j
        BY <2>1
    <3> QED
        BY <3>1, <3>2, <3>3
  <2>4. /\ after \in Seq(Ids) /\ Len(after) = n - k
        /\ \A j \in 1..(n - k) : after[j] = pending[k + j]
    <3>1. /\ after \in Seq(Ids) /\ Len(after) = IF k + 1 <= n THEN n - (k + 1) + 1 ELSE 0
          /\ \A j \in 1..(n - (k + 1) + 1) : after[j] = pending[k + 1 + j - 1]
      <4>1. k + 1 \in Int /\ n \in Int /\ \A j \in (k + 1)..n : pending[j] \in Ids
          BY <2>1, <2>2
      <4> QED
          BY <4>1, SubSeqProperties
    <3>2. Len(after) = n - k
        BY <3>1, <2>1
    <3>3. \A j \in 1..(n - k) : j \in 1..(n - (k + 1) + 1) /\ k + 1 + j - 1 = k + j
        BY <2>1
    <3> QED
        BY <3>1, <3>2, <3>3
  <2>5. /\ r \in Seq(Ids) /\ Len(r) = (k - 1) + (n - k)
        /\ \A j \in 1..(k - 1) + (n - k) : r[j] = IF j <= k - 1 THEN before[j] ELSE after[j - (k - 1)]
    <3>1. /\ r \in Seq(Ids) /\ Len(r) = Len(before) + Len(after)
          /\ \A j \in 1..Len(before) + Len(after) :
                 r[j] = IF j <= Len(before) THEN before[j] ELSE after[j - Len(before)]
        BY <2>3, <2>4, ConcatProperties
    <3> QED
        BY <3>1, <2>3, <2>4
  <2>6. pending' = r
      BY <1>2 DEF RemoveAt
  <2> HIDE DEF r, before, after
  <2>7. DOMAIN r = 1..(n - 1)
      BY <2>1, <2>5, LenProperties
  <2>8. \A j \in 1..(n - 1) : r[j] = IF j < k THEN pending[j] ELSE pending[j + 1]
    <3> SUFFICES ASSUME NEW j \in 1..(n - 1)
                 PROVE  r[j] = IF j < k THEN pending[j] ELSE pending[j + 1]
        OBVIOUS
    <3>1. CASE j < k
        BY <3>1, <2>1, <2>3, <2>5
    <3>2. CASE ~(j < k)
      <4>1. /\ j - (k - 1) \in 1..(n - k) /\ k + (j - (k - 1)) = j + 1
            /\ j \in 1..(k - 1) + (n - k) /\ ~(j <= k - 1)
          BY <3>2, <2>1
      <4>2. r[j] = after[j - (k - 1)]
          BY <4>1, <2>5
      <4>3. after[j - (k - 1)] = pending[j + 1]
          BY <4>1, <2>4
      <4> QED
          BY <3>2, <4>2, <4>3
    <3> QED
        BY <3>1, <3>2
  <2>9. \A a, b \in DOMAIN r : a # b => r[a] # r[b]
      BY <2>1, <2>7, <2>8 DEF QueueOK
  <2>10. Range(r) = Range(pending) \ {i}
    <3>1. \A j \in DOMAIN r : r[j] \in Range(pending) \ {i}
        BY <1>2, <2>1, <2>7, <2>8 DEF Range, QueueOK
    <3>2. \A x \in Range(pending) \ {i} : \E j \in DOMAIN r : r[j] = x
      <4> SUFFICES ASSUME NEW a \in 1..n, pending[a] # i
                   PROVE  \E j \in 1..(n - 1) : r[j] = pending[a]
          BY <2>1, <2>7 DEF Range
      <4>1. CASE a < k
          BY <4>1, <2>1, <2>8
      <4>2. CASE a > k
        <5>1. a - 1 \in 1..(n - 1) /\ ~(a - 1 < k) /\ (a - 1) + 1 = a
            BY <4>2, <2>1
        <5> QED
            BY <5>1, <2>8
      <4> QED
          BY <4>1, <4>2, <1>2, <2>1
    <3> QED
        BY <3>1, <3>2 DEF Range
  <2> QED
      BY <2>5, <2>6, <2>9, <2>10 DEF QueueOK
<1> QED
    BY <1>1, <1>2 DEF dequeue

(* What a step leaves alone. *)
LEMMA Undisturbed ==
    ASSUME IInv
    PROVE  /\ UNCHANGED pending => QueueOK(pending)'
           /\ UNCHANGED <<setup, pending, awaited, handed, session, outcome>> => QueuedAreNew'
           /\ UNCHANGED <<work, inbox, handed>> => GivenOnce'
           /\ UNCHANGED <<pending, conn>> => NoLostWakeup'
           /\ UNCHANGED <<awaited, outcome, settles>> => Unanswered'
           /\ UNCHANGED <<setup, work, session, outcome, finished>> => ReportsAreTrue'
           /\ UNCHANGED <<setup, claimed, awaited>> => ClaimsReleased'
           /\ UNCHANGED <<waking, wakeRuns>> => TurnsHoldSlots'
<1>1. UNCHANGED pending => QueueOK(pending)'
    BY DEF IInv, QueueOK
<1>2. UNCHANGED <<setup, pending, awaited, handed, session, outcome>> => QueuedAreNew'
    BY DEF IInv, QueuedAreNew, Range, Spawning
<1>3. UNCHANGED <<work, inbox, handed>> => GivenOnce'
    BY DEF IInv, GivenOnce, Given
<1>4. UNCHANGED <<pending, conn>> => NoLostWakeup'
    BY DEF IInv, NoLostWakeup, Open
<1>5. UNCHANGED <<awaited, outcome, settles>> => Unanswered'
    BY DEF IInv, Unanswered
<1>6. UNCHANGED <<setup, work, session, outcome, finished>> => ReportsAreTrue'
    BY DEF IInv, ReportsAreTrue, Spawning
<1>7. UNCHANGED <<setup, claimed, awaited>> => ClaimsReleased'
    BY DEF IInv, ClaimsReleased, Spawning
<1>8. UNCHANGED <<waking, wakeRuns>> => TurnsHoldSlots'
    BY DEF IInv, TurnsHoldSlots
<1> QED
    BY <1>1, <1>2, <1>3, <1>4, <1>5, <1>6, <1>7, <1>8

LEMMA enqueueStep ==
    ASSUME IInv, NEW i \in Ids, New(i), enqueue(i), UNCHANGED <<setup, work, session, outcome, settles>>
    PROVE  /\ QueueOK(pending)' /\ QueuedAreNew' /\ GivenOnce' /\ NoLostWakeup'
           /\ Unanswered' /\ ClaimsReleased'
           /\ awaited' \subseteq Ids /\ claimed' \subseteq Ids
           /\ conn' \in [Loops -> {"none", "open", "sent"}]
           /\ inbox' \in [Loops -> {"none", "204", "error"} \cup Ids]
           /\ handed' \in [Ids -> Nat]
<1> USE DEF IInv, Shape
<1>1. i \notin Range(pending) /\ ~Given(i)
    BY DEF New, QueuedAreNew, GivenOnce
<1>2. Unanswered'
    BY DEF enqueue, New, Unanswered
<1>3. ASSUME NEW l \in Open, onEnqueue(l, i), awaited' = awaited \cup {i}
      PROVE  /\ QueueOK(pending)' /\ QueuedAreNew' /\ GivenOnce' /\ NoLostWakeup'
             /\ ClaimsReleased'
             /\ awaited' \subseteq Ids /\ claimed' \subseteq Ids
             /\ conn' \in [Loops -> {"none", "open", "sent"}]
             /\ inbox' \in [Loops -> {"none", "204", "error"} \cup Ids]
             /\ handed' \in [Ids -> Nat]
  <2> USE DEF onEnqueue
  <2>0. l \in Loops /\ conn[l] = "open"
      BY <1>3 DEF Open
  <2>1. QueueOK(pending)'
      BY <1>3, Undisturbed
  <2>2. QueuedAreNew'
      BY <1>1, <1>3 DEF QueuedAreNew, Range, Spawning
  <2>3. GivenOnce'
      BY <1>1, <1>3, <2>0 DEF GivenOnce, Given, New
  <2>4. NoLostWakeup'
      BY <1>3, <2>0 DEF NoLostWakeup, Open
  <2>5. ClaimsReleased'
      BY <1>3 DEF ClaimsReleased, Spawning
  <2> QED
      BY <1>3, <2>0, <2>1, <2>2, <2>3, <2>4, <2>5
<1>4. ASSUME Open = {}, pending' = Append(pending, i), UNCHANGED <<claimed, conn, inbox, handed>>,
             awaited' = awaited \cup {i}
      PROVE  /\ QueueOK(pending)' /\ QueuedAreNew' /\ GivenOnce' /\ NoLostWakeup'
             /\ ClaimsReleased'
             /\ awaited' \subseteq Ids /\ claimed' \subseteq Ids
  <2>1. QueueOK(pending)' /\ Range(pending') = Range(pending) \cup {i}
      BY <1>1, <1>4, QueueGrows
  <2>2. QueuedAreNew'
    <3>1. \A j \in Range(pending) \cup {i} :
            /\ handed[j] = 0 /\ session[j] = "none"
            /\ j \in awaited' \/ (Spawning /\ outcome[j] = "aborted")
        BY <1>4 DEF QueuedAreNew, New
    <3> QED
        BY <2>1, <3>1, <1>4 DEF QueuedAreNew, Spawning
  <2>3. GivenOnce'
      BY <1>4, Undisturbed
  <2>4. NoLostWakeup'
      BY <1>4 DEF NoLostWakeup, Open
  <2>5. ClaimsReleased'
      BY <1>4 DEF ClaimsReleased, Spawning
  <2> QED
      BY <1>4, <2>1, <2>2, <2>3, <2>4, <2>5
<1> QED
    BY <1>2, <1>3, <1>4 DEF enqueue

LEMMA RequestStep ==
    ASSUME IInv, NEW l \in Loops, Request(l)
    PROVE  IInv'
<1> USE DEF IInv, Shape, Request
<1>1. Unanswered' /\ ReportsAreTrue' /\ TurnsHoldSlots'
    BY Undisturbed DEF told, wake
<1>2. CASE pending # <<>> /\ claim(l)
  <2> DEFINE i == Head(pending)
  <2>1. /\ QueueOK(pending') /\ i \in Ids /\ i \in Range(pending)
        /\ Range(pending') \subseteq Range(pending) \ {i}
      BY <1>2, QueueYields DEF claim
  <2>2. claimed' = claimed \cup {i} /\ handed' = [handed EXCEPT ![i] = @ + 1]
        /\ conn' = [conn EXCEPT ![l] = "sent"] /\ inbox' = [inbox EXCEPT ![l] = i]
      BY <1>2 DEF claim
  <2>3. handed[i] = 0 /\ (i \in awaited \/ Spawning)
      BY <2>1 DEF QueuedAreNew
  <2> HIDE DEF i
  <2>4. Shape'
      BY <2>1, <2>2 DEF told, wake
  <2>5. QueuedAreNew'
    <3>1. \A j \in Range(pending) \ {i} :
            /\ handed'[j] = 0 /\ session[j] = "none"
            /\ j \in awaited \/ (Spawning /\ outcome[j] = "aborted")
      <4>1. \A j \in Range(pending) \ {i} : handed'[j] = handed[j]
        <5>1. \A j \in Range(pending) : j \in Ids
            BY ElementOfSeq, LenProperties DEF Range, QueueOK
        <5> QED
            BY <2>2, <5>1
      <4> QED
          BY <4>1 DEF QueuedAreNew
    <3> QED
        BY <2>1, <3>1 DEF QueuedAreNew, Spawning, told
  <2>6. GivenOnce'
      BY <2>1, <2>2, <2>3 DEF GivenOnce, Given
  <2>7. NoLostWakeup'
    <3>1. pending # <<>> /\ Open' \subseteq Open
        BY <1>2, <2>2 DEF Open
    <3> QED
        BY <3>1 DEF NoLostWakeup
  <2>8. ClaimsReleased'
      BY <2>2, <2>3 DEF ClaimsReleased, Spawning
  <2> QED
      BY <1>1, <2>1, <2>4, <2>5, <2>6, <2>7, <2>8
<1>3. CASE pending = <<>> /\ conn' = [conn EXCEPT ![l] = "open"]
           /\ UNCHANGED <<pending, claimed, inbox, handed>>
  <2>1. QueueOK(pending)' /\ QueuedAreNew' /\ GivenOnce' /\ ClaimsReleased'
      BY <1>3, Undisturbed DEF told
  <2>2. Shape' /\ NoLostWakeup'
      BY <1>3 DEF told, wake, NoLostWakeup
  <2> QED
      BY <1>1, <2>1, <2>2
<1> QED
    BY <1>2, <1>3 DEF waitOrClaim

(* The steps of loops, connections and services. *)
LEMMA LoopsStep ==
    ASSUME IInv, NEW l \in Loops,
           \/ Keepalive(l) \/ Closed(l) \/ startPollerOnce(l) \/ stopPoller \/ LoopEnds(l)
           \/ NoRequest(l) \/ BackoffOver(l) \/ ConnectionLost(l)
    PROVE  IInv'
<1> USE DEF Keepalive, Closed, startPollerOnce, stopPoller, LoopEnds, NoRequest, BackoffOver, ConnectionLost
<1> USE DEF daemonQueue, told, wake, Returns, Fail
<1>1. /\ QueueOK(pending)' /\ QueuedAreNew' /\ Unanswered' /\ ReportsAreTrue'
      /\ ClaimsReleased' /\ TurnsHoldSlots'
    BY Undisturbed
<1>2. Shape'
    BY DEF IInv, Shape
<1>3. GivenOnce'
  <2>1. UNCHANGED <<work, handed>> /\ \A k \in Loops : inbox'[k] = inbox[k] \/ inbox'[k] \in {"none", "204", "error"}
      BY DEF IInv, Shape
  <2> QED
      BY <2>1, IdsAreNoAnswers DEF IInv, GivenOnce, Given
<1>4. NoLostWakeup'
  <2>1. UNCHANGED pending /\ Open' \subseteq Open
      BY DEF IInv, Shape, Open
  <2> QED
      BY <2>1 DEF IInv, NoLostWakeup
<1> QED
    BY <1>1, <1>2, <1>3, <1>4 DEF IInv

LEMMA ReceiveStep ==
    ASSUME IInv, NEW l \in Loops, NEW i \in Ids, ReceiveSpawn(l, i) \/ ReceiveChat(l, i)
    PROVE  IInv'
<1> USE DEF ReceiveSpawn, ReceiveChat, Begins, Returns, daemonQueue, told
<1>1. /\ QueueOK(pending)' /\ QueuedAreNew' /\ NoLostWakeup' /\ Unanswered' /\ ClaimsReleased'
    BY Undisturbed
<1>2. /\ UNCHANGED <<setup, claimed, awaited, finished, conn, session, outcome, settles, handed>>
      /\ inbox' = [inbox EXCEPT ![l] = "none"] /\ loop' = [loop EXCEPT ![l] = "poll"]
      /\ work' = [work EXCEPT ![i] = "running"] /\ inbox[l] = i
    OBVIOUS
<1>3. GivenOnce'
    BY <1>2, IdsAreNoAnswers DEF IInv, Shape, GivenOnce, Given
<1>4. ReportsAreTrue'
    BY <1>2 DEF IInv, Shape, ReportsAreTrue, Spawning
<1>5. \A k \in Keys : wakeViaEmbeddedRun(k) => TurnsHoldSlots' /\ wakeRuns' \in [Keys -> Nat]
  <2> SUFFICES ASSUME NEW k \in Keys, wakeViaEmbeddedRun(k)
               PROVE  TurnsHoldSlots' /\ wakeRuns' \in [Keys -> Nat]
      OBVIOUS
  <2>1. CASE UNCHANGED wake
      BY <2>1 DEF wake, IInv, Shape, TurnsHoldSlots
  <2>2. CASE k \notin waking /\ waking' = waking \cup {k} /\ wakeRuns' = [wakeRuns EXCEPT ![k] = @ + 1]
    <3>1. wakeRuns[k] = 0
        BY <2>2 DEF IInv, Shape, TurnsHoldSlots
    <3> QED
        BY <2>2, <3>1 DEF IInv, Shape, TurnsHoldSlots
  <2>3. CASE waking' = waking \cup {k} /\ UNCHANGED wakeRuns
      BY <2>3 DEF IInv, Shape, TurnsHoldSlots
  <2> QED
      BY <2>1, <2>2, <2>3 DEF wakeViaEmbeddedRun, mayWake, wake
<1>6. TurnsHoldSlots' /\ wakeRuns' \in [Keys -> Nat]
  <2>1. CASE UNCHANGED wake
      BY <2>1 DEF wake, IInv, Shape, TurnsHoldSlots
  <2>2. CASE wakeViaEmbeddedRun(redirectEphemeralSessionKey(setup.key[i]))
    <3>1. redirectEphemeralSessionKey(setup.key[i]) \in Keys
        BY DEF IInv, Shape, Keys
    <3> QED
        BY <1>5, <2>2, <3>1
  <2> QED
      BY <2>1, <2>2 DEF injectSessionWakeUp, wake
<1>7. Shape'
    BY <1>2, <1>6 DEF IInv, Shape
<1> QED
    BY <1>1, <1>3, <1>4, <1>6, <1>7 DEF IInv

LEMMA AskStep ==
    ASSUME IInv, NEW i \in Ids, spawnSession(i) \/ enqueueAndAwait(i) \/ Retry(i)
    PROVE  IInv'
<1> USE DEF told, wake, daemonQueue
<1>1. CASE Retry(i)
  <2> USE <1>1 DEF Retry
  <2>1. QueueOK(pending)' /\ GivenOnce' /\ NoLostWakeup' /\ ClaimsReleased' /\ TurnsHoldSlots'
      BY Undisturbed
  <2>2. Shape' /\ Unanswered' /\ ReportsAreTrue'
      BY DEF IInv, Shape, Unanswered, ReportsAreTrue, Outcomes, Spawning
  <2>3. QueuedAreNew'
    <3>1. i \notin Range(pending)
        BY DEF IInv, QueuedAreNew, Unanswered
    <3> QED
        BY <3>1 DEF IInv, Shape, QueuedAreNew, Range, Spawning
  <2> QED
      BY <2>1, <2>2, <2>3 DEF IInv
<1>2. CASE New(i) /\ enqueue(i) /\ UNCHANGED <<setup, loop, work, session, outcome, settles, finished, wake>>
  <2> USE <1>2
  <2>1. Shape' /\ ReportsAreTrue' /\ TurnsHoldSlots'
      BY enqueueStep, Undisturbed DEF IInv, Shape
  <2> QED
      BY <2>1, enqueueStep DEF IInv
<1>3. CASE spawnSession(i) /\ ~hasActivePlugin
  <2> USE <1>3 DEF spawnSession
  <2>1. /\ Spawning /\ UNCHANGED <<pending, claimed, conn, inbox, handed, setup, loop, work, settles, finished, wake>>
        /\ \/ session' = [session EXCEPT ![i] = "alive"] /\ awaited' = awaited \cup {i} /\ UNCHANGED outcome
           \/ outcome' = [outcome EXCEPT ![i] = "refused"] /\ UNCHANGED <<session, awaited>>
           \/ outcome' = [outcome EXCEPT ![i] = "held"] /\ UNCHANGED <<session, awaited>>
      BY DEF standaloneSpawn
  <2>2. QueueOK(pending)' /\ GivenOnce' /\ NoLostWakeup' /\ TurnsHoldSlots'
      BY <2>1, Undisturbed
  <2>3. i \notin Range(pending)
      BY DEF IInv, New, QueuedAreNew
  <2>4. QueuedAreNew'
    <3>1. \A j \in Range(pending) : session'[j] = session[j] /\ outcome'[j] = outcome[j] /\ (j \in awaited => j \in awaited')
      <4>1. \A j \in Range(pending) : j \in Ids /\ j # i
          BY <2>3, ElementOfSeq, LenProperties DEF Range, QueueOK, IInv
      <4> QED
          BY <2>1, <4>1 DEF IInv, Shape
    <3> QED
        BY <2>1, <3>1 DEF IInv, QueuedAreNew, Range, Spawning
  <2>5. Shape' /\ Unanswered' /\ ReportsAreTrue' /\ ClaimsReleased'
      BY <2>1 DEF IInv, Shape, Unanswered, ReportsAreTrue, ClaimsReleased, Outcomes, Spawning, New
  <2> QED
      BY <2>2, <2>4, <2>5 DEF IInv
<1> QED
    BY <1>1, <1>2, <1>3 DEF spawnSession, bridgeSpawn, enqueueAndAwait

(* Answers: i was awaited, is not queued any more (or is forced to an end    *)
(* where it stands), and is settled.                                         *)
LEMMA SettleStep ==
    ASSUME IInv, NEW i \in Ids, i \in awaited, NEW how \in {"ok", "failed", "aborted", "timeout"},
           awaited' = awaited \ {i}, Settle(i, how),
           how = "ok" => i \in finished,
           UNCHANGED <<setup, conn, inbox, handed, session, finished, wake>>,
           \A j \in Ids : (work'[j] # "none") = (work[j] # "none") /\ (work'[j] = "post" => work[j] = "post"),
           claimed' = claimed \/ claimed' = claimed \ {i}, ~Spawning => claimed' = claimed \ {i},
           \/ UNCHANGED pending /\ (i \notin Range(pending) \/ (Spawning /\ how = "aborted"))
           \/ dequeue(i)
    PROVE  /\ QueueOK(pending)' /\ QueuedAreNew' /\ GivenOnce' /\ NoLostWakeup' /\ Unanswered'
           /\ ReportsAreTrue' /\ ClaimsReleased' /\ TurnsHoldSlots'
           /\ awaited' \subseteq Ids /\ claimed' \subseteq Ids
           /\ outcome' \in [Ids -> Outcomes] /\ settles' \in [Ids -> Nat]
<1> USE DEF Settle
<1>1. outcome' \in [Ids -> Outcomes] /\ settles' \in [Ids -> Nat]
    BY DEF IInv, Shape, Outcomes
<1>2. Unanswered'
    BY DEF IInv, Shape, Unanswered
<1>3. ReportsAreTrue' /\ ClaimsReleased' /\ GivenOnce'
    BY DEF IInv, Shape, ReportsAreTrue, ClaimsReleased, GivenOnce, Given, Spawning
<1>4. TurnsHoldSlots'
    BY Undisturbed DEF wake
<1>5. /\ QueueOK(pending') /\ Range(pending') \subseteq Range(pending)
      /\ i \notin Range(pending') \/ (Spawning /\ how = "aborted")
      /\ pending' # <<>> => pending # <<>>
  <2>1. CASE UNCHANGED pending /\ (i \notin Range(pending) \/ (Spawning /\ how = "aborted"))
      BY <2>1 DEF IInv
  <2>2. CASE dequeue(i)
    <3>1. QueueOK(pending') /\ Range(pending') = Range(pending) \ {i}
        BY <2>2, QueueForgets DEF IInv
    <3>2. ASSUME pending = <<>> PROVE pending' = <<>>
        BY <2>2, <3>2 DEF dequeue
    <3> QED
        BY <3>1, <3>2
  <2> QED
      BY <2>1, <2>2
<1>6. NoLostWakeup'
    BY <1>5 DEF IInv, NoLostWakeup, Open
<1>7. QueuedAreNew'
  <2>1. \A j \in Range(pending) : j \in Ids
      BY ElementOfSeq, LenProperties DEF Range, QueueOK, IInv
  <2>2. \A j \in Range(pending') :
          /\ handed[j] = 0 /\ session[j] = "none"
          /\ j \in awaited' \/ (Spawning /\ outcome'[j] = "aborted")
      BY <1>5, <2>1 DEF IInv, Shape, QueuedAreNew
  <2> QED
      BY <2>2 DEF QueuedAreNew, Spawning
<1> QED
    BY <1>1, <1>2, <1>3, <1>4, <1>5, <1>6, <1>7 DEF IInv, Shape

LEMMA AnswerStep ==
    ASSUME IInv, NEW i \in Ids, NEW heard \in BOOLEAN,
           \/ chatTimeout(i) \/ forceCompleteSession(i) \/ handleSpawnResult(i, heard)
           \/ handleDeliveryResult(i, heard) \/ pollForCompletion(i, heard) \/ PollGivesUp(i)
    PROVE  IInv'
<1> USE DEF told, wake
<1>1. CASE chatTimeout(i)
  <2> USE <1>1 DEF chatTimeout
  <2>1. /\ QueueOK(pending)' /\ QueuedAreNew' /\ GivenOnce' /\ NoLostWakeup' /\ Unanswered'
        /\ ReportsAreTrue' /\ ClaimsReleased' /\ TurnsHoldSlots'
        /\ awaited' \subseteq Ids /\ claimed' \subseteq Ids
        /\ outcome' \in [Ids -> Outcomes] /\ settles' \in [Ids -> Nat]
      BY SettleStep
  <2> QED
      BY <2>1 DEF IInv, Shape
<1>2. CASE forceCompleteSession(i) /\ bridgeForce(i)
  <2> USE <1>2 DEF forceCompleteSession, bridgeForce
  <2>1. /\ QueueOK(pending)' /\ QueuedAreNew' /\ GivenOnce' /\ NoLostWakeup' /\ Unanswered'
        /\ ReportsAreTrue' /\ ClaimsReleased' /\ TurnsHoldSlots'
        /\ awaited' \subseteq Ids /\ claimed' \subseteq Ids
        /\ outcome' \in [Ids -> Outcomes] /\ settles' \in [Ids -> Nat]
      BY SettleStep
  <2> QED
      BY <2>1 DEF IInv, Shape
<1>3. CASE forceCompleteSession(i) /\ standaloneForce(i)
  <2> USE <1>3 DEF forceCompleteSession, standaloneForce
  <2>1. QueueOK(pending)' /\ GivenOnce' /\ NoLostWakeup' /\ Unanswered' /\ ClaimsReleased' /\ TurnsHoldSlots'
      BY Undisturbed
  <2>2. Shape' /\ ReportsAreTrue'
      BY DEF IInv, Shape, ReportsAreTrue, Spawning
  <2>3. QueuedAreNew'
    <3>1. i \notin Range(pending)
        BY DEF IInv, QueuedAreNew
    <3> QED
        BY <3>1 DEF IInv, Shape, QueuedAreNew, Range, Spawning
  <2> QED
      BY <2>1, <2>2, <2>3 DEF IInv
<1>4. CASE Post(i, heard)
  <2> USE <1>4 DEF Post, deliverResult
  <2>1. i \notin Range(pending)
      BY DEF IInv, GivenOnce, Given, QueuedAreNew
  <2>2. UNCHANGED <<setup, pending, conn, inbox, loop, session, handed, finished, wake>>
      OBVIOUS
  <2>3. /\ work' \in [Ids -> {"none", "running", "post", "postFail", "done"}]
        /\ \A j \in Ids : (work'[j] # "none") = (work[j] # "none") /\ (work'[j] = "post" => work[j] = "post")
      BY DEF IInv, Shape
  <2>4. CASE i \in awaited
    <3> DEFINE how == IF work[i] = "post" THEN "ok" ELSE "failed"
    <3>1. how \in {"ok", "failed", "aborted", "timeout"} /\ (how = "ok" => i \in finished)
        BY DEF IInv, ReportsAreTrue
    <3>2. awaited' = awaited \ {i} /\ Settle(i, how)
        BY <2>4
    <3>3. (claimed' = claimed \/ claimed' = claimed \ {i}) /\ (~Spawning => claimed' = claimed \ {i})
        BY <2>4 DEF claimsAfter
    <3> HIDE <1>4 DEF how, Post, deliverResult
    <3>4. /\ QueueOK(pending)' /\ QueuedAreNew' /\ GivenOnce' /\ NoLostWakeup' /\ Unanswered'
          /\ ReportsAreTrue' /\ ClaimsReleased' /\ TurnsHoldSlots'
          /\ awaited' \subseteq Ids /\ claimed' \subseteq Ids
          /\ outcome' \in [Ids -> Outcomes] /\ settles' \in [Ids -> Nat]
        BY <2>1, <2>2, <2>3, <2>4, <3>1, <3>2, <3>3, SettleStep
    <3> QED
        BY <2>2, <2>3, <3>4 DEF IInv, Shape
  <2>5. CASE i \notin awaited
    <3>1. UNCHANGED <<awaited, claimed, outcome, settles>>
        BY <2>5
    <3>2. /\ QueueOK(pending)' /\ QueuedAreNew' /\ NoLostWakeup' /\ Unanswered' /\ ClaimsReleased' /\ TurnsHoldSlots'
        BY <2>2, <3>1, Undisturbed
    <3>3. Shape' /\ GivenOnce' /\ ReportsAreTrue'
        BY <2>2, <2>3, <3>1 DEF IInv, Shape, GivenOnce, Given, ReportsAreTrue, Spawning
    <3> QED
        BY <3>2, <3>3 DEF IInv
  <2> QED
      BY <2>4, <2>5
<1>5. CASE pollForCompletion(i, heard) \/ PollGivesUp(i)
  <2> DEFINE how == IF pollForCompletion(i, heard) THEN reportsEnd(i, heard) ELSE "aborted"
  <2>1. /\ i \in awaited /\ session[i] # "none" /\ awaited' = awaited \ {i}
        /\ UNCHANGED <<setup, pending, claimed, conn, inbox, loop, work, session, handed, finished, wake>>
      BY <1>5 DEF pollForCompletion, PollGivesUp
  <2>2. Settle(i, how)
      BY <1>5 DEF pollForCompletion, PollGivesUp
  <2>3. how \in {"ok", "failed", "aborted", "timeout"} /\ (how = "ok" => i \in finished)
      BY DEF IInv, ReportsAreTrue, reportsEnd
  <2> HIDE DEF how
  <2>4. Spawning /\ i \notin Range(pending)
      BY <2>1 DEF IInv, ReportsAreTrue, QueuedAreNew
  <2>5. /\ QueueOK(pending)' /\ QueuedAreNew' /\ GivenOnce' /\ NoLostWakeup' /\ Unanswered'
        /\ ReportsAreTrue' /\ ClaimsReleased' /\ TurnsHoldSlots'
        /\ awaited' \subseteq Ids /\ claimed' \subseteq Ids
        /\ outcome' \in [Ids -> Outcomes] /\ settles' \in [Ids -> Nat]
      BY <2>1, <2>2, <2>3, <2>4, SettleStep
  <2> QED
      BY <2>1, <2>5 DEF IInv, Shape
<1> QED
    BY <1>1, <1>2, <1>3, <1>4, <1>5
    DEF forceCompleteSession, handleSpawnResult, handleDeliveryResult

(* The plugin works, a turn ends, a post is lost, a session ends. *)
LEMMA WorkStep ==
    ASSUME IInv, NEW i \in Ids,
           \/ runAgentFromSpawnRequest(i)
           \/ \E ok \in BOOLEAN : sendChatDelivery(i, ok) \/ SessionEnds(i, ok)
           \/ PostLost(i)
    PROVE  IInv'
<1> USE DEF daemonQueue, told, wake
<1>1. /\ UNCHANGED <<setup, pending, claimed, awaited, conn, inbox, loop, outcome, settles, handed, wake>>
      /\ work[i] # "none" \/ work' = work
      /\ session' \in [Ids -> {"none", "alive", "completed", "dead"}]
      /\ \A j \in Ids : session'[j] # session[j] => session[j] = "alive"
      /\ \A j \in Ids : session[j] = "none" => session'[j] = "none"
      /\ \A j \in Ids : session'[j] = "completed" /\ session[j] # "completed" => j \in finished'
      /\ work' \in [Ids -> {"none", "running", "post", "postFail", "done"}]
      /\ \A j \in Ids : (work'[j] # "none") = (work[j] # "none")
      /\ \A j \in Ids : work'[j] = "post" /\ work[j] # "post" => j \in finished'
      /\ finished \subseteq finished' /\ finished' \subseteq Ids
  <2>1. CASE \E to \in {"post", "postFail"}, ok \in BOOLEAN :
               work[i] = "running" /\ Comes(i, to, ok) /\ (to = "post" => ok)
      BY <2>1 DEF IInv, Shape, Comes
  <2>2. CASE PostLost(i)
      BY <2>2 DEF IInv, Shape, PostLost
  <2>3. CASE \E ok \in BOOLEAN : SessionEnds(i, ok)
      BY <2>3 DEF IInv, Shape, SessionEnds
  <2>4. runAgentFromSpawnRequest(i) \/ (\E ok \in BOOLEAN : sendChatDelivery(i, ok)) =>
            \E to \in {"post", "postFail"}, ok \in BOOLEAN :
               work[i] = "running" /\ Comes(i, to, ok) /\ (to = "post" => ok)
      BY DEF runAgentFromSpawnRequest, prepareEmbeddedRun, withSetupTimeout, executeEmbeddedRun,
             sendChatDelivery, afterSend
  <2> QED
      BY <2>1, <2>2, <2>3, <2>4
<1>2. QueueOK(pending)' /\ NoLostWakeup' /\ Unanswered' /\ ClaimsReleased' /\ TurnsHoldSlots'
    BY <1>1, Undisturbed
<1>3. Shape' /\ GivenOnce' /\ ReportsAreTrue'
    BY <1>1 DEF IInv, Shape, GivenOnce, Given, ReportsAreTrue, Spawning
<1>4. QueuedAreNew'
  <2>1. \A j \in Range(pending) : j \in Ids
      BY ElementOfSeq, LenProperties DEF Range, QueueOK, IInv
  <2> QED
      BY <1>1, <2>1 DEF IInv, QueuedAreNew, Range, Spawning
<1> QED
    BY <1>2, <1>3, <1>4 DEF IInv

LEMMA WakeStep ==
    ASSUME IInv, NEW k \in Keys, WakeEnds(k)
    PROVE  IInv'
<1> USE DEF WakeEnds, wakeFinally, daemonQueue, told
<1>1. /\ QueueOK(pending)' /\ QueuedAreNew' /\ GivenOnce' /\ NoLostWakeup' /\ Unanswered'
      /\ ReportsAreTrue' /\ ClaimsReleased'
    BY Undisturbed
<1>2. wakeRuns[k] = 1
    BY DEF IInv, Shape, TurnsHoldSlots
<1>3. Shape' /\ TurnsHoldSlots'
    BY <1>2 DEF IInv, Shape, TurnsHoldSlots
<1> QED
    BY <1>1, <1>3 DEF IInv

LEMMA RestartStep ==
    ASSUME IInv, DaemonRestart \/ PluginRestart
    PROVE  IInv'
<1> USE DEF daemonQueue, told, wake
<1>1. CASE DaemonRestart
  <2> USE <1>1 DEF DaemonRestart
  <2>1. TurnsHoldSlots'
      BY Undisturbed
  <2>2. QueueOK(pending') /\ Range(pending') = {}
      BY EmptySeq DEF QueueOK, Range
  <2>3. QueuedAreNew' /\ NoLostWakeup' /\ ClaimsReleased'
      BY <2>2 DEF QueuedAreNew, NoLostWakeup, ClaimsReleased
  <2>4. Shape' /\ Unanswered' /\ ReportsAreTrue'
      BY DEF IInv, Shape, Unanswered, ReportsAreTrue, Outcomes, Spawning
  <2>5. GivenOnce'
      BY IdsAreNoAnswers DEF IInv, GivenOnce, Given
  <2> QED
      BY <2>1, <2>2, <2>3, <2>4, <2>5 DEF IInv
<1>2. CASE PluginRestart
  <2> USE <1>2 DEF PluginRestart
  <2>1. QueueOK(pending)' /\ Unanswered' /\ ClaimsReleased'
      BY Undisturbed
  <2>2. Shape' /\ GivenOnce' /\ ReportsAreTrue'
      BY IdsAreNoAnswers DEF IInv, Shape, GivenOnce, Given, ReportsAreTrue, Spawning
  <2>3. TurnsHoldSlots' /\ NoLostWakeup'
      BY DEF TurnsHoldSlots, NoLostWakeup, Open
  <2>4. QueuedAreNew'
    <3>1. \A j \in Range(pending) : j \in Ids
        BY ElementOfSeq, LenProperties DEF Range, QueueOK, IInv
    <3> QED
        BY <3>1 DEF IInv, QueuedAreNew, Range, Spawning
  <2> QED
      BY <2>1, <2>2, <2>3, <2>4 DEF IInv
<1> QED
    BY <1>1, <1>2

LEMMA InitialInv ==
    Init => IInv
<1> SUFFICES ASSUME Init PROVE IInv
    OBVIOUS
<1> USE DEF Init
<1>1. QueueOK(pending) /\ Range(pending) = {}
    BY EmptySeq DEF QueueOK, Range
<1>2. Shape
    BY DEF Shape, Outcomes
<1>3. QueuedAreNew /\ NoLostWakeup /\ ClaimsReleased /\ TurnsHoldSlots
    BY <1>1 DEF QueuedAreNew, NoLostWakeup, ClaimsReleased, TurnsHoldSlots
<1>4. GivenOnce /\ Unanswered /\ ReportsAreTrue
    BY IdsAreNoAnswers DEF GivenOnce, Given, Unanswered, ReportsAreTrue
<1> QED
    BY <1>1, <1>2, <1>3, <1>4 DEF IInv

LEMMA StepInv ==
    IInv /\ [Next]_vars => IInv'
<1> SUFFICES ASSUME IInv, [Next]_vars PROVE IInv'
    OBVIOUS
<1>1. CASE UNCHANGED vars
  <2>1. QueueOK(pending)' /\ QueuedAreNew' /\ GivenOnce' /\ NoLostWakeup' /\ Unanswered'
        /\ ReportsAreTrue' /\ ClaimsReleased' /\ TurnsHoldSlots'
      BY <1>1, Undisturbed DEF vars
  <2> QED
      BY <1>1, <2>1 DEF vars, IInv, Shape
<1>2. ASSUME NEW l \in Loops, LoopStep(l) \/ Keepalive(l) \/ startPollerOnce(l) \/ ConnectionLost(l)
      PROVE  IInv'
    BY <1>2, RequestStep, LoopsStep, ReceiveStep DEF LoopStep, handleSpawnWait, handleDeliveryWait
<1>3. ASSUME NEW i \in Ids, spawnSession(i) \/ enqueueAndAwait(i) \/ Retry(i)
      PROVE  IInv'
    BY <1>3, AskStep
<1>4. ASSUME NEW i \in Ids, NEW heard \in BOOLEAN,
             \/ chatTimeout(i) \/ forceCompleteSession(i) \/ handleSpawnResult(i, heard)
             \/ handleDeliveryResult(i, heard) \/ pollForCompletion(i, heard) \/ PollGivesUp(i)
      PROVE  IInv'
    BY <1>4, AnswerStep
<1>5. ASSUME NEW i \in Ids,
             \/ runAgentFromSpawnRequest(i)
             \/ \E ok \in BOOLEAN : sendChatDelivery(i, ok) \/ SessionEnds(i, ok)
             \/ PostLost(i)
      PROVE  IInv'
    BY <1>5, WorkStep
<1>6. ASSUME stopPoller PROVE IInv'
  <2>1. QueueOK(pending)' /\ QueuedAreNew' /\ GivenOnce' /\ NoLostWakeup' /\ Unanswered'
        /\ ReportsAreTrue' /\ ClaimsReleased' /\ TurnsHoldSlots'
      BY <1>6, Undisturbed DEF stopPoller, daemonQueue, told, wake
  <2> QED
      BY <1>6, <2>1 DEF stopPoller, daemonQueue, told, wake, IInv, Shape
<1>7. CASE Next
    BY <1>7, <1>2, <1>3, <1>4, <1>5, <1>6, WakeStep, RestartStep DEF Next, Worked, Watched
<1> QED
    BY <1>1, <1>7

LEMMA InvImpliesProperty ==
    IInv => OneTrueAnswer
BY DEF IInv, Shape, QueueOK, GivenOnce, Unanswered, ReportsAreTrue, TurnsHoldSlots,
       OneTrueAnswer, TypeOK, AnsweredOnce, HandedOnce, SuccessIsReal, OneWake

(* Through late and repeated posts, timeouts, forced completions, broken     *)
(* connections, reloads and restarts of either side, a request is queued     *)
(* once, given to one loop and answered at most once (spawn-queue.ts,        *)
(* chat-delivery-queue.ts, plugin-bridge-adapter.ts).                        *)
THEOREM Invariance == Spec => []IInv
BY InitialInv, StepInv, PTL DEF Spec

(* One plugin works on a request, one answer counts, and it is true; no      *)
(* request waits in the queue beside a waiting loop (spawn-wait.ts); the     *)
(* claim of a settled delivery is forgotten; one wake turn per session       *)
(* (chat-delivery-poller.ts).                                                *)
THEOREM Answered == Spec => []OneTrueAnswer
BY Invariance, InvImpliesProperty, PTL

=============================================================================
