--------------------------- MODULE OversightProofs ---------------------------
(* Proofs about the components of MCOversight whose invariants its run checks,  *)
(* for every setup of theirs.                                                   *)
EXTENDS MCOversight, FiniteSetTheorems, SequenceTheorems, WellFoundedInduction, TLAPS

(* A behaviour stays with its part, and its steps are steps of that part. *)
LEMMA OnePart ==
    ASSUME [Next]_vars
    PROVE  /\ part' = part
           /\ part = "batcher" => [B!Next]_(B!vars)
           /\ part = "tiers" => [T!Next]_(T!vars)
           /\ part = "curation" => [C!Next]_(C!vars)
           /\ part = "messages" => [P!Next]_(P!vars)
           /\ part = "watch" => [W!Next]_(W!vars)
           /\ part = "views" => [V!Next]_(V!vars)
           /\ part = "routes" => [R!Next]_(R!vars)
  <1>1. CASE UNCHANGED vars
    BY <1>1 DEF vars, routeVars, B!vars, T!vars, C!vars, P!vars, W!vars, V!vars, R!vars
  <1>2. CASE Next
    BY <1>2 DEF Next, MNext, MStep, NNext, NStep, BNext, TNext, CNext, INext, IStep, PNext, WNext, VNext, RNext, KNext
  <1> QED
    BY <1>1, <1>2

-----------------------------------------------------------------------------
(* Resource subscriptions.  A session that was not told of the last change has  *)
(* something under way for it: the place of the task is on its way through the  *)
(* watcher, a report waits for its resource names, or a send is due.            *)

UnderWay(s) ==
    \/ place \in events \cup pendingPaths \cup UNION flushes
    \/ reports # {} \/ pending \/ s \in UNION sends

WInv ==
    /\ behind \subseteq subscribed
    /\ pc # "watching" => subscribed = {}
    /\ pendingPaths # {} => timer
    /\ pending \in BOOLEAN /\ timer2 \in BOOLEAN /\ (pending => timer2)
    /\ \A s \in behind \ broken : UnderWay(s)

LEMMA WatchInit == W!Init => WInv
  BY DEF W!Init, WInv

(* Taking an element out of one set of a collection leaves the others. *)
LEMMA Left ==
    ASSUME NEW fs, NEW f \in fs, NEW x, NEW y \in UNION fs, y # x
    PROVE  y \in UNION ((fs \ {f}) \cup ({f \ {x}} \ {{}}))
  <1>1. PICK g \in fs : y \in g
    OBVIOUS
  <1>2. CASE g = f
    <2>1. y \in f \ {x} /\ f \ {x} \in (fs \ {f}) \cup ({f \ {x}} \ {{}})
      BY <1>1, <1>2
    <2> QED
      BY <2>1
  <1> QED
    BY <1>1, <1>2

LEMMA WatchStep ==
    ASSUME WInv, [W!Next]_(W!vars)
    PROVE  WInv'
  <1>1. CASE UNCHANGED W!vars
    BY <1>1 DEF W!vars, WInv, UnderWay
  <1>2. CASE W!Edit
    BY <1>2 DEF W!Edit, W!Happened, W!Spend, W!watcherVars, W!managerVars, WInv, UnderWay
  <1>3. ASSUME NEW p \in Places, W!Move(p) PROVE WInv'
    BY <1>3 DEF W!Move, W!Happened, W!Spend, W!watcherVars, W!managerVars, WInv, UnderWay
  <1>4. CASE W!initializeFileStates \/ W!watch
    BY <1>4 DEF W!initializeFileStates, W!watch, W!managerVars, WInv, UnderWay
  <1>5. ASSUME NEW p \in Places, W!Deliver(p) PROVE WInv'
    BY <1>5 DEF W!Deliver, W!managerVars, WInv, UnderWay
  <1>6. CASE W!flushPendingEvents
    BY <1>6 DEF W!flushPendingEvents, W!TakePaths, W!managerVars, WInv, UnderWay
  <1>7. ASSUME NEW f \in flushes, NEW p \in f, W!processPath(f, p) PROVE WInv'
    <2>1. /\ flushes' = (flushes \ {f}) \cup ({f \ {p}} \ {{}})
          /\ UNCHANGED <<place, events, pc, pendingPaths, timer, pending, timer2, sends, subscribed, behind, broken>>
          /\ reports' = reports \cup {p} \/ (reports' = reports /\ p # place)
      BY <1>7 DEF W!processPath, W!Report
    <2>2. ASSUME NEW s \in behind \ broken PROVE UnderWay(s)'
      <3>1. UnderWay(s)
        BY DEF WInv
      <3>2. CASE reports' # {}
        BY <3>2 DEF UnderWay
      <3>3. CASE reports' = {}
        <4>1. reports = {} /\ p # place
          BY <2>1, <3>3
        <4>2. place \in UNION flushes => place \in UNION (flushes')
          BY <2>1, <4>1, Left
        <4> QED
          BY <2>1, <3>1, <4>1, <4>2 DEF UnderWay
      <3> QED
        BY <3>2, <3>3
    <2> QED
      BY <2>1, <2>2 DEF WInv
  <1>8. ASSUME NEW p \in reports, W!handleWatchEvent(p) PROVE WInv'
    BY <1>8 DEF W!handleWatchEvent, W!watcherVars, WInv, UnderWay
  <1>9. CASE W!flushPending
    <2>1. /\ timer2' = FALSE /\ pending' = FALSE /\ sends' = sends \cup ({subscribed} \ {{}})
          /\ UNCHANGED <<place, events, pc, pendingPaths, timer, flushes, reports, subscribed, behind, broken>>
      BY <1>9 DEF W!flushPending, W!watcherVars
    <2>2. ASSUME NEW s \in behind \ broken PROVE UnderWay(s)'
      <3>1. subscribed \in sends' /\ s \in subscribed
        BY <2>1 DEF WInv
      <3> QED
        BY <3>1 DEF UnderWay
    <2> QED
      BY <2>1, <2>2 DEF WInv
  <1>10. ASSUME NEW f \in sends, NEW s \in f, W!sendNotification(f, s) PROVE WInv'
    <2>1. UNCHANGED <<place, events, pc, pendingPaths, timer, flushes, reports, pending, timer2, subscribed>>
      BY <1>10 DEF W!sendNotification, W!watcherVars
    <2>2. CASE sends' = (sends \ {f}) \cup ({f \ {s}} \ {{}}) /\ behind' = behind \ {s} /\ UNCHANGED broken
      <3>1. \A r \in UNION sends : r # s => r \in UNION (sends')
        BY <2>2, Left
      <3> QED
        BY <2>1, <2>2, <3>1 DEF WInv, UnderWay
    <2>3. CASE sends' = sends \ {f} /\ broken' = broken \cup f /\ UNCHANGED behind
      <3>1. \A r \in UNION sends : r \notin f => r \in UNION (sends')
        BY <2>3
      <3> QED
        BY <2>1, <2>3, <3>1 DEF WInv, UnderWay
    <2> QED
      BY <1>10, <2>2, <2>3 DEF W!sendNotification
  <1>11. ASSUME NEW s \in Sessions, W!subscribe(s) PROVE WInv'
    BY <1>11 DEF W!subscribe, W!Spend, W!watcherVars, W!managerVars, WInv, UnderWay
  <1>12. ASSUME NEW s \in Sessions, W!unsubscribe(s) PROVE WInv'
    <2>1. /\ subscribed' = subscribed \ {s} /\ behind' = behind \ {s} /\ sends' = {f \ {s} : f \in sends} \ {{}}
          /\ UNCHANGED <<place, events, pc, pendingPaths, timer, flushes, reports, pending, timer2, broken>>
      BY <1>12 DEF W!unsubscribe, W!watcherVars
    <2>2. ASSUME NEW r \in UNION sends, r # s PROVE r \in UNION (sends')
      <3>1. PICK f \in sends : r \in f
        OBVIOUS
      <3>2. f \ {s} \in sends'
        BY <2>1, <2>2, <3>1
      <3> QED
        BY <2>2, <3>1, <3>2
    <2> QED
      BY <2>1, <2>2 DEF WInv, UnderWay
  <1> QED
    BY <1>1, <1>2, <1>3, <1>4, <1>5, <1>6, <1>7, <1>8, <1>9, <1>10, <1>11, <1>12 DEF W!Next, W!Watcher, W!Manager

LEMMA WatchHolds == WInv => W!TaskTold
  BY DEF WInv, UnderWay, W!TaskTold, W!AtRest

-----------------------------------------------------------------------------
(* The storm batcher.  A message is in one place: it waits, once, in the list   *)
(* of its type; it is leaving, in one group of one flush; or its send is over.  *)

In(q) == {q[k] : k \in DOMAIN q}
(* What a flush has still to send. *)
Carried(gs) == UNION {In(g.left) : g \in gs}
Once(q) == \A j, k \in DOMAIN q : q[j] = q[k] => j = k

BGroup(g) ==
    /\ g \in [type : B!EventTypes, left : Seq(StormMessages), size : Nat]
    /\ g.left # <<>> /\ Once(g.left)
    /\ \A m \in In(g.left) : TypeOf[m] = g.type

BTypeOK ==
    /\ pending \in [B!EventTypes -> Seq(StormMessages)]
    /\ \A e \in B!EventTypes : Once(pending[e]) /\ \A m \in In(pending[e]) : TypeOf[m] = e
    /\ \A gs \in flushes : \A g \in gs : BGroup(g)
    /\ fresh \subseteq StormMessages

(* No message is in two groups. *)
BApart ==
    /\ \A gs \in flushes : \A g, h \in gs : g # h => g.type # h.type
    /\ \A gs, hs \in flushes : gs # hs => \A g \in gs, h \in hs : In(g.left) \cap In(h.left) = {}

BInv ==
    /\ BTypeOK /\ BApart /\ B!NoneForgotten
    /\ fresh \cap (B!Waiting \cup B!Leaving \cup heard \cup lost) = {}

(* The two names of what is waiting and leaving. *)
LEMMA Places2 ==
    /\ B!Waiting = UNION {In(pending[e]) : e \in B!EventTypes}
    /\ B!Leaving = UNION {Carried(gs) : gs \in flushes}
    /\ \A q : B!Range(q) = In(q)
  BY DEF B!Waiting, B!Leaving, B!Range, In, Carried

LEMMA BatcherInit == B!Init => BInv
  <1> SUFFICES ASSUME B!Init PROVE BInv
    OBVIOUS
  <1>1. /\ fresh = StormMessages /\ pending = [e \in B!EventTypes |-> <<>>]
        /\ flushes = {} /\ heard = {} /\ lost = {}
    BY DEF B!Init
  <1>2. DOMAIN << >> = {} /\ << >> \in Seq(StormMessages)
    OBVIOUS
  <1>3. B!Waiting = {} /\ B!Leaving = {}
    BY <1>1, <1>2, Places2 DEF In, Carried
  <1> QED
    BY <1>1, <1>2, <1>3 DEF BInv, BTypeOK, BApart, B!NoneForgotten, In, Once

(* What a message at the end of a list adds. *)
LEMMA Queued ==
    ASSUME NEW q \in Seq(StormMessages), Once(q), NEW m \in StormMessages \ In(q)
    PROVE  /\ Append(q, m) \in Seq(StormMessages) /\ Once(Append(q, m))
           /\ In(Append(q, m)) = In(q) \cup {m}
  <1> DEFINE r == Append(q, m)
  <1>1. /\ r \in Seq(StormMessages) /\ Len(r) = Len(q) + 1 /\ r[Len(q) + 1] = m
        /\ \A k \in 1..Len(q) : r[k] = q[k]
    BY AppendProperties
  <1>2. DOMAIN q = 1..Len(q) /\ DOMAIN r = 1..(Len(q) + 1) /\ Len(q) \in Nat
    BY <1>1, LenProperties
  <1> HIDE DEF r
  <1>3. \A k \in DOMAIN r : k = Len(q) + 1 \/ k \in DOMAIN q
    BY <1>2
  <1>4. In(r) = In(q) \cup {m}
    BY <1>1, <1>2, <1>3 DEF In
  <1>5. \A k \in DOMAIN q : q[k] # m
    BY DEF In
  <1>6. Once(r)
    <2> SUFFICES ASSUME NEW j \in DOMAIN r, NEW k \in DOMAIN r, r[j] = r[k] PROVE j = k
      BY DEF Once
    <2>1. CASE j \in DOMAIN q /\ k \in DOMAIN q
      BY <1>1, <1>2, <2>1 DEF Once
    <2>2. CASE j = Len(q) + 1 \/ k = Len(q) + 1
      BY <1>1, <1>2, <1>3, <1>5, <2>2
    <2> QED
      BY <1>3, <2>1, <2>2
  <1> QED
    BY <1>1, <1>4, <1>6 DEF r

(* A list is empty when nothing is in it. *)
LEMMA NonEmpty ==
    ASSUME NEW q \in Seq(StormMessages)
    PROVE  q = <<>> <=> In(q) = {}
  <1>1. q # <<>> => 1 \in DOMAIN q
    BY EmptySeq, LenProperties
  <1>2. DOMAIN << >> = {}
    OBVIOUS
  <1> QED
    BY <1>1, <1>2 DEF In

(* What sending the first message of a list leaves. *)
LEMMA Unqueued ==
    ASSUME NEW q \in Seq(StormMessages), q # <<>>, Once(q)
    PROVE  /\ Tail(q) \in Seq(StormMessages) /\ Once(Tail(q))
           /\ Head(q) \in In(q) /\ In(Tail(q)) = In(q) \ {Head(q)}
  <1> DEFINE r == Tail(q)
  <1>1. r \in Seq(StormMessages) /\ Len(r) = Len(q) - 1 /\ \A k \in 1..Len(r) : r[k] = q[k + 1]
    BY HeadTailProperties
  <1>2. Len(q) \in Nat \ {0} /\ DOMAIN q = 1..Len(q) /\ DOMAIN r = 1..(Len(q) - 1) /\ Head(q) = q[1]
    BY <1>1, LenProperties, EmptySeq
  <1> HIDE DEF r
  <1>3. 1 \in DOMAIN q
    BY <1>2
  <1>4. ASSUME NEW k \in DOMAIN r PROVE k + 1 \in DOMAIN q /\ k + 1 # 1 /\ r[k] = q[k + 1]
    <2>1. k \in 1..(Len(q) - 1)
      BY <1>2
    <2>2. r[k] = q[k + 1]
      BY <1>1, <2>1
    <2>3. k + 1 \in 1..Len(q) /\ k + 1 # 1
      BY <1>2, <2>1
    <2> QED
      BY <1>2, <2>2, <2>3
  <1>5. ASSUME NEW k \in DOMAIN q, k # 1 PROVE k - 1 \in DOMAIN r /\ r[k - 1] = q[k]
    <2>1. k \in 2..Len(q)
      BY <1>2, <1>5
    <2>2. k - 1 \in 1..(Len(q) - 1) /\ (k - 1) + 1 = k
      BY <1>2, <2>1
    <2> QED
      BY <1>2, <1>4, <2>2
  <1>6. Once(r)
    <2> SUFFICES ASSUME NEW j \in DOMAIN r, NEW k \in DOMAIN r, r[j] = r[k] PROVE j = k
      BY DEF Once
    <2>1. j + 1 = k + 1
      BY <1>4 DEF Once
    <2> QED
      BY <1>2, <2>1
  <1>7. \A k \in DOMAIN r : r[k] \in In(q) /\ r[k] # Head(q)
    <2> TAKE k \in DOMAIN r
    <2>1. k + 1 \in DOMAIN q /\ k + 1 # 1 /\ r[k] = q[k + 1]
      BY <1>4
    <2>2. q[k + 1] # q[1]
      BY <1>3, <2>1 DEF Once
    <2> QED
      BY <1>2, <2>1, <2>2 DEF In
  <1>8. \A m \in In(q) \ {Head(q)} : m \in In(r)
    <2> TAKE m \in In(q) \ {Head(q)}
    <2>1. PICK k \in DOMAIN q : q[k] = m
      BY DEF In
    <2>2. k # 1
      BY <1>2, <2>1
    <2> QED
      BY <1>5, <2>1, <2>2 DEF In
  <1>9. In(r) = In(q) \ {Head(q)} /\ Head(q) \in In(q)
    BY <1>2, <1>3, <1>7, <1>8 DEF In
  <1> QED
    BY <1>1, <1>6, <1>9 DEF r

(* A list of one type or more is taken as it is. *)
LEMMA Taken ==
    ASSUME BInv, B!TakeAll, UNCHANGED <<fresh, heard, lost>>
    PROVE  BInv'
  <1> DEFINE Gs == B!Groups
  <1>1. /\ flushes' = flushes \cup (IF Gs = {} THEN {} ELSE {Gs})
        /\ pending' = [e \in B!EventTypes |-> <<>>]
    BY DEF B!TakeAll
  <1>2. ASSUME NEW g \in Gs
        PROVE  /\ BGroup(g) /\ g.type \in B!EventTypes
               /\ g = [type |-> g.type, left |-> pending[g.type], size |-> Len(pending[g.type])]
    <2>1. PICK e \in B!EventTypes : pending[e] # <<>> /\ g = [type |-> e, left |-> pending[e], size |-> Len(pending[e])]
      BY DEF B!Groups
    <2>2. pending[e] \in Seq(StormMessages) /\ Len(pending[e]) \in Nat
      BY LenProperties DEF BInv, BTypeOK
    <2>3. g.type = e /\ g.left = pending[e]
      BY <2>1
    <2>4. g \in [type : B!EventTypes, left : Seq(StormMessages), size : Nat]
      BY <2>1, <2>2
    <2>5. Once(pending[e]) /\ \A m \in In(pending[e]) : TypeOf[m] = e
      BY DEF BInv, BTypeOK
    <2> QED
      BY <2>1, <2>3, <2>4, <2>5 DEF BGroup
  <1>3. Carried(Gs) = B!Waiting
    <2>1. ASSUME NEW e \in B!EventTypes, NEW m \in In(pending[e]) PROVE \E g \in Gs : m \in In(g.left)
      <3>1. pending[e] # <<>>
        BY <2>1 DEF In
      <3>2. [type |-> e, left |-> pending[e], size |-> Len(pending[e])] \in Gs
        BY <3>1 DEF B!Groups
      <3> QED
        BY <2>1, <3>2
    <2>2. ASSUME NEW g \in Gs PROVE g.left = pending[g.type] /\ g.type \in B!EventTypes
      BY <1>2
    <2> QED
      BY <2>1, <2>2, Places2 DEF Carried
  <1> HIDE DEF Gs
  <1>4. B!Leaving' = B!Leaving \cup B!Waiting
    <2>1. B!Leaving' = UNION {Carried(gs) : gs \in flushes'}
      BY DEF B!Leaving, B!Waiting, B!Range, In, Carried
    <2>2. CASE Gs = {}
      <3>1. B!Waiting = {} /\ flushes' = flushes
        BY <1>1, <1>3, <2>2 DEF Carried
      <3> QED
        BY <2>1, <3>1, Places2
    <2>3. CASE Gs # {}
      <3>1. flushes' = flushes \cup {Gs}
        BY <1>1, <2>3
      <3>2. UNION {Carried(gs) : gs \in flushes \cup {Gs}} = (UNION {Carried(gs) : gs \in flushes}) \cup Carried(Gs)
        OBVIOUS
      <3> QED
        BY <1>3, <2>1, <3>1, <3>2, Places2
    <2> QED
      BY <2>2, <2>3
  <1>5. B!Waiting' = {}
    <2>1. B!Waiting' = UNION {In(pending'[e]) : e \in B!EventTypes}
      BY DEF B!Leaving, B!Waiting, B!Range, In, Carried
    <2>2. DOMAIN << >> = {}
      OBVIOUS
    <2> QED
      BY <1>1, <2>1, <2>2 DEF In
  <1>6. BTypeOK'
    <2>1. << >> \in Seq(StormMessages) /\ DOMAIN << >> = {}
      OBVIOUS
    <2> QED
      BY <1>1, <1>2, <2>1 DEF BInv, BTypeOK, Once, In
  <1>7. BApart'
    <2>1. \A g, h \in Gs : g # h => g.type # h.type
      <3> SUFFICES ASSUME NEW g \in Gs, NEW h \in Gs, g.type = h.type PROVE g = h
        OBVIOUS
      <3> QED
        BY <1>2
    <2>2. ASSUME NEW g \in Gs, NEW hs \in flushes, NEW h \in hs PROVE In(g.left) \cap In(h.left) = {}
      <3>1. In(g.left) \subseteq B!Waiting /\ In(h.left) \subseteq B!Leaving
        BY <1>3, Places2 DEF Carried
      <3>2. B!Waiting \cap B!Leaving = {}
        BY DEF BInv, B!NoneForgotten
      <3> QED
        BY <3>1, <3>2
    <2>3. \A hs \in flushes' : hs \in flushes \/ hs = Gs
      BY <1>1
    <2>4. \A hs \in flushes' : \A g, h \in hs : g # h => g.type # h.type
      BY <2>1, <2>3 DEF BInv, BApart
    <2>5. ASSUME NEW hs \in flushes', NEW is \in flushes', hs # is, NEW g \in hs, NEW h \in is
          PROVE  In(g.left) \cap In(h.left) = {}
      <3>1. CASE hs = Gs
        BY <2>2, <2>3, <2>5, <3>1
      <3>2. CASE is = Gs
        BY <2>2, <2>3, <2>5, <3>2
      <3>3. CASE hs \in flushes /\ is \in flushes
        BY <2>5, <3>3 DEF BInv, BApart
      <3> QED
        BY <2>3, <3>1, <3>2, <3>3
    <2> QED
      BY <2>4, <2>5 DEF BApart
  <1>8. B!NoneForgotten' /\ (fresh \cap (B!Waiting \cup B!Leaving \cup heard \cup lost) = {})'
    BY <1>4, <1>5 DEF BInv, B!NoneForgotten
  <1> QED
    BY <1>6, <1>7, <1>8 DEF BInv

(* A send takes its messages out of one group; an empty group goes, and so does *)
(* a flush without groups.                                                      *)
LEMMA Sent ==
    ASSUME BInv, NEW gs \in flushes, NEW g \in gs, NEW ms, NEW left \in Seq(StormMessages),
           Once(left), In(left) = In(g.left) \ ms, ms \subseteq In(g.left), left = <<>> <=> In(left) = {},
           flushes' = (flushes \ {gs}) \cup ({B!Without(gs, g, left)} \ {{}}),
           B!safeSend(ms), UNCHANGED <<fresh, pending, timer>>
    PROVE  BInv'
  <1> DEFINE u == [g EXCEPT !.left = left]
             ws == B!Without(gs, g, left)
  <1>1. BGroup(g) /\ g \in [type : B!EventTypes, left : Seq(StormMessages), size : Nat]
    BY DEF BInv, BTypeOK, BGroup
  <1>2. /\ u \in [type : B!EventTypes, left : Seq(StormMessages), size : Nat]
        /\ u.left = left /\ u.type = g.type
    BY <1>1
  <1>3. left # <<>> => BGroup(u)
    BY <1>1, <1>2 DEF BGroup
  <1>4. ws = (gs \ {g}) \cup (IF left = <<>> THEN {} ELSE {u})
    BY DEF B!Without
  <1> HIDE DEF u, ws
  <1>5. /\ \A h \in ws : h \in gs \ {g} \/ (left # <<>> /\ h = u)
        /\ \A h \in gs \ {g} : h \in ws
        /\ left # <<>> => u \in ws
    BY <1>4
  <1>6. flushes' = (flushes \ {gs}) \cup ({ws} \ {{}})
    BY DEF ws
  <1>7. ASSUME NEW h \in gs \ {g} PROVE In(h.left) \cap In(g.left) = {}
    <2>1. h.type # g.type
      BY DEF BInv, BApart
    <2>2. (\A m \in In(h.left) : TypeOf[m] = h.type) /\ \A m \in In(g.left) : TypeOf[m] = g.type
      BY DEF BInv, BTypeOK, BGroup
    <2> QED
      BY <2>1, <2>2
  <1>8. Carried(ws) = Carried(gs) \ ms
    <2>1. ASSUME NEW h \in ws, NEW m \in In(h.left) PROVE (\E x \in gs : m \in In(x.left)) /\ m \notin ms
      <3>1. CASE h \in gs \ {g}
        BY <1>7, <2>1, <3>1
      <3>2. CASE h = u
        BY <1>2, <2>1, <3>2
      <3> QED
        BY <1>5, <3>1, <3>2
    <2>2. ASSUME NEW h \in gs, NEW m \in In(h.left), m \notin ms PROVE \E x \in ws : m \in In(x.left)
      <3>1. CASE h = g
        <4>1. m \in In(left) /\ left # <<>>
          BY <2>2, <3>1
        <4> QED
          BY <1>2, <1>5, <4>1
      <3>2. CASE h # g
        BY <1>5, <2>2, <3>2
      <3> QED
        BY <3>1, <3>2
    <2> QED
      BY <2>1, <2>2 DEF Carried
  <1>9. \A hs \in flushes \ {gs} : Carried(hs) \cap Carried(gs) = {}
    BY DEF BInv, BApart, Carried
  <1>10. B!Leaving' = B!Leaving \ ms /\ ms \subseteq B!Leaving
    <2>1. B!Leaving' = UNION {Carried(hs) : hs \in flushes'}
      BY DEF B!Leaving, B!Waiting, B!Range, In, Carried
    <2>2. ms \subseteq Carried(gs)
      BY DEF Carried
    <2>3. \A hs \in flushes \ {gs} : hs \in flushes'
      BY <1>6
    <2>4. Carried(ws) # {} => ws \in flushes'
      BY <1>6 DEF Carried
    <2>5. ASSUME NEW m \in B!Leaving', m \notin B!Leaving \ ms PROVE FALSE
      <3>1. PICK hs \in flushes' : m \in Carried(hs)
        BY <2>1, <2>5
      <3>2. hs \in flushes \ {gs} \/ hs = ws
        BY <1>6
      <3> QED
        BY <1>8, <1>9, <2>2, <2>5, <3>1, <3>2, Places2
    <2>6. ASSUME NEW m \in B!Leaving \ ms PROVE m \in B!Leaving'
      <3>1. PICK hs \in flushes : m \in Carried(hs)
        BY Places2
      <3>2. CASE hs # gs
        BY <2>1, <2>3, <3>1, <3>2
      <3>3. CASE hs = gs
        BY <1>8, <2>1, <2>4, <2>6, <3>1, <3>3
      <3> QED
        BY <3>2, <3>3
    <2>7. ms \subseteq B!Leaving
      BY <2>2, Places2
    <2> QED
      BY <2>5, <2>6, <2>7
  <1>11. B!Waiting' = B!Waiting
    BY DEF B!Waiting
  <1>12. BTypeOK'
    <2>1. \A hs \in flushes' : \A h \in hs : BGroup(h)
      BY <1>3, <1>5, <1>6 DEF BInv, BTypeOK
    <2> QED
      BY <2>1 DEF BInv, BTypeOK
  <1>13. BApart'
    <2>1. \A hs \in flushes' : \A h, x \in hs : h # x => h.type # x.type
      BY <1>2, <1>5, <1>6 DEF BInv, BApart
    <2>2. ASSUME NEW hs \in flushes \ {gs}, NEW h \in hs, NEW x \in ws PROVE In(h.left) \cap In(x.left) = {}
      <3>1. In(h.left) \subseteq Carried(hs) /\ In(x.left) \subseteq Carried(ws)
        BY DEF Carried
      <3> QED
        BY <1>8, <1>9, <3>1
    <2>3. \A hs \in flushes' : hs \in flushes \ {gs} \/ hs = ws
      BY <1>6
    <2>4. ASSUME NEW hs \in flushes', NEW is \in flushes', hs # is, NEW h \in hs, NEW x \in is
          PROVE  In(h.left) \cap In(x.left) = {}
      <3>1. CASE hs = ws
        BY <2>2, <2>3, <2>4, <3>1
      <3>2. CASE is = ws
        BY <2>2, <2>3, <2>4, <3>2
      <3>3. CASE hs \in flushes \ {gs} /\ is \in flushes \ {gs}
        BY <2>4, <3>3 DEF BInv, BApart
      <3> QED
        BY <2>3, <3>1, <3>2, <3>3
    <2> QED
      BY <2>1, <2>4 DEF BApart
  <1>14. B!NoneForgotten' /\ (fresh \cap (B!Waiting \cup B!Leaving \cup heard \cup lost) = {})'
    <2>1. CASE heard' = heard \cup ms /\ UNCHANGED lost
      BY <1>10, <1>11, <2>1 DEF BInv, B!NoneForgotten
    <2>2. CASE lost' = lost \cup ms /\ UNCHANGED heard
      BY <1>10, <1>11, <2>2 DEF BInv, B!NoneForgotten
    <2> QED
      BY <2>1, <2>2 DEF B!safeSend
  <1> QED
    BY <1>12, <1>13, <1>14 DEF BInv

LEMMA BatcherStep ==
    ASSUME BInv, [B!Next]_(B!vars)
    PROVE  BInv'
  <1>1. CASE UNCHANGED B!vars
    <2>1. UNCHANGED <<fresh, pending, timer, flushes, heard, lost>>
      BY <1>1 DEF B!vars
    <2>2. UNCHANGED <<B!Waiting, B!Leaving>>
      BY <2>1 DEF B!Waiting, B!Leaving
    <2> QED
      BY <2>1, <2>2 DEF BInv, BTypeOK, BApart, B!NoneForgotten
  <1>2. ASSUME NEW m \in StormMessages, B!enqueue(m) PROVE BInv'
    <2> DEFINE e == TypeOf[m]
    <2>1. m \in fresh /\ fresh' = fresh \ {m} /\ UNCHANGED flushes /\ e \in B!EventTypes
      BY <1>2 DEF B!enqueue, B!EventTypes
    <2>2. UNCHANGED B!Leaving
      BY <2>1 DEF B!Leaving
    <2>3. CASE m \in Critical
      <3>1. B!safeSend({m}) /\ UNCHANGED <<pending, timer>>
        BY <1>2, <2>3 DEF B!enqueue
      <3>2. UNCHANGED B!Waiting
        BY <3>1 DEF B!Waiting
      <3>3. BTypeOK' /\ BApart'
        BY <2>1, <3>1 DEF BInv, BTypeOK, BApart
      <3> QED
        BY <2>1, <2>2, <3>1, <3>2, <3>3 DEF BInv, B!NoneForgotten, B!safeSend
    <2>4. CASE m \notin Critical
      <3>1. pending' = [pending EXCEPT ![e] = Append(@, m)] /\ timer' = TRUE /\ UNCHANGED <<heard, lost>>
        BY <1>2, <2>4 DEF B!enqueue
      <3>2. pending[e] \in Seq(StormMessages) /\ Once(pending[e]) /\ m \notin B!Waiting
        BY <2>1 DEF BInv, BTypeOK
      <3>3. m \notin In(pending[e])
        BY <2>1, <3>2, Places2
      <3>4. /\ Append(pending[e], m) \in Seq(StormMessages) /\ Once(Append(pending[e], m))
            /\ In(Append(pending[e], m)) = In(pending[e]) \cup {m}
        BY <3>2, <3>3, Queued
      <3>5. /\ pending'[e] = Append(pending[e], m)
            /\ \A x \in B!EventTypes \ {e} : pending'[x] = pending[x]
        BY <2>1, <3>1 DEF BInv, BTypeOK
      <3>6. pending' \in [B!EventTypes -> Seq(StormMessages)]
        BY <2>1, <3>1, <3>4 DEF BInv, BTypeOK
      <3>7. BTypeOK'
        <4>1. ASSUME NEW x \in B!EventTypes
              PROVE  Once(pending'[x]) /\ \A y \in In(pending'[x]) : TypeOf[y] = x
          <5>1. CASE x = e
            BY <3>4, <3>5, <5>1 DEF BInv, BTypeOK
          <5>2. CASE x # e
            BY <3>5, <5>2 DEF BInv, BTypeOK
          <5> QED
            BY <5>1, <5>2
        <4> QED
          BY <2>1, <3>6, <4>1 DEF BInv, BTypeOK
      <3>8. B!Waiting' = B!Waiting \cup {m}
        <4>1. B!Waiting' = UNION {In(pending'[x]) : x \in B!EventTypes}
          BY DEF B!Leaving, B!Waiting, B!Range, In, Carried
        <4>2. \A x \in B!EventTypes : In(pending'[x]) = In(pending[x]) \cup (IF x = e THEN {m} ELSE {})
          BY <3>4, <3>5
        <4> QED
          BY <2>1, <4>1, <4>2, Places2
      <3>9. BApart'
        BY <2>1 DEF BInv, BApart
      <3> QED
        BY <2>1, <2>2, <3>1, <3>7, <3>8, <3>9 DEF BInv, B!NoneForgotten
    <2> QED
      BY <2>3, <2>4
  <1>3. CASE B!flush \/ B!stop
    BY <1>3, Taken DEF B!flush, B!stop
  <1>4. ASSUME NEW gs \in flushes, NEW g \in gs, B!FlushStep(gs, g) PROVE BInv'
    <2>1. BGroup(g) /\ g.left \in Seq(StormMessages)
      BY DEF BInv, BTypeOK, BGroup
    <2>2. CASE g.size > Threshold
      <3>1. /\ B!safeSend(In(g.left)) /\ UNCHANGED <<fresh, pending, timer>>
            /\ flushes' = (flushes \ {gs}) \cup ({B!Without(gs, g, <<>>)} \ {{}})
        BY <1>4, <2>2, Places2 DEF B!FlushStep
      <3>2. << >> \in Seq(StormMessages) /\ Once(<<>>) /\ In(<<>>) = {}
        BY DEF In, Once
      <3> QED
        BY <3>1, <3>2, Sent
    <2>3. CASE ~(g.size > Threshold)
      <3>1. /\ B!safeSend({Head(g.left)}) /\ UNCHANGED <<fresh, pending, timer>>
            /\ flushes' = (flushes \ {gs}) \cup ({B!Without(gs, g, Tail(g.left))} \ {{}})
        BY <1>4, <2>3 DEF B!FlushStep
      <3>2. /\ Tail(g.left) \in Seq(StormMessages) /\ Once(Tail(g.left))
            /\ Head(g.left) \in In(g.left) /\ In(Tail(g.left)) = In(g.left) \ {Head(g.left)}
        BY <2>1, Unqueued DEF BGroup
      <3>3. Tail(g.left) = <<>> <=> In(Tail(g.left)) = {}
        BY <3>2, NonEmpty
      <3>4. {Head(g.left)} \subseteq In(g.left)
        BY <3>2
      <3> QED
        BY <1>4, <3>1, <3>2, <3>3, <3>4, Sent, Zenon
    <2> QED
      BY <2>2, <2>3
  <1> QED
    BY <1>1, <1>2, <1>3, <1>4 DEF B!Next

(* No message is forgotten by the storm batcher, or sent twice: whatever the     *)
(* number of messages, the threshold and the order of timers, sends and stop     *)
(* (batcher.ts).                                                                 *)
THEOREM BatcherForgetsNothing == Spec => []NoneForgotten
  <1> DEFINE Inv == part = "batcher" => BInv
  <1>1. Init => Inv
    BY BatcherInit DEF Init, MInit, NInit, BInit, TInit, CInit, IInit, PInit, WInit, VInit, RInit, KInit
  <1>2. Inv /\ [Next]_vars => Inv'
    BY OnePart, BatcherStep
  <1>3. Inv => NoneForgotten
    BY DEF BInv, NoneForgotten
  <1> QED
    BY <1>1, <1>2, <1>3, PTL DEF Spec

-----------------------------------------------------------------------------
(* The views.  While a pass that began alone is under way, it has the tasks on  *)
(* its list, and the directories it has behind it are right.  That they are all *)
(* right in the end needs that it visits every directory in which a pointer can *)
(* be: a pass goes through all folders of the groups there are, and subtask      *)
(* pointers have their directories as long as the tasks exist.                  *)

(* The subtasks on a list, and the directories of their pointers. *)
Sub(s, list) == {t \in {1, 2} : {t, s.parents[t]} \subseteq {u \in {1, 2} : list[u] # None}}
Ends(s, list) ==
    {<<s.parents[t], "subtasks">> : t \in Sub(s, list)} \cup {<<t, "handoff">> : t \in Sub(s, list)}
There(list) == {t \in {1, 2} : list[t] # None}
At(fs, d) == {f \in fs : f.dir = d}

VShape ==
    /\ task = [t \in {1, 2} |-> task[t]] /\ pass = [p \in Passes |-> pass[p]] /\ exact \subseteq Passes
    /\ \A p \in Passes :
           pass[p] = [pc |-> pass[p].pc, list |-> pass[p].list, left |-> pass[p].left]

(* Where pointers are. *)
VWhere ==
    IF setup.kind = "delegation"
      THEN /\ \A f \in files : f.dir \in Ends(setup, task)
           /\ \A p \in Passes :
                  /\ pass[p].pc # "idle" => There(pass[p].list) \subseteq There(task)
                  /\ pass[p].pc = "sync" => pass[p].left \subseteq Ends(setup, pass[p].list)
      ELSE /\ \A f \in files : f.dir \in groups \X V!Folders
           /\ \A p \in Passes : pass[p].pc = "sync" => \A d \in pass[p].left : d \in {d[1]} \X V!Folders

VExact(p) ==
    /\ \A q \in Passes \ {p} : pass[q].pc = "idle"
    /\ pass[p].pc # "idle" => pass[p].list = task
    /\ pass[p].pc = "sync" => \A d : d \notin pass[p].left => At(files, d) = At(V!Pointers(task), d)
    /\ pass[p].pc = "idle" => files = V!Pointers(task)

VInv == VShape /\ VWhere /\ \A p \in exact : VExact(p)

LEMMA ViewInit == V!Init => VInv
  <1> SUFFICES ASSUME V!Init PROVE VInv
    OBVIOUS
  <1>1. /\ task = [t \in {1, 2} |-> None] /\ files = {} /\ exact = {}
        /\ pass = [p \in Passes |-> [pc |-> "idle", list |-> None, left |-> {}]]
    BY DEF V!Init
  <1>2. \A p \in Passes : pass[p] = [pc |-> "idle", list |-> None, left |-> {}]
    BY <1>1
  <1>3. VShape
    BY <1>1, <1>2 DEF VShape
  <1>4. VWhere
    BY <1>1, <1>2 DEF VWhere
  <1> QED
    BY <1>1, <1>3, <1>4 DEF VInv

LEMMA SubtaskDirs ==
    ASSUME setup.kind = "delegation", NEW list
    PROVE  {ptr.dir : ptr \in V!Pointers(list)} = Ends(setup, list)
  <1>1. V!Children(list) = Sub(setup, list)
    BY DEF V!Children, V!Listed, Sub
  <1>2. V!Pointers(list) = {V!Pointer(<<setup.parents[t], "subtasks">>, t, list) : t \in Sub(setup, list)}
                           \cup {V!Pointer(<<t, "handoff">>, t, list) : t \in Sub(setup, list)}
    BY <1>1 DEF V!Pointers
  <1>3. \A d, t : V!Pointer(d, t, list).dir = d
    BY DEF V!Pointer
  <1>4. \A ptr \in V!Pointers(list) : ptr.dir \in Ends(setup, list)
    <2> TAKE ptr \in V!Pointers(list)
    <2>1. PICK t \in Sub(setup, list) : \/ ptr = V!Pointer(<<setup.parents[t], "subtasks">>, t, list)
                                        \/ ptr = V!Pointer(<<t, "handoff">>, t, list)
      BY <1>2
    <2>2. ptr.dir = <<setup.parents[t], "subtasks">> \/ ptr.dir = <<t, "handoff">>
      BY <1>3, <2>1
    <2> QED
      BY <2>2 DEF Ends
  <1>5. ASSUME NEW d \in Ends(setup, list) PROVE \E ptr \in V!Pointers(list) : ptr.dir = d
    <2>1. PICK t \in Sub(setup, list) : d = <<setup.parents[t], "subtasks">> \/ d = <<t, "handoff">>
      BY DEF Ends
    <2>2. V!Pointer(d, t, list) \in V!Pointers(list)
      BY <1>2, <2>1
    <2> QED
      BY <1>3, <2>2
  <1> QED
    BY <1>4, <1>5

LEMMA EndsGrow ==
    ASSUME NEW s, NEW a, NEW b, There(a) \subseteq There(b)
    PROVE  Ends(s, a) \subseteq Ends(s, b)
  <1>1. Sub(s, a) \subseteq Sub(s, b)
    BY DEF There, Sub
  <1> QED
    BY <1>1 DEF Ends

LEMMA ViewDirs ==
    ASSUME setup.kind # "delegation", NEW list
    PROVE  /\ \A ptr \in V!Pointers(list) : ptr.dir \in V!ToProcess(list) \X V!Folders
           /\ groups \subseteq V!ToProcess(list)
  <1>1. ASSUME NEW ptr \in V!Pointers(list) PROVE ptr.dir \in V!ToProcess(list) \X V!Folders
    <2>1. PICK t \in V!Listed(list) : /\ list[t].group # None /\ V!Folder(list[t]) \in V!Folders
                                      /\ ptr = V!Pointer(<<list[t].group, V!Folder(list[t])>>, t, list)
      BY DEF V!Pointers
    <2>2. ptr.dir = <<list[t].group, V!Folder(list[t])>>
      BY <2>1 DEF V!Pointer
    <2>3. list[t].group \in V!ToProcess(list)
      BY <2>1 DEF V!ToProcess
    <2> QED
      BY <2>1, <2>2, <2>3
  <1> QED
    BY <1>1 DEF V!ToProcess

(* What does not change with the setup and the tasks. *)
LEMMA SamePointers ==
    ASSUME UNCHANGED setup
    PROVE  UNCHANGED V!Folders /\ (UNCHANGED task => UNCHANGED V!Pointers(task))
  BY DEF V!Folders, V!Pointers, V!Children, V!Listed, V!Pointer, V!Folder

LEMMA ViewStep ==
    ASSUME VInv, [V!Next]_(V!vars)
    PROVE  VInv'
  <1>1. CASE UNCHANGED V!vars
    <2>1. UNCHANGED <<setup, task, files, groups, pass, exact>>
      BY <1>1 DEF V!vars
    <2> QED
      BY <2>1, SamePointers DEF VInv, VShape, VWhere, VExact
  <1>2. ASSUME NEW t \in setup.tasks, NEW rec \in V!Records, V!Change(t, rec) PROVE VInv'
    <2>1. task' = [task EXCEPT ![t] = rec] /\ exact' = {} /\ UNCHANGED <<setup, files, groups, pass>>
      BY <1>2 DEF V!Change
    <2>2. rec # None
      BY NoneIsNothing DEF V!Records
    <2>3. \A u \in {1, 2} : task'[u] = task[u] \/ task'[u] = rec
      BY <2>1 DEF VInv, VShape
    <2>4. There(task) \subseteq There(task')
      BY <2>2, <2>3 DEF There
    <2>5. VShape'
      BY <2>1 DEF VInv, VShape
    <2>6. VWhere'
      BY <2>1, <2>4, EndsGrow, SamePointers DEF VInv, VWhere
    <2> QED
      BY <2>1, <2>5, <2>6 DEF VInv
  <1>3. ASSUME NEW p \in Passes, V!Begin(p) PROVE VInv'
    <2>1. /\ pass[p].pc = "idle" /\ pass' = [pass EXCEPT ![p] = [pc |-> "listed", list |-> task, left |-> {}]]
          /\ exact' = IF \A q \in Passes \ {p} : pass[q].pc = "idle" THEN {p} ELSE {}
          /\ UNCHANGED <<setup, task, files, groups>>
      BY <1>3 DEF V!Begin
    <2>2. /\ pass'[p] = [pc |-> "listed", list |-> task, left |-> {}] /\ \A q \in Passes \ {p} : pass'[q] = pass[q]
          /\ pass' = [q \in Passes |-> pass'[q]]
      BY <2>1 DEF VInv, VShape
    <2>3. VShape'
      BY <2>1, <2>2 DEF VInv, VShape
    <2>4. VWhere'
      BY <2>1, <2>2, SamePointers DEF VInv, VWhere
    <2>5. \A q \in exact' : VExact(q)'
      BY <2>1, <2>2 DEF VExact
    <2> QED
      BY <2>3, <2>4, <2>5 DEF VInv
  <1>4. ASSUME NEW p \in Passes, V!Directories(p) PROVE VInv'
    <2> DEFINE left == IF setup.kind = "delegation" THEN {ptr.dir : ptr \in V!Pointers(pass[p].list)}
                       ELSE V!ToProcess(pass[p].list) \X V!Folders
    <2>1. /\ pass[p].pc = "listed" /\ pass' = [pass EXCEPT ![p].pc = "sync", ![p].left = left]
          /\ UNCHANGED <<setup, task, files, groups, exact>>
      BY <1>4 DEF V!Directories
    <2> HIDE DEF left
    <2>2. /\ pass'[p] = [pc |-> "sync", list |-> pass[p].list, left |-> left]
          /\ \A q \in Passes \ {p} : pass'[q] = pass[q]
          /\ pass' = [q \in Passes |-> pass'[q]]
      <3> DEFINE mid == [pass EXCEPT ![p].pc = "sync"]
      <3>1. pass' = [mid EXCEPT ![p].left = left]
        BY <2>1
      <3>2. /\ mid[p] = [pc |-> "sync", list |-> pass[p].list, left |-> pass[p].left]
            /\ mid = [q \in Passes |-> mid[q]] /\ \A q \in Passes \ {p} : mid[q] = pass[q]
        BY DEF VInv, VShape
      <3> HIDE DEF mid
      <3> QED
        BY <3>1, <3>2
    <2>3. VShape'
      BY <2>1, <2>2 DEF VInv, VShape
    <2>4. setup.kind = "delegation" => left = Ends(setup, pass[p].list)
      BY SubtaskDirs DEF left
    <2>5. setup.kind # "delegation" => \A d \in left : d \in {d[1]} \X V!Folders
      BY DEF left
    <2>6. VWhere'
      <3>1. CASE setup.kind = "delegation"
        <4>1. ASSUME NEW q \in Passes
              PROVE  /\ pass'[q].pc # "idle" => There(pass'[q].list) \subseteq There(task)
                     /\ pass'[q].pc = "sync" => pass'[q].left \subseteq Ends(setup, pass'[q].list)
          <5>1. CASE q = p
            <6>1. pass'[q].list = pass[p].list /\ pass'[q].left = left
              BY <2>2, <5>1
            <6> QED
              BY <2>1, <2>4, <3>1, <6>1 DEF VInv, VWhere
          <5>2. CASE q # p
            BY <2>2, <3>1, <5>2 DEF VInv, VWhere
          <5> QED
            BY <5>1, <5>2
        <4> QED
          BY <2>1, <3>1, <4>1 DEF VInv, VWhere
      <3>2. CASE setup.kind # "delegation"
        <4>1. ASSUME NEW q \in Passes, pass'[q].pc = "sync", NEW d \in pass'[q].left PROVE d \in {d[1]} \X V!Folders
          <5>1. CASE q = p
            <6>1. pass'[q].left = left
              BY <2>2, <5>1
            <6> QED
              BY <2>5, <3>2, <4>1, <6>1
          <5>2. CASE q # p
            BY <2>2, <3>2, <4>1, <5>2 DEF VInv, VWhere
          <5> QED
            BY <5>1, <5>2
        <4>2. UNCHANGED V!Folders
          BY <2>1, SamePointers
        <4> QED
          BY <2>1, <3>2, <4>1, <4>2 DEF VInv, VWhere
      <3> QED
        BY <3>1, <3>2
    <2>7. ASSUME NEW q \in exact PROVE VExact(q)'
      <3>1. q \in Passes /\ VExact(q)
        BY DEF VInv, VShape
      <3>2. p = q /\ pass[p].list = task
        BY <2>1, <3>1 DEF VExact
      <3>3. ASSUME NEW d, d \notin left PROVE At(files, d) = {} /\ At(V!Pointers(task), d) = {}
        <4>1. CASE setup.kind = "delegation"
          <5>1. left = {ptr.dir : ptr \in V!Pointers(task)} /\ left = Ends(setup, task)
            BY <2>4, <3>2, <4>1 DEF left
          <5> QED
            BY <3>3, <4>1, <5>1 DEF VInv, VWhere, At
        <4>2. CASE setup.kind # "delegation"
          <5>1. left = V!ToProcess(task) \X V!Folders
            BY <3>2, <4>2 DEF left
          <5>2. \A f \in files : f.dir \in left
            BY <4>2, <5>1, ViewDirs DEF VInv, VWhere
          <5>3. \A ptr \in V!Pointers(task) : ptr.dir \in left
            BY <4>2, <5>1, ViewDirs
          <5> QED
            BY <3>3, <5>2, <5>3 DEF At
        <4> QED
          BY <4>1, <4>2
      <3>4. UNCHANGED V!Pointers(task)
        BY <2>1, SamePointers
      <3>5. pass'[p].pc = "sync" /\ pass'[p].list = task /\ pass'[p].left = left
        BY <2>2, <3>2
      <3>6. \A x \in Passes \ {p} : pass'[x].pc = "idle"
        BY <2>2, <3>1, <3>2 DEF VExact
      <3> QED
        BY <2>1, <3>2, <3>3, <3>4, <3>5, <3>6 DEF VExact
    <2> QED
      BY <2>1, <2>3, <2>6, <2>7 DEF VInv
  <1>5. ASSUME NEW p \in Passes, V!SyncDirectory(p) PROVE VInv'
    <2> DEFINE d == CHOOSE x \in pass[p].left : TRUE
               mine == At(V!Pointers(pass[p].list), d)
    <2>1. /\ pass[p].pc = "sync" /\ pass[p].left # {}
          /\ files' = {f \in files : f.dir # d} \cup mine
          /\ groups' = IF setup.kind = "delegation" THEN groups ELSE groups \cup {d[1]}
          /\ pass' = [pass EXCEPT ![p].left = @ \ {d}]
          /\ UNCHANGED <<setup, task, exact>>
      BY <1>5 DEF V!SyncDirectory, V!Synced, At
    <2>2. d \in pass[p].left
      BY <2>1
    <2> HIDE DEF d
    <2>3. /\ pass'[p] = [pc |-> "sync", list |-> pass[p].list, left |-> pass[p].left \ {d}]
          /\ \A q \in Passes \ {p} : pass'[q] = pass[q]
          /\ pass' = [q \in Passes |-> pass'[q]]
      <3>1. /\ pass[p] = [pc |-> "sync", list |-> pass[p].list, left |-> pass[p].left]
            /\ pass = [q \in Passes |-> pass[q]]
        BY <2>1 DEF VInv, VShape
      <3>2. [pass[p] EXCEPT !.left = @ \ {d}] = [pc |-> "sync", list |-> pass[p].list, left |-> pass[p].left \ {d}]
        BY <3>1
      <3>3. pass' = [pass EXCEPT ![p] = [pass[p] EXCEPT !.left = @ \ {d}]]
        BY <2>1
      <3> QED
        BY <3>1, <3>2, <3>3
    <2>4. VShape'
      BY <2>1, <2>3 DEF VInv, VShape
    <2>5. \A f \in mine : f.dir = d /\ f \in V!Pointers(pass[p].list)
      BY DEF At
    <2> HIDE DEF mine
    <2>6. VWhere'
      <3>1. CASE setup.kind = "delegation"
        <4>1. d \in Ends(setup, task)
          BY <2>1, <2>2, <3>1, EndsGrow DEF VInv, VWhere
        <4> QED
          BY <2>1, <2>3, <2>5, <3>1, <4>1 DEF VInv, VWhere
      <3>2. CASE setup.kind # "delegation"
        <4>1. d \in {d[1]} \X V!Folders
          BY <2>1, <2>2, <3>2 DEF VInv, VWhere
        <4>2. \A f \in files' : f.dir \in groups' \X V!Folders
          BY <2>1, <2>5, <3>2, <4>1 DEF VInv, VWhere
        <4> QED
          BY <2>1, <2>3, <3>2, <4>2, SamePointers DEF VInv, VWhere
      <3> QED
        BY <3>1, <3>2
    <2>7. ASSUME NEW q \in exact PROVE VExact(q)'
      <3>1. q \in Passes /\ VExact(q)
        BY DEF VInv, VShape
      <3>2. p = q /\ pass[p].list = task
        BY <2>1, <3>1 DEF VExact
      <3>3. ASSUME NEW x, x \notin pass[p].left \ {d} PROVE At(files', x) = At(V!Pointers(task), x)
        <4>1. CASE x = d
          BY <2>1, <2>5, <3>2, <4>1 DEF At, mine
        <4>2. CASE x # d
          <5>1. At(files', x) = At(files, x)
            BY <2>1, <2>5, <4>2 DEF At
          <5> QED
            BY <2>1, <3>1, <3>2, <3>3, <4>2, <5>1 DEF VExact
        <4> QED
          BY <4>1, <4>2
      <3> QED
        BY <2>1, <2>3, <3>1, <3>2, <3>3, SamePointers DEF VExact
    <2> QED
      BY <2>1, <2>4, <2>6, <2>7 DEF VInv
  <1>6. ASSUME NEW p \in Passes, V!Done(p) PROVE VInv'
    <2>1. /\ pass[p].pc = "sync" /\ pass[p].left = {}
          /\ pass' = [pass EXCEPT ![p] = [pc |-> "idle", list |-> None, left |-> {}]]
          /\ UNCHANGED <<setup, task, files, groups, exact>>
      BY <1>6 DEF V!Done
    <2>2. /\ pass'[p] = [pc |-> "idle", list |-> None, left |-> {}] /\ \A q \in Passes \ {p} : pass'[q] = pass[q]
          /\ pass' = [q \in Passes |-> pass'[q]]
      BY <2>1 DEF VInv, VShape
    <2>3. VShape'
      BY <2>1, <2>2 DEF VInv, VShape
    <2>4. VWhere'
      BY <2>1, <2>2, SamePointers DEF VInv, VWhere
    <2>5. ASSUME NEW q \in exact PROVE VExact(q)'
      <3>1. q \in Passes /\ VExact(q)
        BY DEF VInv, VShape
      <3>2. p = q
        BY <2>1, <3>1 DEF VExact
      <3>3. \A d : At(files, d) = At(V!Pointers(task), d)
        BY <2>1, <3>1, <3>2 DEF VExact
      <3>4. \A f : f \in At(files, f.dir) <=> f \in files
        BY DEF At
      <3>5. \A f : f \in At(V!Pointers(task), f.dir) <=> f \in V!Pointers(task)
        BY DEF At
      <3>6. files = V!Pointers(task)
        BY <3>3, <3>4, <3>5
      <3> QED
        BY <2>1, <2>2, <3>1, <3>2, <3>6, SamePointers DEF VExact
    <2> QED
      BY <2>1, <2>3, <2>4, <2>5 DEF VInv
  <1> QED
    BY <1>1, <1>2, <1>3, <1>4, <1>5, <1>6 DEF V!Next

(* A pass that ran alone leaves exactly the view of the tasks it listed: for any *)
(* number of lanes, agents and passes, whatever the passes before it left in     *)
(* which directory (syncKanbanView, syncMailboxView, syncDelegationArtifacts).   *)
THEOREM ViewsExact == Spec => []ViewExact
  <1> DEFINE Inv == part = "views" => VInv
  <1>1. Init => Inv
    BY ViewInit DEF Init, MInit, NInit, BInit, TInit, CInit, IInit, PInit, WInit, VInit, RInit, KInit
  <1>2. Inv /\ [Next]_vars => Inv'
    BY OnePart, ViewStep
  <1>3. Inv => ViewExact
    BY DEF VInv, VExact, ViewExact, V!ViewExact
  <1> QED
    BY <1>1, <1>2, <1>3, PTL DEF Spec

-----------------------------------------------------------------------------
(* The memory tiers.  A log file has room for what is being appended to it; an  *)
(* aggregation has read, or has still to read, what was logged when it began;    *)
(* and what a promotion has measured still fits when it is written.              *)

TOf(r, es) == {e \in es : RuleOf[e] = r}
InFlight(xs, i) == {x \in xs : x.file = i}

AggSteps == [at : {"idle", "read", "write"}, unread : SUBSET Nat, seen : SUBSET Events,
             todo : SUBSET T!Rules, start : SUBSET Events]

TShape ==
    /\ setup \in TierSetups
    /\ files \in Seq(SUBSET Events) /\ counted \in Nat
    /\ appends \subseteq [event : Events, file : Nat] /\ IsFiniteSet(appends)
    /\ \A x \in appends : x.file \in DOMAIN files
    /\ warm \in [T!Rules -> SUBSET Events]
    /\ agg \in [1..setup.aggregators -> AggSteps]
    /\ \A a \in 1..setup.aggregators : agg[a].unread \subseteq DOMAIN files
    /\ hot \in [T!Rules -> SUBSET Events]
    /\ promo \subseteq [doc : T!Rules, content : SUBSET Events] /\ IsFiniteSet(promo)
    /\ \A r \in T!Rules : warm[r] = TOf(r, warm[r]) /\ hot[r] = TOf(r, hot[r])
    /\ \A x \in promo : x.content = TOf(x.doc, x.content)

(* The size counted is at least that of the newest file. *)
TFiles ==
    /\ Cardinality(appends) <= setup.writers
    /\ files # <<>> => Cardinality(files[Len(files)]) <= counted
    /\ \A i \in DOMAIN files :
           Cardinality(files[i]) + Cardinality(InFlight(appends, i)) <= MaxFile + setup.writers - 1

TWarm ==
    setup.aggregators = 1 =>
        /\ agg[1].at = "read" => agg[1].start \subseteq agg[1].seen \cup UNION {files[i] : i \in agg[1].unread}
        /\ agg[1].at = "write" => agg[1].start \subseteq agg[1].seen
        /\ agg[1].at = "idle" => agg[1].todo = {}
        /\ agg[1].seen \subseteq T!Logged
        /\ agg[1].at # "read" => \A r \in T!Rules \ agg[1].todo :
               TOf(r, agg[1].start) \subseteq warm[r] \/ Cardinality(TOf(r, T!Logged)) > WarmLimit

THot ==
    setup.promoters = 1 =>
        /\ T!Total <= HotLimit
        /\ \A x, y \in promo : x = y
        /\ \A x \in promo : T!Total - Cardinality(hot[x.doc]) + Cardinality(x.content) <= HotLimit

TInv == TShape /\ TFiles /\ TWarm /\ THot

(* What the component counts with, and the total it measures. *)
LEMMA TierCounts ==
    /\ \A es : T!Cardinality(es) = Cardinality(es)
    /\ T!Total = Cardinality(UNION {hot[r] : r \in T!Rules})
  BY DEF T!Total, T!Cardinality, Cardinality

(* Everything logged is finite. *)
LEMMA EventsFinite ==
    ASSUME NEW es \in SUBSET Events
    PROVE  IsFiniteSet(es) /\ Cardinality(es) \in Nat /\ \A ds \in SUBSET es : Cardinality(ds) <= Cardinality(es)
  BY TierTypes, FS_Subset, FS_CardinalityType

LEMMA OneMore ==
    ASSUME NEW es, NEW x, IsFiniteSet(es)
    PROVE  /\ IsFiniteSet(es \cup {x}) /\ Cardinality(es) \in Nat /\ Cardinality(es \cup {x}) \in Nat
           /\ Cardinality(es \cup {x}) <= Cardinality(es) + 1
  <1>1. Cardinality(es) \in Nat
    BY FS_CardinalityType
  <1>2. /\ IsFiniteSet(es \cup {x})
        /\ Cardinality(es \cup {x}) = IF x \in es THEN Cardinality(es) ELSE Cardinality(es) + 1
    BY FS_AddElement, Zenon
  <1> QED
    BY <1>1, <1>2

LEMMA TierInit == T!Init => TInv
  <1> SUFFICES ASSUME T!Init PROVE TInv
    OBVIOUS
  <1>1. /\ setup \in TierSetups /\ files = <<>> /\ counted = 0 /\ appends = {} /\ promo = {}
        /\ warm = [r \in T!Rules |-> {}] /\ hot = [r \in T!Rules |-> {}]
        /\ agg = [a \in 1..setup.aggregators |-> T!NoAgg]
    BY DEF T!Init
  <1>2. T!NoAgg \in AggSteps
    BY DEF T!NoAgg, AggSteps
  <1>3. /\ << >> \in Seq(SUBSET Events) /\ DOMAIN << >> = {}
        /\ IsFiniteSet({}) /\ Cardinality({}) = 0
    BY FS_EmptySet
  <1>4. TShape
    <2>1. \A a \in 1..setup.aggregators : agg[a].unread \subseteq DOMAIN files
      BY <1>1 DEF T!NoAgg
    <2> QED
      BY <1>1, <1>2, <1>3, <2>1 DEF TShape, TOf
  <1>5. setup.writers \in Nat
    BY <1>1, TierTypes
  <1>6. TFiles
    BY <1>1, <1>3, <1>5 DEF TFiles
  <1>7. TWarm
    <2>1. setup.aggregators = 1 => agg[1] = T!NoAgg
      BY <1>1
    <2> QED
      BY <1>1, <2>1 DEF TWarm, T!NoAgg, TOf
  <1>8. THot
    <2>1. UNION {hot[r] : r \in T!Rules} = {}
      BY <1>1
    <2>2. T!Total = 0
      BY <1>3, <2>1, TierCounts
    <2> QED
      BY <1>1, <2>2, TierTypes DEF THot
  <1> QED
    BY <1>4, <1>6, <1>7, <1>8 DEF TInv

LEMMA LoggedIs == T!Logged = UNION {files[i] : i \in DOMAIN files}
  BY DEF T!Logged, T!Range

(* Files only grow, and new ones come behind. *)
Grows ==
    \A i \in DOMAIN files : i \in DOMAIN (files') /\ files[i] \subseteq (files')[i]

LEMMA GrowKeeps ==
    ASSUME TInv, TShape', Grows, UNCHANGED <<setup, warm, agg>>
    PROVE  TWarm'
  <1> SUFFICES ASSUME setup.aggregators = 1 PROVE TWarm'
    BY DEF TWarm
  <1>1. T!Logged \subseteq T!Logged' /\ T!Logged' \subseteq Events
    <2>1. T!Logged' = UNION {files'[i] : i \in DOMAIN files'}
      BY DEF T!Logged, T!Range
    <2>2. \A i \in DOMAIN files' : files'[i] \in SUBSET Events
      BY LenProperties, ElementOfSeq DEF TShape
    <2> QED
      BY <2>1, <2>2, LoggedIs DEF Grows
  <1>2. agg[1].at = "read" =>
            agg[1].start \subseteq agg[1].seen \cup UNION {files'[i] : i \in agg[1].unread}
    <2> SUFFICES ASSUME agg[1].at = "read"
                 PROVE  agg[1].start \subseteq agg[1].seen \cup UNION {files'[i] : i \in agg[1].unread}
      OBVIOUS
    <2>1. /\ agg[1].unread \subseteq DOMAIN files
          /\ agg[1].start \subseteq agg[1].seen \cup UNION {files[i] : i \in agg[1].unread}
      BY TierTypes DEF TInv, TWarm, TShape
    <2> QED
      BY <2>1 DEF Grows
  <1>3. ASSUME NEW r \in T!Rules
        PROVE  Cardinality(TOf(r, T!Logged)) > WarmLimit => Cardinality(TOf(r, T!Logged')) > WarmLimit
    <2>1. TOf(r, T!Logged) \subseteq TOf(r, T!Logged') /\ TOf(r, T!Logged') \in SUBSET Events
      BY <1>1 DEF TOf
    <2>2. Cardinality(TOf(r, T!Logged)) <= Cardinality(TOf(r, T!Logged'))
      BY <2>1, EventsFinite
    <2>3. Cardinality(TOf(r, T!Logged)) \in Nat /\ Cardinality(TOf(r, T!Logged')) \in Nat /\ WarmLimit \in Nat
      BY <1>1, <2>1, EventsFinite, TierTypes
    <2> QED
      BY <2>2, <2>3
  <1>4. agg[1].at # "read" => \A r \in T!Rules \ agg[1].todo :
            TOf(r, agg[1].start) \subseteq warm[r] \/ Cardinality(TOf(r, T!Logged)) > WarmLimit
    BY DEF TInv, TWarm
  <1>5. /\ agg[1].seen \subseteq T!Logged /\ (agg[1].at = "write" => agg[1].start \subseteq agg[1].seen)
        /\ agg[1].at = "idle" => agg[1].todo = {}
    BY DEF TInv, TWarm
  <1> QED
    BY <1>1, <1>2, <1>3, <1>4, <1>5 DEF TWarm, T!Rules

(* A line is put into the newest file, or into a new one. *)
LEMMA TierLog ==
    ASSUME TInv, NEW e \in Events, T!logEvent(e)
    PROVE  TInv'
  <1> DEFINE x == [event |-> e, file |-> Len(files')]
  <1>1. /\ Cardinality(appends) < setup.writers /\ appends' = appends \cup {x}
        /\ UNCHANGED <<setup, warm, agg, hot, promo>>
    BY TierCounts DEF T!logEvent
  <1>2. /\ setup.writers \in Nat /\ MaxFile \in Nat \ {0} /\ files \in Seq(SUBSET Events)
        /\ Len(files) \in Nat /\ DOMAIN files = 1..Len(files) /\ counted \in Nat
        /\ IsFiniteSet(appends) /\ Cardinality(appends) \in Nat
    BY TierTypes, LenProperties, FS_CardinalityType DEF TInv, TShape
  <1>3. \/ /\ T!NeedsFile /\ files' = Append(files, {}) /\ counted' = 0
        \/ /\ ~T!NeedsFile /\ files' = files /\ counted' = counted
    BY DEF T!logEvent
  <1>4. /\ files' \in Seq(SUBSET Events) /\ Len(files') \in Nat \ {0} /\ DOMAIN files' = 1..Len(files')
        /\ Len(files') = Len(files) \/ (Len(files') = Len(files) + 1 /\ files'[Len(files')] = {})
        /\ \A i \in DOMAIN files : i \in DOMAIN files' /\ files'[i] = files[i]
    <2>1. CASE T!NeedsFile /\ files' = Append(files, {})
      <3>1. {} \in SUBSET Events
        OBVIOUS
      <3>2. /\ Append(files, {}) \in Seq(SUBSET Events) /\ Len(Append(files, {})) = Len(files) + 1
            /\ \A i \in 1..Len(files) : Append(files, {})[i] = files[i]
            /\ Append(files, {})[Len(files) + 1] = {}
        BY <1>2, <3>1, AppendProperties
      <3>3. DOMAIN Append(files, {}) = 1..(Len(files) + 1)
        BY <3>2, LenProperties
      <3>4. Len(files) + 1 \in Nat \ {0} /\ \A i \in 1..Len(files) : i \in 1..(Len(files) + 1)
        BY <1>2
      <3> HIDE DEF x
      <3> QED
        BY <1>2, <2>1, <3>2, <3>3, <3>4
    <2>2. CASE ~T!NeedsFile /\ files' = files
      <3>1. files # <<>>
        BY <2>2 DEF T!NeedsFile
      <3> QED
        BY <1>2, <2>2, <3>1, EmptySeq
    <2> QED
      BY <1>3, <2>1, <2>2
  <1> HIDE DEF x
  <1>5. x \in [event : Events, file : Nat] /\ x.file = Len(files')
    BY <1>4 DEF x
  <1>6. IsFiniteSet(appends') /\ Cardinality(appends') <= setup.writers
    <2>1. /\ IsFiniteSet(appends \cup {x}) /\ Cardinality(appends \cup {x}) \in Nat
          /\ Cardinality(appends \cup {x}) <= Cardinality(appends) + 1
      BY <1>2, OneMore
    <2> QED
      BY <1>1, <1>2, <2>1
  <1>7. TShape'
    <2>1. \A y \in appends' : y.file \in DOMAIN files'
      <3>1. Len(files') \in DOMAIN files'
        <4>1. \A k \in Nat \ {0} : k \in 1..k
          OBVIOUS
        <4>2. Len(files') \in Nat \ {0} /\ DOMAIN files' = 1..Len(files')
          BY <1>4
        <4> QED
          BY <4>1, <4>2
      <3>2. \A y \in appends : y.file \in DOMAIN files'
        BY <1>4 DEF TInv, TShape
      <3> QED
        BY <1>1, <1>5, <3>1, <3>2
    <2>2. counted' \in Nat
      BY <1>2, <1>3
    <2> QED
      BY <1>1, <1>4, <1>5, <1>6, <2>1, <2>2 DEF TInv, TShape, T!Rules
  <1>8. \A i \in DOMAIN files : IsFiniteSet(files[i]) /\ Cardinality(files[i]) \in Nat
    BY <1>2, ElementOfSeq, EventsFinite
  <1>9. \A i : /\ IsFiniteSet(InFlight(appends', i)) /\ Cardinality(InFlight(appends', i)) \in Nat
              /\ Cardinality(InFlight(appends', i)) <= setup.writers
    <2> TAKE i
    <2>1. InFlight(appends', i) \in SUBSET appends'
      BY DEF InFlight
    <2>2. Cardinality(appends') \in Nat
      BY <1>6, FS_CardinalityType
    <2>3. IsFiniteSet(InFlight(appends', i)) /\ Cardinality(InFlight(appends', i)) <= Cardinality(appends')
      BY <1>6, <2>1, FS_Subset
    <2> QED
      BY <1>2, <1>6, <2>2, <2>3, FS_CardinalityType
  <1>10. files' # <<>> => Cardinality(files'[Len(files')]) <= counted'
    <2>1. CASE T!NeedsFile /\ files' = Append(files, {}) /\ counted' = 0
      <3>1. files'[Len(files')] = {}
        BY <1>2, <2>1, AppendProperties
      <3> QED
        BY <2>1, <3>1, FS_EmptySet
    <2>2. CASE files' = files /\ counted' = counted
      BY <2>2 DEF TInv, TFiles
    <2> QED
      BY <1>3, <2>1, <2>2
  <1>11. ASSUME NEW i \in DOMAIN files'
         PROVE  Cardinality(files'[i]) + Cardinality(InFlight(appends', i)) <= MaxFile + setup.writers - 1
    <2>1. CASE i # Len(files')
      <3>1. i \in DOMAIN files
        <4>1. i \in 1..Len(files') /\ (Len(files') = Len(files) \/ Len(files') = Len(files) + 1)
          BY <1>4
        <4> QED
          BY <1>2, <2>1, <4>1
      <3>2. InFlight(appends', i) = InFlight(appends, i)
        BY <1>1, <1>5, <2>1 DEF InFlight
      <3> QED
        BY <1>4, <3>1, <3>2 DEF TInv, TFiles
    <2>2. CASE i = Len(files')
      <3>1. Cardinality(files'[i]) \in Nat /\ Cardinality(files'[i]) <= MaxFile - 1
        <4>1. CASE T!NeedsFile /\ files' = Append(files, {}) /\ counted' = 0
          <5>1. files'[i] = {}
            BY <1>2, <2>2, <4>1, AppendProperties
          <5> QED
            BY <1>2, <5>1, FS_EmptySet
        <4>2. CASE ~T!NeedsFile /\ files' = files
          <5>1. files # <<>> /\ counted + 1 <= MaxFile
            BY <1>2, <4>2 DEF T!NeedsFile
          <5>2. Cardinality(files[i]) <= counted
            BY <2>2, <4>2, <5>1 DEF TInv, TFiles
          <5>3. Cardinality(files[i]) \in Nat
            BY <1>8, <4>2
          <5> QED
            BY <1>2, <4>2, <5>1, <5>2, <5>3
        <4> QED
          BY <1>3, <4>1, <4>2
      <3>2. Cardinality(InFlight(appends', i)) \in Nat /\ Cardinality(InFlight(appends', i)) <= setup.writers
        BY <1>9
      <3> QED
        BY <1>2, <3>1, <3>2
    <2> QED
      BY <2>1, <2>2
  <1>12. TFiles'
    BY <1>1, <1>6, <1>10, <1>11 DEF TFiles
  <1>13. Grows
    BY <1>4 DEF Grows
  <1>14. TWarm'
    BY <1>1, <1>7, <1>13, GrowKeeps
  <1>15. THot'
    BY <1>1 DEF TInv, THot, T!Total, T!Rules
  <1> QED
    BY <1>7, <1>12, <1>14, <1>15 DEF TInv

(* A finished append is in its file, and no longer under way to it. *)
LEMMA TierAppended ==
    ASSUME TInv, NEW x \in appends, T!Appended(x)
    PROVE  TInv'
  <1> DEFINE n == x.file
  <1>1. /\ appends' = appends \ {x} /\ counted' = counted + 1
        /\ files' = [files EXCEPT ![n] = files[n] \cup {x.event}]
        /\ UNCHANGED <<setup, warm, agg, hot, promo>>
    BY DEF T!Appended
  <1>2. /\ setup.writers \in Nat /\ MaxFile \in Nat \ {0} /\ files \in Seq(SUBSET Events)
        /\ Len(files) \in Nat /\ DOMAIN files = 1..Len(files) /\ counted \in Nat
        /\ IsFiniteSet(appends) /\ Cardinality(appends) \in Nat
        /\ n \in DOMAIN files /\ x.event \in Events
    BY TierTypes, LenProperties, FS_CardinalityType DEF TInv, TShape
  <1> HIDE DEF n
  <1>3. files[n] \in SUBSET Events /\ files[n] \cup {x.event} \in SUBSET Events
    BY <1>2, ElementOfSeq
  <1>4. /\ files' \in Seq(SUBSET Events) /\ Len(files') = Len(files) /\ DOMAIN files' = DOMAIN files
        /\ files'[n] = files[n] \cup {x.event} /\ \A i \in DOMAIN files : i # n => files'[i] = files[i]
    BY <1>1, <1>2, <1>3, ExceptSeq, LenProperties
  <1>5. \A i \in DOMAIN files : IsFiniteSet(files[i]) /\ Cardinality(files[i]) \in Nat
    BY <1>2, ElementOfSeq, EventsFinite
  <1>6. /\ Cardinality(files'[n]) \in Nat
        /\ Cardinality(files'[n]) <= Cardinality(files[n]) + 1
    <2>1. IsFiniteSet(files[n]) /\ Cardinality(files[n]) \in Nat
      BY <1>2, <1>5
    <2>2. /\ Cardinality(files[n] \cup {x.event}) \in Nat
          /\ Cardinality(files[n] \cup {x.event}) <= Cardinality(files[n]) + 1
      BY <2>1, OneMore
    <2> QED
      BY <1>4, <2>2
  <1>7. IsFiniteSet(appends') /\ Cardinality(appends') <= Cardinality(appends)
    <2>1. Cardinality(appends') = Cardinality(appends) - 1 /\ IsFiniteSet(appends')
      BY <1>1, <1>2, FS_RemoveElement
    <2> QED
      BY <1>2, <2>1
  <1>8. TShape'
    BY <1>1, <1>2, <1>4, <1>7 DEF TInv, TShape, T!Rules
  <1>9. \A i : /\ IsFiniteSet(InFlight(appends, i)) /\ Cardinality(InFlight(appends, i)) \in Nat
              /\ InFlight(appends', i) = InFlight(appends, i) \ {x}
    <2> TAKE i
    <2>1. InFlight(appends, i) \in SUBSET appends
      BY DEF InFlight
    <2>2. InFlight(appends', i) = InFlight(appends, i) \ {x}
      BY <1>1 DEF InFlight
    <2> QED
      BY <1>2, <2>1, <2>2, FS_Subset, FS_CardinalityType
  <1>10. ASSUME NEW i \in DOMAIN files'
         PROVE  Cardinality(files'[i]) + Cardinality(InFlight(appends', i)) <= MaxFile + setup.writers - 1
    <2>1. Cardinality(files[i]) + Cardinality(InFlight(appends, i)) <= MaxFile + setup.writers - 1
      BY <1>4 DEF TInv, TFiles
    <2>2. CASE i = n
      <3>1. x \in InFlight(appends, i)
        BY <2>2 DEF InFlight, n
      <3>2. Cardinality(InFlight(appends', i)) = Cardinality(InFlight(appends, i)) - 1
        BY <1>9, <3>1, FS_RemoveElement
      <3> QED
        BY <1>2, <1>5, <1>6, <1>9, <2>1, <2>2, <3>2
    <2>3. CASE i # n
      <3>1. x \notin InFlight(appends, i)
        BY <2>3 DEF InFlight, n
      <3>2. InFlight(appends', i) = InFlight(appends, i) /\ files'[i] = files[i]
        BY <1>4, <1>9, <2>3, <3>1
      <3> QED
        BY <2>1, <3>2
    <2> QED
      BY <2>2, <2>3
  <1>11. files' # <<>> => Cardinality(files'[Len(files')]) <= counted'
    <2>1. files # <<>>
      BY <1>2
    <2>2. Len(files) \in DOMAIN files /\ Cardinality(files[Len(files)]) <= counted
      BY <1>2, <2>1 DEF TInv, TFiles
    <2> QED
      BY <1>1, <1>2, <1>4, <1>5, <1>6, <2>2
  <1>12. TFiles'
    <2>1. Cardinality(appends') <= setup.writers
      <3>1. Cardinality(appends') \in Nat /\ Cardinality(appends) <= setup.writers
        BY <1>7, FS_CardinalityType DEF TInv, TFiles
      <3> QED
        BY <1>2, <1>7, <3>1
    <2> QED
      BY <1>1, <1>10, <1>11, <2>1 DEF TFiles
  <1>13. Grows
    BY <1>2, <1>4 DEF Grows
  <1>14. TWarm'
    BY <1>1, <1>8, <1>13, GrowKeeps
  <1>15. THot'
    BY <1>1 DEF TInv, THot, T!Total, T!Rules
  <1> QED
    BY <1>8, <1>12, <1>14, <1>15 DEF TInv

(* Records of an aggregation are equal when their fields are. *)
LEMMA SameStep ==
    ASSUME NEW v \in AggSteps, NEW u \in AggSteps,
           v.at = u.at, v.unread = u.unread, v.seen = u.seen, v.todo = u.todo, v.start = u.start
    PROVE  v = u
  BY DEF AggSteps

(* A step of one of several aggregations says nothing about the warm documents. *)
LEMMA TierRead ==
    ASSUME TInv, NEW a \in DOMAIN agg, T!aggregate(a) \/ T!loadColdEvents(a) \/ T!Loaded(a)
    PROVE  TInv'
  <1>1. UNCHANGED <<setup, files, counted, appends, warm, hot, promo>>
    BY DEF T!aggregate, T!loadColdEvents, T!Loaded
  <1>2. /\ files \in Seq(SUBSET Events) /\ DOMAIN files \subseteq Nat /\ a \in 1..setup.aggregators
        /\ \A i \in DOMAIN files : files[i] \in SUBSET Events
    BY LenProperties, ElementOfSeq DEF TInv, TShape
  <1>3. T!Logged \in SUBSET Events /\ UNCHANGED T!Logged
    BY <1>1, <1>2, LoggedIs DEF T!Logged
  <1>4. agg[a] \in AggSteps
    BY <1>2 DEF TInv, TShape
  <1>5. CASE T!aggregate(a)
    <2> DEFINE r == [at |-> "read", unread |-> DOMAIN files, seen |-> {}, todo |-> {}, start |-> T!Logged]
    <2>1. agg' = [agg EXCEPT ![a] = r]
      <3>1. agg' = [agg EXCEPT ![a] = [T!NoAgg EXCEPT !.at = "read", !.unread = DOMAIN files, !.start = T!Logged]]
        BY <1>5 DEF T!aggregate, T!ColdFiles
      <3>2. [T!NoAgg EXCEPT !.at = "read", !.unread = DOMAIN files, !.start = T!Logged] = r
        <4> DEFINE v1 == [T!NoAgg EXCEPT !.at = "read"]
                   v2 == [v1 EXCEPT !.unread = DOMAIN files]
                   v3 == [v2 EXCEPT !.start = T!Logged]
        <4>1. v1 \in AggSteps /\ v1.at = "read" /\ v1.seen = {} /\ v1.todo = {}
          BY DEF T!NoAgg, AggSteps
        <4> HIDE DEF v1
        <4>2. v2 \in AggSteps /\ v2.at = "read" /\ v2.unread = DOMAIN files /\ v2.seen = {} /\ v2.todo = {}
          BY <1>2, <4>1 DEF AggSteps
        <4> HIDE DEF v2
        <4>3. v3 \in AggSteps /\ v3.at = "read" /\ v3.unread = DOMAIN files /\ v3.seen = {} /\ v3.todo = {} /\ v3.start = T!Logged
          BY <1>3, <4>2 DEF AggSteps
        <4> HIDE DEF v3
        <4>4. r \in AggSteps
          BY <1>2, <1>3 DEF AggSteps
        <4>5. v3 = r
          BY <4>3, <4>4, SameStep
        <4> QED
          BY <4>5 DEF v1, v2, v3
      <3> QED
        BY <3>1, <3>2
    <2>2. r \in AggSteps
      BY <1>2, <1>3 DEF AggSteps
    <2>3. agg' \in [1..setup.aggregators -> AggSteps] /\ agg'[a] = r
      BY <1>2, <2>1, <2>2 DEF TInv, TShape
    <2>4. TShape'
      <3>1. \A b \in 1..setup.aggregators : agg'[b].unread \subseteq DOMAIN files
        BY <1>2, <2>1 DEF TInv, TShape
      <3> QED
        BY <1>1, <2>3, <3>1 DEF TInv, TShape, T!Rules
    <2>5. TWarm'
      <3> SUFFICES ASSUME setup.aggregators = 1 PROVE TWarm'
        BY <1>1 DEF TWarm
      <3>1. agg'[1] = r
        BY <1>2, <2>3
      <3> QED
        BY <1>1, <1>3, <3>1, LoggedIs DEF TWarm
    <2> QED
      BY <1>1, <2>4, <2>5 DEF TInv, TFiles, THot, T!Total, T!Rules
  <1>6. CASE T!loadColdEvents(a)
    <2>1. PICK i \in agg[a].unread : /\ agg[a].at = "read"
                                     /\ agg' = [agg EXCEPT ![a].unread = @ \ {i}, ![a].seen = @ \cup files[i]]
      BY <1>6 DEF T!loadColdEvents
    <2>2. i \in DOMAIN files /\ files[i] \in SUBSET Events
      BY <1>2 DEF TInv, TShape
    <2> DEFINE r == [at |-> "read", unread |-> agg[a].unread \ {i}, seen |-> agg[a].seen \cup files[i],
                     todo |-> agg[a].todo, start |-> agg[a].start]
    <2>3. r \in AggSteps
      BY <1>4, <2>2 DEF AggSteps
    <2>10. [[agg[a] EXCEPT !.unread = @ \ {i}] EXCEPT !.seen = @ \cup files[i]] = r
      <3> DEFINE v == [agg[a] EXCEPT !.unread = @ \ {i}]
                 u == [v EXCEPT !.seen = @ \cup files[i]]
      <3>1. /\ v \in AggSteps /\ v.at = "read" /\ v.unread = agg[a].unread \ {i} /\ v.seen = agg[a].seen
            /\ v.todo = agg[a].todo /\ v.start = agg[a].start
        BY <1>4, <2>1 DEF AggSteps
      <3> HIDE DEF v
      <3>2. /\ u \in AggSteps /\ u.at = "read" /\ u.unread = v.unread /\ u.seen = agg[a].seen \cup files[i]
            /\ u.todo = agg[a].todo /\ u.start = agg[a].start
        BY <2>2, <3>1 DEF AggSteps
      <3> HIDE DEF u
      <3>3. u = r
        BY <2>3, <3>1, <3>2, SameStep
      <3> QED
        BY <3>3 DEF u, v
    <2>4. agg' = [agg EXCEPT ![a] = r]
      <3> DEFINE mid == [agg EXCEPT ![a].unread = @ \ {i}]
      <3>1. mid[a] = [agg[a] EXCEPT !.unread = @ \ {i}]
        BY <1>2 DEF TInv, TShape
      <3>2. agg' = [mid EXCEPT ![a] = [mid[a] EXCEPT !.seen = @ \cup files[i]]]
        BY <2>1
      <3>3. agg' = [mid EXCEPT ![a] = r]
        BY <2>10, <3>1, <3>2
      <3> QED
        BY <1>2, <3>3 DEF TInv, TShape
    <2>6. agg' \in [1..setup.aggregators -> AggSteps] /\ agg'[a] = r /\ \A b \in 1..setup.aggregators : b # a => agg'[b] = agg[b]
      BY <1>2, <2>3, <2>4 DEF TInv, TShape
    <2>7. \A b \in 1..setup.aggregators : agg'[b].unread \subseteq agg[b].unread
      BY <1>2, <2>6
    <2>8. TShape'
      BY <1>1, <2>6, <2>7 DEF TInv, TShape, T!Rules
    <2>9. TWarm'
      <3> SUFFICES ASSUME setup.aggregators = 1 PROVE TWarm'
        BY <1>1 DEF TWarm
      <3>1. a = 1 /\ agg'[1] = r
        BY <1>2, <2>6
      <3>2. /\ agg[1].start \subseteq agg[1].seen \cup UNION {files[j] : j \in agg[1].unread}
            /\ agg[1].seen \subseteq T!Logged
        BY <2>1, <3>1 DEF TInv, TWarm
      <3>3. r.start \subseteq r.seen \cup UNION {files[j] : j \in r.unread}
        BY <3>1, <3>2
      <3>4. r.seen \subseteq T!Logged
        BY <2>2, <3>1, <3>2, LoggedIs
      <3> QED
        BY <1>1, <1>3, <3>1, <3>3, <3>4 DEF TWarm
    <2> QED
      BY <1>1, <2>8, <2>9 DEF TInv, TFiles, THot, T!Total, T!Rules
  <1>7. CASE T!Loaded(a)
    <2> DEFINE r == [at |-> "write", unread |-> agg[a].unread, seen |-> agg[a].seen, todo |-> T!Rules, start |-> agg[a].start]
    <2>1. /\ agg[a].at = "read" /\ agg[a].unread = {}
          /\ agg' = [agg EXCEPT ![a].at = "write", ![a].todo = T!Rules]
      BY <1>7 DEF T!Loaded
    <2>4. r \in AggSteps
      BY <1>4 DEF AggSteps
    <2>2. [[agg[a] EXCEPT !.at = "write"] EXCEPT !.todo = T!Rules] = r
      <3> DEFINE v == [agg[a] EXCEPT !.at = "write"]
                 u == [v EXCEPT !.todo = T!Rules]
      <3>1. /\ v \in AggSteps /\ v.at = "write" /\ v.unread = agg[a].unread /\ v.seen = agg[a].seen
            /\ v.start = agg[a].start
        BY <1>4 DEF AggSteps
      <3> HIDE DEF v
      <3>2. /\ u \in AggSteps /\ u.at = "write" /\ u.unread = agg[a].unread /\ u.seen = agg[a].seen
            /\ u.todo = T!Rules /\ u.start = agg[a].start
        BY <3>1 DEF AggSteps
      <3> HIDE DEF u
      <3>3. u = r
        BY <2>4, <3>2, SameStep
      <3> QED
        BY <3>3 DEF u, v
    <2>3. agg' = [agg EXCEPT ![a] = r]
      <3> DEFINE mid == [agg EXCEPT ![a].at = "write"]
      <3>1. mid[a] = [agg[a] EXCEPT !.at = "write"]
        BY <1>2 DEF TInv, TShape
      <3>2. agg' = [mid EXCEPT ![a] = [mid[a] EXCEPT !.todo = T!Rules]]
        BY <2>1
      <3>3. agg' = [mid EXCEPT ![a] = r]
        BY <2>2, <3>1, <3>2
      <3> QED
        BY <1>2, <3>3 DEF TInv, TShape
    <2>5. agg' \in [1..setup.aggregators -> AggSteps] /\ agg'[a] = r /\ \A b \in 1..setup.aggregators : b # a => agg'[b] = agg[b]
      BY <1>2, <2>3, <2>4 DEF TInv, TShape
    <2>6. \A b \in 1..setup.aggregators : agg'[b].unread \subseteq agg[b].unread
      BY <1>2, <2>5
    <2>7. TShape'
      BY <1>1, <2>5, <2>6 DEF TInv, TShape, T!Rules
    <2>8. TWarm'
      <3> SUFFICES ASSUME setup.aggregators = 1 PROVE TWarm'
        BY <1>1 DEF TWarm
      <3>1. a = 1 /\ agg'[1] = r
        BY <1>2, <2>5
      <3>2. agg[1].start \subseteq agg[1].seen /\ agg[1].seen \subseteq T!Logged
        BY <2>1, <3>1 DEF TInv, TWarm
      <3> QED
        BY <1>1, <1>3, <3>1, <3>2 DEF TWarm, T!Rules
    <2> QED
      BY <1>1, <2>7, <2>8 DEF TInv, TFiles, THot, T!Total, T!Rules
  <1> QED
    BY <1>5, <1>6, <1>7

(* A document is written when it has events and is not too large; then it shows *)
(* all that was read, so all that was there at the start.                       *)
LEMMA TierRule ==
    ASSUME TInv, NEW a \in DOMAIN agg, NEW r \in T!Rules, T!AggregateRule(a, r)
    PROVE  TInv'
  <1> DEFINE content == TOf(r, agg[a].seen)
             next == IF agg[a].todo = {r} THEN "idle" ELSE "write"
             u == [at |-> next, unread |-> agg[a].unread, seen |-> agg[a].seen,
                   todo |-> agg[a].todo \ {r}, start |-> agg[a].start]
  <1>1. /\ agg[a].at = "write" /\ r \in agg[a].todo
        /\ warm' = IF content = {} \/ Cardinality(content) > WarmLimit THEN warm ELSE [warm EXCEPT ![r] = content]
        /\ agg' = [agg EXCEPT ![a].todo = @ \ {r}, ![a].at = IF agg[a].todo = {r} THEN "idle" ELSE @]
        /\ UNCHANGED <<setup, files, counted, appends, hot, promo>>
    BY TierCounts DEF T!AggregateRule, T!Of, TOf
  <1>2. a \in 1..setup.aggregators /\ agg \in [1..setup.aggregators -> AggSteps] /\ agg[a] \in AggSteps
    BY DEF TInv, TShape
  <1>3. content \in SUBSET Events /\ content = TOf(r, content)
    BY <1>2 DEF TOf, AggSteps
  <1>4. agg' = [agg EXCEPT ![a] = u]
    <2> DEFINE mid == [agg EXCEPT ![a].todo = @ \ {r}]
    <2>1. mid[a] = [agg[a] EXCEPT !.todo = @ \ {r}]
      BY <1>2
    <2>2. mid[a].at = "write"
      BY <1>1, <1>2, <2>1 DEF AggSteps
    <2>3. agg' = [mid EXCEPT ![a] = [mid[a] EXCEPT !.at = next]]
      BY <1>1, <2>2
    <2>4. [[agg[a] EXCEPT !.todo = @ \ {r}] EXCEPT !.at = next] = u
      <3> DEFINE v == [agg[a] EXCEPT !.todo = @ \ {r}]
                 x == [v EXCEPT !.at = next]
      <3>1. /\ v \in AggSteps /\ v.unread = agg[a].unread /\ v.seen = agg[a].seen
            /\ v.todo = agg[a].todo \ {r} /\ v.start = agg[a].start
        BY <1>2 DEF AggSteps
      <3> HIDE DEF v
      <3>2. next \in {"idle", "write"}
        OBVIOUS
      <3>3. u \in AggSteps /\ u.at = next
        BY <1>2, <3>2 DEF AggSteps
      <3> HIDE DEF next
      <3>4. /\ x \in AggSteps /\ x.at = next /\ x.unread = agg[a].unread /\ x.seen = agg[a].seen
            /\ x.todo = agg[a].todo \ {r} /\ x.start = agg[a].start
        BY <3>1, <3>2 DEF AggSteps
      <3> HIDE DEF x
      <3>5. x = u
        BY <3>3, <3>4, SameStep
      <3> QED
        BY <3>5 DEF x, v
    <2>5. agg' = [mid EXCEPT ![a] = u]
      BY <2>1, <2>3, <2>4
    <2> QED
      BY <1>2, <2>5
  <1>5. u \in AggSteps
    BY <1>2 DEF AggSteps
  <1>6. agg' \in [1..setup.aggregators -> AggSteps] /\ agg'[a] = u /\ \A b \in 1..setup.aggregators : b # a => agg'[b] = agg[b]
    BY <1>2, <1>4, <1>5
  <1>7. \A b \in 1..setup.aggregators : agg'[b].unread \subseteq agg[b].unread
    BY <1>2, <1>6
  <1> HIDE DEF content
  <1>8. /\ warm' \in [T!Rules -> SUBSET Events]
        /\ warm'[r] = IF content = {} \/ Cardinality(content) > WarmLimit THEN warm[r] ELSE content
        /\ \A o \in T!Rules : o # r => warm'[o] = warm[o]
    BY <1>1, <1>3 DEF TInv, TShape
  <1>9. \A o \in T!Rules : warm'[o] = TOf(o, warm'[o])
    BY <1>3, <1>8 DEF TInv, TShape
  <1>10. TShape'
    BY <1>1, <1>6, <1>7, <1>8, <1>9 DEF TInv, TShape, T!Rules
  <1>11. TWarm'
    <2> SUFFICES ASSUME setup.aggregators = 1 PROVE TWarm'
      BY <1>1 DEF TWarm
    <2>1. a = 1 /\ agg'[1] = u
      BY <1>2, <1>6
    <2>2. /\ agg[1].start \subseteq agg[1].seen /\ agg[1].seen \subseteq T!Logged
          /\ \A o \in T!Rules \ agg[1].todo :
                TOf(o, agg[1].start) \subseteq warm[o] \/ Cardinality(TOf(o, T!Logged)) > WarmLimit
      BY <1>1, <2>1 DEF TInv, TWarm
    <2>3. T!Logged \in SUBSET Events /\ UNCHANGED T!Logged
      <3>1. \A i \in DOMAIN files : files[i] \in SUBSET Events
        BY LenProperties, ElementOfSeq DEF TInv, TShape
      <3> QED
        BY <1>1, <3>1, LoggedIs DEF T!Logged
    <2>4. TOf(r, agg[1].start) \subseteq content /\ content \subseteq TOf(r, T!Logged)
      BY <2>1, <2>2 DEF content, TOf
    <2>5. TOf(r, agg[1].start) \subseteq warm'[r] \/ Cardinality(TOf(r, T!Logged)) > WarmLimit
      <3>1. CASE Cardinality(content) > WarmLimit
        <4>1. TOf(r, T!Logged) \in SUBSET Events
          BY <2>3 DEF TOf
        <4>2. /\ Cardinality(content) \in Nat /\ Cardinality(TOf(r, T!Logged)) \in Nat
              /\ Cardinality(content) <= Cardinality(TOf(r, T!Logged))
          BY <1>3, <2>4, <4>1, EventsFinite
        <4> QED
          BY <3>1, <4>2, TierTypes
      <3>2. CASE ~(Cardinality(content) > WarmLimit)
        BY <1>8, <2>4, <3>2
      <3> QED
        BY <3>1, <3>2
    <2>6. \A o \in T!Rules \ u.todo :
              TOf(o, u.start) \subseteq warm'[o] \/ Cardinality(TOf(o, T!Logged)) > WarmLimit
      BY <1>8, <2>1, <2>2, <2>5
    <2>7. u.at = "idle" => u.todo = {}
      OBVIOUS
    <2>8. /\ agg'[1].at = u.at /\ agg'[1].seen = agg[1].seen /\ agg'[1].start = agg[1].start /\ agg'[1].todo = u.todo
          /\ u.start = agg[1].start /\ u.at \in {"idle", "write"}
      BY <2>1
    <2> HIDE DEF u
    <2> QED
      BY <1>1, <2>2, <2>3, <2>6, <2>7, <2>8 DEF TWarm, T!Rules
  <1> QED
    BY <1>1, <1>10, <1>11 DEF TInv, TFiles, THot, T!Total, T!Rules

(* The tier without one document, and with it: no event is in two documents. *)
Rest(h, r) == UNION {h[o] : o \in T!Rules \ {r}}
LEMMA TotalParts ==
    ASSUME NEW h \in [T!Rules -> SUBSET Events], \A o \in T!Rules : h[o] = TOf(o, h[o]), NEW r \in T!Rules
    PROVE  /\ Cardinality(Rest(h, r)) \in Nat /\ Cardinality(h[r]) \in Nat
           /\ Cardinality(UNION {h[o] : o \in T!Rules}) = Cardinality(Rest(h, r)) + Cardinality(h[r])
  <1>1. Rest(h, r) \in SUBSET Events /\ h[r] \in SUBSET Events
    BY DEF Rest
  <1>2. UNION {h[o] : o \in T!Rules} = Rest(h, r) \cup h[r]
    BY DEF Rest
  <1>3. Rest(h, r) \cap h[r] = {}
    BY DEF Rest, TOf
  <1>4. /\ IsFiniteSet(Rest(h, r)) /\ IsFiniteSet(h[r])
        /\ Cardinality(Rest(h, r)) \in Nat /\ Cardinality(h[r]) \in Nat
    BY <1>1, EventsFinite
  <1>5. Cardinality(Rest(h, r) \cup h[r]) = Cardinality(Rest(h, r)) + Cardinality(h[r]) - Cardinality({})
    <2>1. \A S, U : IsFiniteSet(S) /\ IsFiniteSet(U) =>
              Cardinality(S \cup U) = Cardinality(S) + Cardinality(U) - Cardinality(S \cap U)
      BY FS_Union, Zenon
    <2>2. Cardinality(Rest(h, r) \cup h[r]) = Cardinality(Rest(h, r)) + Cardinality(h[r]) - Cardinality(Rest(h, r) \cap h[r])
      BY <1>4, <2>1, Zenon
    <2> QED
      BY <1>3, <2>2
  <1>6. Cardinality({}) = 0
    BY FS_EmptySet
  <1>7. Cardinality(Rest(h, r) \cup h[r]) = Cardinality(Rest(h, r)) + Cardinality(h[r])
    BY <1>4, <1>5, <1>6
  <1> QED
    BY <1>2, <1>4, <1>7

LEMMA TierPromote ==
    ASSUME TInv, NEW r \in T!Rules, T!promote(r)
    PROVE  TInv'
  <1> DEFINE x == [doc |-> r, content |-> warm[r]]
  <1>1. /\ Cardinality(promo) < setup.promoters
        /\ promo' = promo \/ (T!Fits(r, warm[r]) /\ promo' = promo \cup {x})
        /\ UNCHANGED <<setup, files, counted, appends, warm, agg, hot>>
    BY TierCounts DEF T!promote
  <1>2. /\ promo \subseteq [doc : T!Rules, content : SUBSET Events] /\ IsFiniteSet(promo)
        /\ \A y \in promo : y.content = TOf(y.doc, y.content)
        /\ warm[r] \in SUBSET Events /\ warm[r] = TOf(r, warm[r])
    BY DEF TInv, TShape
  <1>3. x \in [doc : T!Rules, content : SUBSET Events] /\ x.doc = r /\ x.content = warm[r]
    BY <1>2
  <1> HIDE DEF x
  <1>4. IsFiniteSet(promo')
    BY <1>1, <1>2, OneMore
  <1>5. promo' \subseteq [doc : T!Rules, content : SUBSET Events] /\ \A y \in promo' : y.content = TOf(y.doc, y.content)
    BY <1>1, <1>2, <1>3
  <1>6. TShape'
    BY <1>1, <1>4, <1>5 DEF TInv, TShape, T!Rules
  <1>7. TFiles' /\ TWarm'
    BY <1>1 DEF TInv, TFiles, TWarm, T!Logged, T!Rules
  <1>8. THot'
    <2> SUFFICES ASSUME setup.promoters = 1 PROVE THot'
      BY <1>1 DEF THot
    <2>1. promo = {}
      <3>1. Cardinality(promo) \in Nat /\ Cardinality(promo) < 1
        BY <1>1, <1>2, FS_CardinalityType
      <3> QED
        BY <1>2, <3>1, FS_EmptySet
    <2>2. UNCHANGED T!Total
      BY <1>1 DEF T!Total, T!Rules
    <2>3. T!Fits(r, warm[r]) => T!Total - Cardinality(hot[r]) + Cardinality(warm[r]) <= HotLimit
      BY TierCounts DEF T!Fits
    <2>4. \A y \in promo' : y = x /\ T!Fits(r, warm[r])
      BY <1>1, <2>1
    <2>5. T!Total <= HotLimit
      BY DEF TInv, THot
    <2> QED
      BY <1>1, <1>3, <2>2, <2>3, <2>4, <2>5 DEF THot
  <1> QED
    BY <1>6, <1>7, <1>8 DEF TInv

LEMMA TierPromoted ==
    ASSUME TInv, NEW x \in promo, T!Promoted(x)
    PROVE  TInv'
  <1> DEFINE r == x.doc
  <1>1. /\ promo' = promo \ {x} /\ hot' = [hot EXCEPT ![r] = x.content]
        /\ UNCHANGED <<setup, files, counted, appends, warm, agg>>
    BY DEF T!Promoted
  <1>2. /\ r \in T!Rules /\ x.content \in SUBSET Events /\ x.content = TOf(r, x.content)
        /\ hot \in [T!Rules -> SUBSET Events] /\ \A o \in T!Rules : hot[o] = TOf(o, hot[o])
    BY DEF TInv, TShape
  <1> HIDE DEF r
  <1>3. /\ hot' \in [T!Rules -> SUBSET Events] /\ hot'[r] = x.content
        /\ \A o \in T!Rules : o # r => hot'[o] = hot[o]
        /\ \A o \in T!Rules : hot'[o] = TOf(o, hot'[o])
    BY <1>1, <1>2
  <1>4. IsFiniteSet(promo')
    BY <1>1, FS_RemoveElement DEF TInv, TShape
  <1>5. TShape'
    BY <1>1, <1>3, <1>4 DEF TInv, TShape, T!Rules
  <1>6. TFiles' /\ TWarm'
    BY <1>1 DEF TInv, TFiles, TWarm, T!Logged, T!Rules
  <1>7. THot'
    <2> SUFFICES ASSUME setup.promoters = 1 PROVE THot'
      BY <1>1 DEF THot
    <2>1. promo' = {} /\ T!Total - Cardinality(hot[r]) + Cardinality(x.content) <= HotLimit
      BY <1>1 DEF TInv, THot, r
    <2>2. Rest(hot', r) = Rest(hot, r)
      BY <1>3 DEF Rest
    <2>3. /\ Cardinality(Rest(hot, r)) \in Nat /\ Cardinality(hot[r]) \in Nat
          /\ T!Total = Cardinality(Rest(hot, r)) + Cardinality(hot[r])
      BY <1>2, TotalParts, TierCounts
    <2>4. /\ Cardinality(hot'[r]) \in Nat
          /\ Cardinality(UNION {hot'[o] : o \in T!Rules}) = Cardinality(Rest(hot', r)) + Cardinality(hot'[r])
      BY <1>2, <1>3, TotalParts
    <2>5. T!Total' = Cardinality(UNION {hot'[o] : o \in T!Rules})
      BY DEF T!Total, T!Rules, T!Cardinality, Cardinality
    <2>6. T!Total' <= HotLimit
      BY <1>3, <2>1, <2>2, <2>3, <2>4, <2>5, TierTypes
    <2> QED
      BY <2>1, <2>6 DEF THot
  <1> QED
    BY <1>5, <1>6, <1>7 DEF TInv

LEMMA TierStep ==
    ASSUME TInv, [T!Next]_(T!vars)
    PROVE  TInv'
  <1>1. CASE UNCHANGED T!vars
    <2>1. UNCHANGED <<setup, files, counted, appends, warm, agg, hot, promo>>
      BY <1>1 DEF T!vars
    <2>2. UNCHANGED <<T!Total, T!Logged>>
      BY <2>1 DEF T!Total, T!Logged, T!Rules
    <2>3. TShape'
      BY <2>1 DEF TInv, TShape, T!Rules
    <2>4. TFiles' /\ TWarm' /\ THot'
      BY <2>1, <2>2 DEF TInv, TFiles, TWarm, THot, T!Rules
    <2> QED
      BY <2>3, <2>4 DEF TInv
  <1>2. CASE T!Next
    BY <1>2, TierLog, TierAppended, TierRead, TierRule, TierPromote, TierPromoted DEF T!Next
  <1> QED
    BY <1>1, <1>2

LEMMA TiersHold == TInv => T!FileBounded /\ T!WarmComplete /\ T!HotBounded
  <1> SUFFICES ASSUME TInv PROVE T!FileBounded /\ T!WarmComplete /\ T!HotBounded
    OBVIOUS
  <1>1. T!FileBounded
    <2> SUFFICES ASSUME NEW i \in DOMAIN files PROVE Cardinality(files[i]) <= MaxFile + setup.writers - 1
      BY TierCounts DEF T!FileBounded
    <2>1. Cardinality(files[i]) + Cardinality(InFlight(appends, i)) <= MaxFile + setup.writers - 1
      BY DEF TInv, TFiles
    <2>2. files[i] \in SUBSET Events
      BY LenProperties, ElementOfSeq DEF TInv, TShape
    <2>3. Cardinality(files[i]) \in Nat
      BY <2>2, EventsFinite
    <2>4. InFlight(appends, i) \in SUBSET appends /\ IsFiniteSet(appends)
      BY DEF InFlight, TInv, TShape
    <2>5. Cardinality(InFlight(appends, i)) \in Nat
      BY <2>4, FS_Subset, FS_CardinalityType
    <2>6. MaxFile \in Nat /\ setup.writers \in Nat
      BY TierTypes DEF TInv, TShape
    <2> QED
      BY <2>1, <2>3, <2>5, <2>6
  <1>2. T!WarmComplete
    BY TierCounts DEF TInv, TWarm, T!WarmComplete, T!Of, TOf
  <1>3. T!HotBounded
    BY DEF TInv, THot, T!HotBounded
  <1> QED
    BY <1>1, <1>2, <1>3

(* The tiers keep their limits, and an aggregation shows every event that was   *)
(* there when it began: for any number of writers and events, and any limits    *)
(* (cold-tier.ts, warm-aggregation.ts, hot-promotion.ts).                       *)
THEOREM TiersKeepLimits == Spec => []TiersKept
  <1> DEFINE Inv == part = "tiers" => TInv
  <1>1. Init => Inv
    BY TierInit DEF Init, MInit, NInit, BInit, TInit, CInit, IInit, PInit, WInit, VInit, RInit, KInit
  <1>2. Inv /\ [Next]_vars => Inv'
    BY OnePart, TierStep
  <1>3. Inv => TiersKept
    BY TiersHold DEF TiersKept
  <1> QED
    BY <1>1, <1>2, <1>3, PTL DEF Spec

-----------------------------------------------------------------------------
(* Curation.  With one run of the command at a time and no task handed back, a  *)
(* task only goes forward, so the scan does not pass an open one by (Ahead):    *)
(* once it has listed every open status there is none, and what it then reads   *)
(* of the latest completion stays true until the new task is there.             *)

OpenTask(t) == tasks[t].status \notin {"none", "done", "cancelled", "deadletter"}
OneCommand == setup.generators = 1 /\ setup.requeues = 0
Ahead(t, i) ==
    /\ tasks[t].status = "backlog" => i <= 1
    /\ tasks[t].status = "ready" => i <= 2
    /\ tasks[t].status = "in-progress" => i <= 3
CuratedTask == [status : {"none", "backlog", "ready", "in-progress", "done", "deadletter"}, at : Nat]
Command == [at : {"idle", "counted", "scan", "interval", "create", "ready"}, n : Nat, i : 1..5,
            interval : Nat, began : Nat, task : (1..MaxTasks) \cup {0}]

CTypes ==
    /\ setup \in CurationSetups /\ now \in Nat /\ count \in Nat
    /\ tasks \in [1..MaxTasks -> CuratedTask] /\ \A t \in 1..MaxTasks : tasks[t].at <= now
    /\ gen \in [1..setup.generators -> Command]
    /\ \A g \in 1..setup.generators : gen[g].began <= now /\ (gen[g].at = "ready" => gen[g].task \in 1..MaxTasks)
    /\ budget \in [requeues : Nat, crashes : Nat] /\ budget.requeues <= setup.requeues
CScan ==
    /\ \A t, u \in 1..MaxTasks : OpenTask(t) /\ OpenTask(u) => t = u
    /\ gen[1].at = "scan" => \A t \in 1..MaxTasks : Ahead(t, gen[1].i)
    /\ gen[1].at \in {"interval", "create"} => \A t \in 1..MaxTasks : ~OpenTask(t)
    /\ gen[1].at = "create" =>
          \A d \in 1..MaxTasks : tasks[d].status = "done" => gen[1].began >= tasks[d].at + gen[1].interval
CInv == CTypes /\ (OneCommand => CScan)

(* A set of natural numbers has a least element, and a bounded one a greatest. *)
LEMMA Least ==
    ASSUME NEW S, S \subseteq Nat, S # {}
    PROVE  \E m \in S : \A k \in S : m <= k
  <1> DEFINE less == {ss \in Nat \X Nat : ss[1] < ss[2]}
  <1>1. IsWellFoundedOn(less, Nat)
    BY NatLessThanWellFounded DEF OpToRel
  <1>2. \A x, y \in Nat : y < x => <<y, x>> \in less
    OBVIOUS
  <1> HIDE DEF less
  <1>3. PICK x \in S : \A y \in S : ~(<<y, x>> \in less)
    BY <1>1, WFMin
  <1>4. \A y \in S : ~(y < x) /\ y \in Nat /\ x \in Nat
    BY <1>2, <1>3
  <1> QED
    BY <1>4

LEMMA Greatest ==
    ASSUME NEW S, S \subseteq Nat, S # {}, NEW bound \in Nat, \A k \in S : k <= bound
    PROVE  \E m \in S : \A k \in S : m >= k
  <1> DEFINE below == {bound - k : k \in S}
  <1>1. below \subseteq Nat
    OBVIOUS
  <1>0. below # {}
    <2>1. PICK k \in S : TRUE
      OBVIOUS
    <2>2. bound - k \in below
      BY <2>1
    <2> QED
      BY <2>2
  <1> HIDE DEF below
  <1>2. PICK m \in below : \A k \in below : m <= k
    BY <1>0, <1>1, Least
  <1>3. PICK k \in S : m = bound - k
    BY <1>2 DEF below
  <1>4. \A j \in S : bound - j \in below
    BY DEF below
  <1>5. \A j \in S : k >= j
    BY <1>2, <1>3, <1>4
  <1> QED
    BY <1>5

LEMMA CurationSetup ==
    ASSUME CTypes
    PROVE  /\ setup.generators \in Nat /\ setup.requeues \in Nat /\ setup.crashes \in Nat
           /\ setup.thresholds \in Seq([max : Nat, interval : Nat])
  BY CurationTypes DEF CTypes

LEMMA CurationInit == C!Init => CInv
  <1> SUFFICES ASSUME C!Init PROVE CInv
    OBVIOUS
  <1>1. /\ setup.generators \in Nat /\ setup.requeues \in Nat /\ setup.crashes \in Nat
    BY CurationTypes DEF C!Init
  <1>2. C!NoGen \in Command /\ C!NoGen.began = 0 /\ C!NoGen.at = "idle"
    BY DEF C!NoGen, Command
  <1>3. [status |-> "none", at |-> 0] \in CuratedTask
    BY DEF CuratedTask
  <1>4. CTypes
    BY <1>1, <1>2, <1>3 DEF C!Init, CTypes
  <1>5. OneCommand => CScan
    BY <1>1, <1>2 DEF C!Init, OneCommand, CScan, OpenTask
  <1> QED
    BY <1>4, <1>5 DEF CInv

(* The threshold selected is one of the pool's. *)
LEMMA Selected ==
    ASSUME NEW n, C!selectThreshold(n) # 0, CTypes
    PROVE  C!selectThreshold(n) \in DOMAIN setup.thresholds
  <1>1. setup.thresholds \in Seq([max : Nat, interval : Nat])
    BY CurationSetup
  <1> DEFINE over == {i \in DOMAIN setup.thresholds : n > setup.thresholds[i].max}
             Most(i) == \A j \in over : i >= j
  <1>2. over # {} /\ C!selectThreshold(n) = CHOOSE i \in over : Most(i)
    BY DEF C!selectThreshold
  <1>3. over \subseteq Nat /\ \A i \in over : i <= Len(setup.thresholds)
    BY <1>1
  <1> HIDE DEF over
  <1>4. \E m \in over : Most(m)
    <2>1. Len(setup.thresholds) \in Nat
      BY <1>1
    <2>2. PICK m \in over : \A k \in over : m >= k
      BY <1>2, <1>3, <2>1, Greatest
    <2> QED
      BY <2>2
  <1>5. C!selectThreshold(n) \in over
    BY <1>2, <1>4
  <1> QED
    BY <1>5 DEF over

(* A command that goes on to another step. *)
LEMMA CommandGoes ==
    ASSUME NEW r \in Command, NEW s \in {"idle", "counted", "scan", "interval", "create", "ready"}
    PROVE  /\ [r EXCEPT !.at = s] \in Command
           /\ [r EXCEPT !.at = s].at = s /\ [r EXCEPT !.at = s].began = r.began
  BY DEF Command

LEMMA CommandMakes ==
    ASSUME NEW r \in Command, NEW t \in 1..MaxTasks
    PROVE  LET q == [r EXCEPT !.at = "ready", !.task = t]
           IN  q \in Command /\ q.began = r.began /\ q.task = t
  BY DEF Command

LEMMA CommandGoesOn ==
    ASSUME NEW r \in Command, r.i # 5
    PROVE  /\ [r EXCEPT !.i = @ + 1] \in Command
           /\ [r EXCEPT !.i = @ + 1].began = r.began /\ [r EXCEPT !.i = @ + 1].at = r.at
  <1>1. r.i + 1 \in 1..5
    BY DEF Command
  <1> QED
    BY <1>1 DEF Command

(* What each action does to the types. *)
LEMMA CurationTyped ==
    ASSUME CTypes, [C!Next]_(C!vars)
    PROVE  CTypes'
  <1> USE DEF CTypes
  <1>0. /\ setup.generators \in Nat /\ setup.requeues \in Nat
        /\ DOMAIN gen = 1..setup.generators /\ C!NoGen \in Command
        /\ C!NoGen.began = 0 /\ C!NoGen.at = "idle" /\ C!NoGen.i = 1
    BY CurationSetup DEF C!NoGen, Command
  <1>1. ASSUME NEW t \in 1..MaxTasks, NEW s, s \in {"backlog", "ready", "in-progress", "done", "deadletter"},
               C!Move(t, s), UNCHANGED now
        PROVE  tasks' \in [1..MaxTasks -> CuratedTask] /\ \A u \in 1..MaxTasks : tasks'[u].at <= now'
    BY <1>1 DEF C!Move, CuratedTask
  <1>2. ASSUME NEW g \in 1..setup.generators, NEW r \in Command, gen' = [gen EXCEPT ![g] = r],
               r.began <= now, r.at = "ready" => r.task \in 1..MaxTasks, UNCHANGED <<setup, now>>
        PROVE  /\ gen' \in [1..setup.generators -> Command]
               /\ \A h \in 1..setup.generators : gen'[h].began <= now /\ (gen'[h].at = "ready" => gen'[h].task \in 1..MaxTasks)
    BY <1>2
  <1>3. CASE UNCHANGED C!vars
    BY <1>3 DEF C!vars
  <1>4. ASSUME NEW g \in 1..setup.generators, C!curate(g) PROVE CTypes'
    <2> DEFINE r == [gen[g] EXCEPT !.at = "counted", !.n = count]
    <2>1. gen[g] \in Command /\ gen[g].began <= now /\ count \in Nat
      BY <1>0
    <2>2. r \in Command /\ r.at = "counted" /\ r.began = gen[g].began
      BY <2>1 DEF Command
    <2>3. gen' = [gen EXCEPT ![g] = r] /\ UNCHANGED <<setup, now, count, tasks, budget>>
      BY <1>4 DEF C!curate
    <2> HIDE DEF r
    <2> QED
      BY <1>2, <2>1, <2>2, <2>3
  <1>5. ASSUME NEW g \in 1..setup.generators, C!generateCurationTasks(g) PROVE CTypes'
    <2> DEFINE i == C!selectThreshold(gen[g].n)
               r == [C!NoGen EXCEPT !.at = "scan", !.began = now, !.interval = setup.thresholds[i].interval]
    <2>1. i # 0 => setup.thresholds[i] \in [max : Nat, interval : Nat]
      <3>1. /\ setup.thresholds \in Seq([max : Nat, interval : Nat])
            /\ DOMAIN setup.thresholds = 1..Len(setup.thresholds)
        BY CurationSetup
      <3>2. i # 0 => i \in 1..Len(setup.thresholds)
        BY <3>1, Selected
      <3> QED
        BY <3>1, <3>2, ElementOfSeq
    <2>2. i # 0 => r \in Command /\ r.began = now /\ r.at = "scan"
      <3> SUFFICES ASSUME i # 0 PROVE r \in Command /\ r.began = now /\ r.at = "scan"
        OBVIOUS
      <3>1. ASSUME NEW v \in Nat
            PROVE  LET q == [C!NoGen EXCEPT !.at = "scan", !.began = now, !.interval = v]
                   IN  q \in Command /\ q.began = now /\ q.at = "scan"
        BY <1>0 DEF Command
      <3>2. setup.thresholds[i].interval \in Nat
        BY <2>1
      <3> QED
        BY <3>1, <3>2
    <2>3. gen' = [gen EXCEPT ![g] = IF i = 0 THEN C!NoGen ELSE r]
      BY <1>5 DEF C!generateCurationTasks
    <2>4. UNCHANGED <<setup, now, count, tasks, budget>>
      BY <1>5 DEF C!generateCurationTasks
    <2> HIDE DEF i, r
    <2>5. CASE i = 0
      BY <1>0, <1>2, <2>3, <2>4, <2>5
    <2>6. CASE i # 0
      BY <1>0, <1>2, <2>2, <2>3, <2>4, <2>6
    <2> QED
      BY <2>5, <2>6
  <1>6. ASSUME NEW g \in 1..setup.generators, C!hasOpenCurationTask(g) PROVE CTypes'
    <2>1. gen[g] \in Command /\ Len(C!openStatuses) = 5
      BY DEF C!openStatuses
    <2>2. [gen[g] EXCEPT !.at = "interval"] \in Command
          /\ (gen[g].i # 5 => [gen[g] EXCEPT !.i = @ + 1] \in Command)
      BY <2>1, CommandGoes, CommandGoesOn, Zenon
    <2>3. UNCHANGED <<setup, now, count, tasks, budget>>
      BY <1>6 DEF C!hasOpenCurationTask
    <2>4. \/ gen' = [gen EXCEPT ![g] = C!NoGen]
          \/ gen' = [gen EXCEPT ![g] = [gen[g] EXCEPT !.at = "interval"]]
          \/ gen[g].i # 5 /\ gen' = [gen EXCEPT ![g] = [gen[g] EXCEPT !.i = @ + 1]]
      <3> DEFINE found == \E t \in 1..MaxTasks : tasks[t].status = C!openStatuses[gen[g].i]
      <3>1. gen' = [gen EXCEPT ![g] = IF found THEN C!NoGen
                                      ELSE IF gen[g].i = Len(C!openStatuses) THEN [gen[g] EXCEPT !.at = "interval"]
                                      ELSE [gen[g] EXCEPT !.i = @ + 1]]
        BY <1>6, Zenon DEF C!hasOpenCurationTask
      <3> HIDE DEF found
      <3> QED
        BY <2>1, <3>1
    <2>5. gen[g].at = "scan"
      BY <1>6 DEF C!hasOpenCurationTask
    <2>6. [gen[g] EXCEPT !.at = "interval"].began <= now /\ [gen[g] EXCEPT !.at = "interval"].at = "interval"
          /\ [gen[g] EXCEPT !.i = @ + 1].began <= now /\ [gen[g] EXCEPT !.i = @ + 1].at = "scan"
      BY <2>1, <2>5 DEF Command
    <2> QED
      <3>1. CASE gen' = [gen EXCEPT ![g] = C!NoGen]
        BY <1>0, <1>2, <2>3, <3>1
      <3>2. CASE gen' = [gen EXCEPT ![g] = [gen[g] EXCEPT !.at = "interval"]]
        <4>1. /\ gen' \in [1..setup.generators -> Command]
              /\ \A h \in 1..setup.generators : gen'[h].began <= now /\ (gen'[h].at = "ready" => gen'[h].task \in 1..MaxTasks)
          BY <1>2, <2>2, <2>3, <2>6, <3>2
        <4> QED
          BY <2>3, <4>1
      <3>3. CASE gen[g].i # 5 /\ gen' = [gen EXCEPT ![g] = [gen[g] EXCEPT !.i = @ + 1]]
        <4>1. /\ gen' \in [1..setup.generators -> Command]
              /\ \A h \in 1..setup.generators : gen'[h].began <= now /\ (gen'[h].at = "ready" => gen'[h].task \in 1..MaxTasks)
          BY <1>2, <2>2, <2>3, <2>6, <3>3
        <4> QED
          BY <2>3, <4>1
      <3> QED
        BY <2>4, <3>1, <3>2, <3>3
  <1>7. ASSUME NEW g \in 1..setup.generators, C!shouldRunBasedOnInterval(g) PROVE CTypes'
    <2> DEFINE r == [gen[g] EXCEPT !.at = "create"]
    <2>1. gen[g] \in Command /\ gen[g].began <= now
      BY <1>0
    <2>2. gen' = [gen EXCEPT ![g] = C!NoGen] \/ gen' = [gen EXCEPT ![g] = r]
      BY <1>7 DEF C!shouldRunBasedOnInterval
    <2>3. r \in Command /\ r.began = gen[g].began /\ r.at = "create"
      BY <2>1, CommandGoes, Zenon
    <2>4. UNCHANGED <<setup, now, count, tasks, budget>>
      BY <1>7 DEF C!shouldRunBasedOnInterval
    <2> HIDE DEF r
    <2> QED
      BY <1>0, <1>2, <2>1, <2>2, <2>3, <2>4
  <1>8. ASSUME NEW g \in 1..setup.generators, NEW t \in 1..MaxTasks, C!Create(g, t) PROVE CTypes'
    <2> DEFINE r == [gen[g] EXCEPT !.at = "ready", !.task = t]
    <2>1. gen[g] \in Command /\ gen[g].began <= now
      BY <1>0
    <2>2. /\ gen' = [gen EXCEPT ![g].at = "ready", ![g].task = t]
          /\ UNCHANGED <<setup, now, count, budget>> /\ C!Move(t, "backlog")
      BY <1>8 DEF C!Create
    <2>3. r \in Command /\ r.began = gen[g].began /\ r.task = t
      BY <2>1, CommandMakes, Zenon
    <2>4. gen' = [gen EXCEPT ![g] = r]
      BY <2>1, <2>2 DEF Command
    <2> HIDE DEF r
    <2> QED
      BY <1>1, <1>2, <2>1, <2>2, <2>3, <2>4
  <1>9. ASSUME NEW g \in 1..setup.generators, C!MakeReady(g) PROVE CTypes'
    <2>1. gen[g].task \in 1..MaxTasks
      BY <1>9 DEF C!MakeReady
    <2>2. gen' = [gen EXCEPT ![g] = C!NoGen] /\ UNCHANGED <<setup, now, count, budget>>
          /\ (C!Move(gen[g].task, "ready") \/ UNCHANGED tasks)
      BY <1>9 DEF C!MakeReady
    <2>3. /\ gen' \in [1..setup.generators -> Command]
          /\ \A h \in 1..setup.generators : gen'[h].began <= now /\ (gen'[h].at = "ready" => gen'[h].task \in 1..MaxTasks)
      BY <1>0, <1>2, <2>2
    <2>4. tasks' \in [1..MaxTasks -> CuratedTask] /\ \A u \in 1..MaxTasks : tasks'[u].at <= now'
      BY <1>1, <2>1, <2>2
    <2> QED
      BY <2>2, <2>3, <2>4
  <1>10. ASSUME NEW g \in 1..setup.generators, C!Crash(g) PROVE CTypes'
    <2>1. budget' \in [requeues : Nat, crashes : Nat] /\ budget'.requeues <= setup.requeues
      BY <1>0, <1>10 DEF C!Crash, C!Spend
    <2>2. gen' = [gen EXCEPT ![g] = C!NoGen] /\ UNCHANGED <<setup, now, count, tasks>>
      BY <1>10 DEF C!Crash
    <2>3. /\ gen' \in [1..setup.generators -> Command]
          /\ \A h \in 1..setup.generators : gen'[h].began <= now /\ (gen'[h].at = "ready" => gen'[h].task \in 1..MaxTasks)
      BY <1>0, <1>2, <2>2
    <2> QED
      BY <2>1, <2>2, <2>3
  <1>11. ASSUME NEW t \in 1..MaxTasks, C!Curator(t) \/ C!Requeue(t) PROVE CTypes'
    <2>1. /\ UNCHANGED <<setup, now, gen>> /\ count' \in Nat
          /\ \E s \in {"ready", "in-progress", "done", "deadletter"} : C!Move(t, s)
      BY <1>11 DEF C!Curator, C!Requeue, C!Promote, C!Take, C!Finish, C!GiveUp
    <2>2. UNCHANGED budget \/ C!Spend("requeues")
      BY <1>11 DEF C!Curator, C!Requeue, C!Promote, C!Take, C!Finish, C!GiveUp
    <2>3. budget' \in [requeues : Nat, crashes : Nat] /\ budget'.requeues <= setup.requeues
      BY <1>0, <2>2 DEF C!Spend
    <2> QED
      BY <1>1, <2>1, <2>3
  <1>12. CASE C!Grow
    BY <1>12 DEF C!Grow
  <1>13. CASE C!Tick
    <2>1. \A t \in 1..MaxTasks : tasks[t].at \in Nat
      BY DEF CuratedTask
    <2>2. \A g \in 1..setup.generators : gen[g].began \in Nat
      BY DEF Command
    <2> QED
      BY <1>13, <2>1, <2>2 DEF C!Tick
  <1> QED
    BY <1>0, <1>3, <1>4, <1>5, <1>6, <1>7, <1>8, <1>9, <1>10, <1>11, <1>12, <1>13 DEF C!Next, C!Generator

(* What the completions read say: the interval is over. *)
LEMMA IntervalOver ==
    ASSUME CTypes, NEW g \in 1..setup.generators, NEW d \in 1..MaxTasks, tasks[d].status = "done",
           C!Done = {} \/ gen[g].began >= C!getLastDoneCurationTask + gen[g].interval
    PROVE  gen[g].began >= tasks[d].at + gen[g].interval
  <1>1. \A t \in 1..MaxTasks : tasks[t].at \in Nat /\ tasks[t].at <= now
    BY DEF CTypes, CuratedTask
  <1>2. gen[g].began \in Nat /\ gen[g].interval \in Nat /\ now \in Nat
    BY DEF CTypes, Command
  <1>3. d \in C!Done /\ C!Done \subseteq 1..MaxTasks
    BY DEF C!Done
  <1> DEFINE Latest(t) == \A u \in C!Done : tasks[t].at >= tasks[u].at
             ats == {tasks[t].at : t \in C!Done}
  <1>4. \E t \in C!Done : Latest(t)
    <2>1. ats \subseteq Nat /\ \A k \in ats : k <= now
      BY <1>1, <1>3
    <2>2. ats # {}
      BY <1>3
    <2> HIDE DEF ats
    <2>3. PICK m \in ats : \A k \in ats : m >= k
      BY <1>2, <2>1, <2>2, Greatest
    <2>4. PICK t \in C!Done : m = tasks[t].at
      BY <2>3 DEF ats
    <2>5. \A u \in C!Done : tasks[u].at \in ats
      BY DEF ats
    <2> QED
      BY <2>3, <2>4, <2>5
  <1> DEFINE last == CHOOSE t \in C!Done : Latest(t)
  <1>5. last \in C!Done /\ Latest(last)
    BY <1>4
  <1>6. C!getLastDoneCurationTask = tasks[last].at
    BY <1>3 DEF C!getLastDoneCurationTask
  <1> HIDE DEF last
  <1>7. tasks[last].at >= tasks[d].at /\ tasks[last].at \in Nat /\ tasks[d].at \in Nat
    BY <1>1, <1>3, <1>5
  <1> QED
    BY <1>2, <1>3, <1>6, <1>7

(* With one run of the command and nothing handed back, the scan is faithful.  *)
LEMMA CurationScan ==
    ASSUME CTypes, OneCommand, CScan, [C!Next]_(C!vars)
    PROVE  CScan'
  <1> DEFINE k == gen[1]
  <1>1. /\ DOMAIN gen = {1} /\ 1 \in 1..setup.generators /\ k \in Command
        /\ \A g \in DOMAIN gen : g = 1
        /\ tasks \in [1..MaxTasks -> CuratedTask] /\ DOMAIN tasks = 1..MaxTasks
        /\ gen \in [1..1 -> Command]
    BY DEF CTypes, OneCommand
  <1>2. C!NoGen.at = "idle"
    BY DEF C!NoGen
  <1>3. CASE UNCHANGED C!vars
    BY <1>3 DEF C!vars, CScan, OpenTask, Ahead
  <1>4. CASE C!curate(1)
    <2>1. gen'[1].at = "counted" /\ tasks' = tasks
      BY <1>1, <1>4 DEF C!curate, Command
    <2> QED
      BY <2>1 DEF CScan, OpenTask
  <1>5. CASE C!generateCurationTasks(1)
    <2>1. tasks' = tasks /\ (gen'[1].at = "idle" \/ (gen'[1].at = "scan" /\ gen'[1].i = 1))
      BY <1>1, <1>5 DEF C!generateCurationTasks, C!NoGen
    <2> QED
      BY <2>1 DEF CScan, OpenTask, Ahead
  <1>6. CASE C!hasOpenCurationTask(1)
    <2>1. tasks' = tasks /\ k.at = "scan" /\ k.i \in 1..5
      BY <1>1, <1>6 DEF C!hasOpenCurationTask, Command
    <2>2. \/ gen'[1].at = "idle"
          \/ /\ \A t \in 1..MaxTasks : tasks[t].status # C!openStatuses[k.i]
             /\ IF k.i = 5 THEN gen'[1].at = "interval" ELSE gen'[1].at = "scan" /\ gen'[1].i = k.i + 1
      <3> DEFINE found == \E t \in 1..MaxTasks : tasks[t].status = C!openStatuses[k.i]
      <3>1. gen' = [gen EXCEPT ![1] = IF found THEN C!NoGen
                                      ELSE IF k.i = Len(C!openStatuses) THEN [k EXCEPT !.at = "interval"]
                                      ELSE [k EXCEPT !.i = k.i + 1]]
        BY <1>6 DEF C!hasOpenCurationTask
      <3>2. Len(C!openStatuses) = 5
        BY DEF C!openStatuses
      <3>3. found \/ \A t \in 1..MaxTasks : tasks[t].status # C!openStatuses[k.i]
        OBVIOUS
      <3> HIDE DEF found
      <3>4. gen'[1] = IF found THEN C!NoGen
                      ELSE IF k.i = 5 THEN [k EXCEPT !.at = "interval"] ELSE [k EXCEPT !.i = k.i + 1]
        BY <1>1, <3>1, <3>2
      <3> QED
        BY <1>1, <1>2, <2>1, <3>3, <3>4 DEF Command
    <2>3. /\ k.i = 1 => C!openStatuses[k.i] = "backlog"
          /\ k.i = 2 => C!openStatuses[k.i] = "ready"
          /\ k.i = 3 => C!openStatuses[k.i] = "in-progress"
      BY DEF C!openStatuses
    <2>4. \A t \in 1..MaxTasks : Ahead(t, k.i)
      BY <2>1 DEF CScan
    <2>5. ASSUME \A t \in 1..MaxTasks : tasks[t].status # C!openStatuses[k.i], NEW t \in 1..MaxTasks
          PROVE  Ahead(t, k.i + 1)
      BY <2>1, <2>3, <2>4, <2>5 DEF Ahead
    <2>6. ASSUME NEW t \in 1..MaxTasks, Ahead(t, k.i + 1), k.i = 5
          PROVE  ~OpenTask(t)
      BY <1>1, <2>6 DEF Ahead, OpenTask, CuratedTask
    <2> QED
      BY <2>1, <2>2, <2>5, <2>6 DEF CScan, OpenTask, Ahead
  <1>7. CASE C!shouldRunBasedOnInterval(1)
    <2>1. tasks' = tasks /\ k.at = "interval"
          /\ (\/ gen'[1].at = "idle"
              \/ /\ gen'[1] = [k EXCEPT !.at = "create"]
                 /\ C!Done = {} \/ gen[1].began >= C!getLastDoneCurationTask + gen[1].interval)
      BY <1>1, <1>2, <1>7 DEF C!shouldRunBasedOnInterval
    <2>2. CASE gen'[1].at = "idle"
      BY <2>1, <2>2 DEF CScan, OpenTask
    <2>3. CASE gen'[1] = [k EXCEPT !.at = "create"]
               /\ (C!Done = {} \/ gen[1].began >= C!getLastDoneCurationTask + gen[1].interval)
      <3>1. gen'[1].at = "create" /\ gen'[1].began = k.began /\ gen'[1].interval = k.interval
        BY <1>1, <2>3 DEF Command
      <3>2. \A d \in 1..MaxTasks : tasks[d].status = "done" => k.began >= tasks[d].at + k.interval
        BY <1>1, <2>3, IntervalOver
      <3> QED
        BY <2>1, <3>1, <3>2 DEF CScan, OpenTask
    <2> QED
      BY <2>1, <2>2, <2>3
  <1>8. ASSUME NEW t \in 1..MaxTasks, C!Create(1, t) PROVE CScan'
    <2>1. gen'[1].at = "ready" /\ tasks' = [tasks EXCEPT ![t] = [status |-> "backlog", at |-> now]] /\ k.at = "create"
      BY <1>1, <1>8 DEF C!Create, C!Move, Command
    <2>2. \A u \in 1..MaxTasks : ~OpenTask(u)
      BY <2>1 DEF CScan
    <2>3. \A u \in 1..MaxTasks : u # t => tasks'[u] = tasks[u]
      BY <1>1, <2>1
    <2>4. \A u \in 1..MaxTasks : OpenTask(u)' => u = t
      BY <2>2, <2>3 DEF OpenTask
    <2> QED
      BY <2>1, <2>4 DEF CScan
  <1>9. CASE C!MakeReady(1)
    <2>1. gen'[1].at = "idle"
      BY <1>1, <1>2, <1>9 DEF C!MakeReady
    <2>2. k.task \in 1..MaxTasks
      BY <1>1, <1>9 DEF C!MakeReady, CTypes
    <2>3. \A u \in 1..MaxTasks : tasks'[u] = tasks[u] \/ (tasks[u].status = "backlog" /\ tasks'[u].status = "ready")
      <3> DEFINE t == k.task
      <3>1. \/ tasks' = tasks
            \/ tasks[t].status = "backlog" /\ tasks' = [tasks EXCEPT ![t] = [status |-> "ready", at |-> now]]
        BY <1>9 DEF C!MakeReady, C!Move
      <3>2. t \in 1..MaxTasks
        BY <2>2
      <3> HIDE DEF t
      <3>3. CASE tasks' = tasks
        BY <3>3
      <3>4. CASE tasks[t].status = "backlog" /\ tasks' = [tasks EXCEPT ![t] = [status |-> "ready", at |-> now]]
        <4>1. \A u \in 1..MaxTasks : u # t => tasks'[u] = tasks[u]
          BY <1>1, <3>4
        <4>2. tasks'[t] = [status |-> "ready", at |-> now]
          BY <1>1, <3>2, <3>4
        <4> QED
          BY <3>4, <4>1, <4>2
      <3> QED
        BY <3>1, <3>3, <3>4
    <2>4. \A u \in 1..MaxTasks : OpenTask(u)' => OpenTask(u)
      BY <2>3 DEF OpenTask
    <2> QED
      BY <2>1, <2>4 DEF CScan
  <1>10. CASE C!Crash(1)
    <2>1. gen'[1].at = "idle" /\ tasks' = tasks
      BY <1>1, <1>2, <1>10 DEF C!Crash
    <2> QED
      BY <2>1 DEF CScan, OpenTask
  <1>11. ASSUME NEW t \in 1..MaxTasks, C!Curator(t) PROVE CScan'
    <2>1. gen' = gen
      BY <1>11 DEF C!Curator, C!Promote, C!Take, C!Finish, C!GiveUp
    <2>2. \E s \in {"ready", "in-progress", "done", "deadletter"} :
             /\ tasks' = [tasks EXCEPT ![t] = [status |-> s, at |-> now]]
             /\ s = "ready" => tasks[t].status = "backlog"
             /\ s = "in-progress" => tasks[t].status = "ready"
             /\ tasks[t].status \in {"backlog", "ready", "in-progress"}
      BY <1>11 DEF C!Curator, C!Promote, C!Take, C!Finish, C!GiveUp, C!Move
    <2>3. OpenTask(t) /\ \A u \in 1..MaxTasks : OpenTask(u)' => OpenTask(u)
      BY <1>1, <2>2 DEF OpenTask
    <2>4. k.i \in 1..5 /\ \A u \in 1..MaxTasks : Ahead(u, k.i) => Ahead(u, k.i)'
      BY <1>1, <2>1, <2>2 DEF Ahead, Command
    <2> QED
      BY <2>1, <2>3, <2>4 DEF CScan
  <1>12. ASSUME NEW t, C!Requeue(t) PROVE CScan'
    BY <1>12 DEF C!Requeue, C!Spend, OneCommand, CTypes
  <1>13. CASE C!Grow \/ C!Tick
    BY <1>13 DEF C!Grow, C!Tick, CScan, OpenTask, Ahead
  <1> QED
    BY <1>1, <1>3, <1>4, <1>5, <1>6, <1>7, <1>8, <1>9, <1>10, <1>11, <1>12, <1>13 DEF C!Next, C!Generator

LEMMA CurationStep ==
    ASSUME CInv, [C!Next]_(C!vars)
    PROVE  CInv'
  <1>1. CTypes'
    BY CurationTyped DEF CInv
  <1>2. setup' = setup
    BY DEF C!Next, C!vars, C!Generator, C!curate, C!generateCurationTasks, C!hasOpenCurationTask,
           C!shouldRunBasedOnInterval, C!MakeReady, C!Create, C!Crash, C!Curator, C!Promote, C!Take,
           C!Finish, C!GiveUp, C!Requeue, C!Grow, C!Tick
  <1> QED
    BY <1>1, <1>2, CurationScan DEF CInv, OneCommand

LEMMA CurationHolds ==
    ASSUME CInv
    PROVE  C!OneOpen
  BY DEF C!OneOpen, C!Open, OpenTask, OneCommand, CInv, CScan

(* A task is created only on what the command has read. *)
LEMMA CurationPace ==
    ASSUME CInv, [C!Next]_(C!vars)
    PROVE  C!IntervalStep
  <1> SUFFICES ASSUME OneCommand, gen[1].at = "create", NEW d \in C!Done
               PROVE  now >= tasks[d].at + gen[1].interval
    BY DEF C!IntervalStep, OneCommand
  <1>1. d \in 1..MaxTasks /\ tasks[d].status = "done"
    BY DEF C!Done
  <1>2. gen[1].began >= tasks[d].at + gen[1].interval
    BY <1>1 DEF CInv, CScan
  <1>3. gen[1] \in Command /\ gen[1].began <= now /\ now \in Nat /\ tasks[d].at \in Nat
    BY <1>1 DEF CInv, CTypes, OneCommand, CuratedTask
  <1> QED
    BY <1>2, <1>3 DEF Command

(* A pool has at most one open curation task, and they are an interval apart,    *)
(* for any thresholds, clock and number of tasks (curation-generator.ts).        *)
THEOREM CurationIsPaced == Spec => CurationPaced
  <1> DEFINE Inv == part = "curation" => CInv
  <1>1. Init => Inv
    BY CurationInit DEF Init, MInit, NInit, BInit, TInit, CInit, IInit, PInit, WInit, VInit, RInit, KInit
  <1>2. Inv /\ [Next]_vars => Inv'
    BY OnePart, CurationStep
  <1>3. Inv => (part = "curation" => C!OneOpen)
    BY CurationHolds
  <1>4. Inv /\ [Next]_vars => [part = "curation" => C!IntervalStep]_vars
    BY OnePart, CurationPace
  <1> HIDE DEF Inv
  <1> QED
    BY <1>1, <1>2, <1>3, <1>4, PTL DEF Spec, CurationPaced

-----------------------------------------------------------------------------
(* The routes of dispatches.  A Map is a sequence of entries with different      *)
(* keys; what matters of it is the set of its entries.                           *)
Entries(keys) == [key : keys, recipient : Recipients]
IsMap(keys, m) ==
    m \in Seq(Entries(keys)) /\ \A i, j \in DOMAIN m : m[i].key = m[j].key => i = j

LEMMA EntryIs ==
    ASSUME NEW keys, NEW m, IsMap(keys, m), NEW k
    PROVE  \/ R!Entry(m, k) \in DOMAIN m /\ m[R!Entry(m, k)].key = k
           \/ R!Entry(m, k) = 0 /\ \A e \in In(m) : e.key # k
  <1> DEFINE is == {i \in 1..Len(m) : m[i].key = k}
  <1>1. R!Entry(m, k) = IF is # {} THEN R!Max(is) ELSE 0
    BY DEF R!Entry, R!SelectLastInSeq
  <1>2. DOMAIN m = 1..Len(m) /\ Len(m) \in Nat
    BY LenProperties DEF IsMap
  <1>3. ASSUME NEW i \in is PROVE R!Max(is) = i
    <2>1. is = {i}
      BY <1>2 DEF IsMap
    <2>2. i >= i
      BY <1>2
    <2> HIDE DEF is
    <2> QED
      BY <2>1, <2>2 DEF R!Max
  <1> QED
    BY <1>1, <1>2, <1>3 DEF In

LEMMA GetIs ==
    ASSUME NEW keys, NEW m, IsMap(keys, m), NEW k
    PROVE  \/ \E e \in In(m) : e.key = k /\ R!getRecipient(m, k) = e.recipient
           \/ (\A e \in In(m) : e.key # k) /\ R!getRecipient(m, k) = None
  <1>1. CASE R!Entry(m, k) \in DOMAIN m /\ m[R!Entry(m, k)].key = k
    <2>1. R!Entry(m, k) # 0
      BY <1>1, LenProperties DEF IsMap
    <2> QED
      BY <1>1, <2>1 DEF R!getRecipient, In
  <1>2. CASE R!Entry(m, k) = 0 /\ \A e \in In(m) : e.key # k
    BY <1>2 DEF R!getRecipient
  <1> QED
    BY <1>1, <1>2, EntryIs

(* A sequence of some of the entries, each once. *)
LEMMA TailMap ==
    ASSUME NEW keys, NEW m, IsMap(keys, m), m # <<>>
    PROVE  IsMap(keys, Tail(m)) /\ In(Tail(m)) \subseteq In(m) /\ Len(Tail(m)) = Len(m) - 1
  <1>1. /\ Tail(m) \in Seq(Entries(keys)) /\ Len(Tail(m)) = Len(m) - 1
        /\ \A i \in 1..Len(Tail(m)) : Tail(m)[i] = m[i + 1]
    BY HeadTailProperties DEF IsMap
  <1>2. Len(m) \in Nat /\ DOMAIN m = 1..Len(m) /\ DOMAIN Tail(m) = 1..Len(Tail(m))
    BY <1>1, LenProperties DEF IsMap
  <1> DEFINE q == Tail(m)
  <1> HIDE DEF q
  <1>3. ASSUME NEW i \in DOMAIN q PROVE i \in Nat /\ i + 1 \in DOMAIN m /\ q[i] = m[i + 1]
    BY <1>1, <1>2 DEF q
  <1>4. In(q) \subseteq In(m)
    BY <1>3 DEF In
  <1>5. ASSUME NEW i \in DOMAIN q, NEW j \in DOMAIN q, q[i].key = q[j].key PROVE i = j
    <2>1. i + 1 = j + 1
      BY <1>3, <1>5 DEF IsMap
    <2> QED
      BY <1>3, <2>1
  <1> QED
    BY <1>1, <1>4, <1>5 DEF IsMap, q

LEMMA WithoutIs ==
    ASSUME NEW keys, NEW m, IsMap(keys, m), NEW k
    PROVE  /\ IsMap(keys, R!Without(m, k)) /\ Len(R!Without(m, k)) <= Len(m)
           /\ In(R!Without(m, k)) = {e \in In(m) : e.key # k}
  <1> DEFINE i == R!Entry(m, k)
  <1>1. m \in Seq(Entries(keys)) /\ Len(m) \in Nat /\ DOMAIN m = 1..Len(m)
    BY LenProperties DEF IsMap
  <1>2. CASE i = 0 /\ \A e \in In(m) : e.key # k
    <2>1. R!Without(m, k) = m
      BY <1>2 DEF R!Without
    <2> QED
      BY <1>1, <1>2, <2>1
  <1>3. CASE i \in DOMAIN m /\ m[i].key = k
    <2> DEFINE q == R!Without(m, k)
               a == SubSeq(m, 1, i - 1)
               b == SubSeq(m, i + 1, Len(m))
    <2>1. i \in 1..Len(m)
      BY <1>1, <1>3
    <2>2. q = a \o b
      <3>1. i # 0
        BY <1>1, <2>1
      <3>2. q = IF i = 0 THEN m ELSE R!RemoveAt(m, i)
        BY DEF R!Without
      <3>3. R!RemoveAt(m, i) = a \o b
        BY DEF R!RemoveAt
      <3> QED
        BY <3>1, <3>2, <3>3
    <2> HIDE DEF i
    <2>3. \A j \in 1..Len(m) : m[j] \in Entries(keys)
      BY <1>1, ElementOfSeq
    <2>4. /\ a \in Seq(Entries(keys)) /\ Len(a) = i - 1 /\ \A j \in 1..(i - 1) : a[j] = m[j]
      <3>1. 1 \in Int /\ i - 1 \in Int /\ \A j \in 1..(i - 1) : m[j] \in Entries(keys)
        BY <1>1, <2>1, <2>3
      <3>2. /\ a \in Seq(Entries(keys)) /\ Len(a) = IF 1 <= i - 1 THEN (i - 1) - 1 + 1 ELSE 0
            /\ \A j \in 1..((i - 1) - 1 + 1) : a[j] = m[1 + j - 1]
        BY <3>1, SubSeqProperties
      <3> HIDE DEF a
      <3>3. ASSUME NEW j \in 1..(i - 1) PROVE a[j] = m[j]
        <4>1. j \in 1..((i - 1) - 1 + 1) /\ 1 + j - 1 = j
          BY <2>1
        <4> QED
          BY <3>2, <4>1
      <3>4. Len(a) = i - 1
        BY <2>1, <3>2
      <3> QED
        BY <3>2, <3>3, <3>4
    <2>5. /\ b \in Seq(Entries(keys)) /\ Len(b) = Len(m) - i /\ \A j \in 1..(Len(m) - i) : b[j] = m[i + j]
      <3>1. i + 1 \in Int /\ Len(m) \in Int /\ \A j \in (i + 1)..Len(m) : m[j] \in Entries(keys)
        BY <1>1, <2>1, <2>3
      <3>2. /\ b \in Seq(Entries(keys)) /\ Len(b) = IF i + 1 <= Len(m) THEN Len(m) - (i + 1) + 1 ELSE 0
            /\ \A j \in 1..(Len(m) - (i + 1) + 1) : b[j] = m[(i + 1) + j - 1]
        BY <3>1, SubSeqProperties
      <3> HIDE DEF b
      <3>3. ASSUME NEW j \in 1..(Len(m) - i) PROVE b[j] = m[i + j]
        <4>1. j \in 1..(Len(m) - (i + 1) + 1) /\ (i + 1) + j - 1 = i + j
          BY <1>1, <2>1
        <4> QED
          BY <3>2, <4>1
      <3>4. Len(b) = Len(m) - i
        <4>1. i \in Nat /\ Len(m) \in Nat /\ i <= Len(m)
          BY <1>1, <2>1
        <4>2. CASE i + 1 <= Len(m)
          BY <3>2, <4>1, <4>2
        <4>3. CASE ~(i + 1 <= Len(m))
          BY <3>2, <4>1, <4>3
        <4> QED
          BY <4>2, <4>3
      <3> QED
        BY <3>2, <3>3, <3>4
    <2> HIDE DEF a, b, q
    <2>6. /\ q \in Seq(Entries(keys)) /\ Len(q) = Len(a) + Len(b)
          /\ \A j \in 1..(Len(a) + Len(b)) : q[j] = IF j <= Len(a) THEN a[j] ELSE b[j - Len(a)]
      BY <2>2, <2>4, <2>5, ConcatProperties, Zenon
    <2>7. Len(q) = Len(m) - 1 /\ DOMAIN q = 1..(Len(m) - 1)
      <3>1. Len(q) = Len(m) - 1
        BY <1>1, <2>1, <2>4, <2>5, <2>6
      <3> QED
        BY <2>6, <3>1, LenProperties
    <2>8. ASSUME NEW j \in DOMAIN q PROVE q[j] = IF j < i THEN m[j] ELSE m[j + 1]
      <3>1. j \in 1..(Len(m) - 1) /\ j \in 1..(Len(a) + Len(b))
        BY <1>1, <2>1, <2>4, <2>5, <2>7
      <3>2. CASE j < i
        <4>1. j <= Len(a) /\ j \in 1..(i - 1)
          BY <2>1, <2>4, <3>1, <3>2
        <4> QED
          BY <2>4, <2>6, <3>1, <3>2, <4>1
      <3>3. CASE ~(j < i)
        <4>1. /\ ~(j <= Len(a)) /\ j - Len(a) \in 1..(Len(m) - i)
              /\ i + (j - Len(a)) = j + 1
          BY <1>1, <2>1, <2>4, <3>1, <3>3
        <4>2. q[j] = b[j - Len(a)]
          BY <2>6, <3>1, <4>1
        <4> QED
          BY <2>5, <3>3, <4>1, <4>2
      <3> QED
        BY <3>2, <3>3
    <2>9. ASSUME NEW j \in DOMAIN q
          PROVE  \E h \in DOMAIN m : h # i /\ q[j] = m[h] /\ h = IF j < i THEN j ELSE j + 1
      <3>1. j \in 1..(Len(m) - 1)
        BY <2>7
      <3>2. (IF j < i THEN j ELSE j + 1) \in DOMAIN m /\ (IF j < i THEN j ELSE j + 1) # i
        BY <1>1, <2>1, <3>1
      <3> QED
        BY <2>8, <3>2
    <2>10. ASSUME NEW h \in DOMAIN m, h # i PROVE \E j \in DOMAIN q : q[j] = m[h]
      <3>1. CASE h < i
        <4>1. h \in DOMAIN q
          BY <1>1, <2>1, <2>7, <3>1
        <4> QED
          BY <2>8, <3>1, <4>1
      <3>2. CASE ~(h < i)
        <4>1. h - 1 \in DOMAIN q /\ ~(h - 1 < i) /\ (h - 1) + 1 = h
          BY <1>1, <2>1, <2>7, <2>10, <3>2
        <4> QED
          BY <2>8, <4>1
      <3> QED
        BY <3>1, <3>2
    <2>11. \A h \in DOMAIN m : m[h].key = k <=> h = i
      BY <1>1, <1>3, <2>1 DEF IsMap, i
    <2>12. In(q) = {e \in In(m) : e.key # k}
      BY <2>9, <2>10, <2>11 DEF In
    <2>13. ASSUME NEW j \in DOMAIN q, NEW l \in DOMAIN q, q[j].key = q[l].key PROVE j = l
      <3>1. (IF j < i THEN j ELSE j + 1) = (IF l < i THEN l ELSE l + 1)
        BY <2>9, <2>13 DEF IsMap
      <3> QED
        BY <2>1, <2>7, <3>1
    <2>14. IsMap(keys, q) /\ Len(q) <= Len(m)
      BY <1>1, <2>6, <2>7, <2>13 DEF IsMap
    <2> QED
      BY <2>12, <2>14 DEF q
  <1> QED
    BY <1>2, <1>3, EntryIs

(* The entries when one is set. *)
Put(m, k, r) == {e \in In(m) : e.key # k} \cup {[key |-> k, recipient |-> r]}

(* What is stored is the new entry for the key, and beyond the limit a part. *)
LEMMA StoreIs ==
    ASSUME NEW keys, NEW m, IsMap(keys, m), NEW k \in keys, NEW r \in Recipients, NEW max \in Nat
    PROVE  LET q == R!storeRecipient(m, k, r, max)
           IN  /\ IsMap(keys, q) /\ Len(q) <= Len(m) + 1 /\ In(q) \subseteq Put(m, k, r)
               /\ Len(m) + 1 <= max => In(q) = Put(m, k, r)
  <1> DEFINE i == R!Entry(m, k)
             u == [key |-> k, recipient |-> r]
             es == {e \in In(m) : e.key # k} \cup {u}
             set == IF i = 0 THEN Append(m, u) ELSE [m EXCEPT ![i].recipient = r]
             q == R!storeRecipient(m, k, r, max)
  <1>1. m \in Seq(Entries(keys)) /\ Len(m) \in Nat /\ DOMAIN m = 1..Len(m) /\ u \in Entries(keys)
    BY LenProperties DEF IsMap, Entries
  <1>2. q = IF Len(set) > max THEN Tail(set) ELSE set
    BY DEF R!storeRecipient
  <1>3. IsMap(keys, set) /\ Len(set) \in {Len(m), Len(m) + 1} /\ In(set) = es
    <2>1. CASE i = 0 /\ \A e \in In(m) : e.key # k
      <3> DEFINE s == Append(m, u)
      <3>1. set = s
        BY <2>1
      <3>2. /\ s \in Seq(Entries(keys)) /\ Len(s) = Len(m) + 1 /\ s[Len(m) + 1] = u
            /\ \A j \in 1..Len(m) : s[j] = m[j]
        BY <1>1, AppendProperties
      <3>3. DOMAIN s = 1..(Len(m) + 1)
        BY <3>2, LenProperties
      <3> HIDE DEF s, u, set, i
      <3>4. \A j \in DOMAIN s : (j \in DOMAIN m /\ s[j] = m[j]) \/ (j = Len(m) + 1 /\ s[j] = u)
        BY <1>1, <3>2, <3>3
      <3>5. /\ \A j \in DOMAIN m : j \in DOMAIN s /\ s[j] = m[j] /\ m[j].key # k
            /\ Len(m) + 1 \in DOMAIN s
        BY <1>1, <2>1, <3>2, <3>3 DEF In
      <3>6. u.key = k
        BY DEF u
      <3>7. In(s) = es
        BY <3>2, <3>4, <3>5 DEF In
      <3>8. ASSUME NEW j \in DOMAIN s, NEW l \in DOMAIN s, s[j].key = s[l].key PROVE j = l
        BY <3>4, <3>5, <3>6, <3>8 DEF IsMap
      <3> QED
        BY <3>1, <3>2, <3>7, <3>8 DEF IsMap
    <2>2. CASE i \in DOMAIN m /\ m[i].key = k
      <3>1. i # 0 /\ m[i] \in Entries(keys)
        BY <1>1, <2>2, ElementOfSeq
      <3>2. [m[i] EXCEPT !.recipient = r] = u
        <4>1. [m[i] EXCEPT !.recipient = r] \in Entries(keys)
          BY <3>1 DEF Entries
        <4>2. [m[i] EXCEPT !.recipient = r].key = k /\ [m[i] EXCEPT !.recipient = r].recipient = r
          BY <2>2, <3>1 DEF Entries
        <4> QED
          BY <1>1, <4>1, <4>2 DEF Entries
      <3> DEFINE s == [m EXCEPT ![i] = u]
      <3>3. set = s
        BY <3>1, <3>2
      <3> HIDE DEF u, set, i
      <3>4. s \in Seq(Entries(keys)) /\ Len(s) = Len(m) /\ \A j \in 1..Len(m) : s[j] = IF j = i THEN u ELSE m[j]
        BY <1>1, <2>2, ExceptSeq
      <3>5. DOMAIN s = DOMAIN m
        BY <1>1, <3>4, LenProperties
      <3> HIDE DEF s
      <3>6. u.key = k
        BY DEF u
      <3>7. \A j \in DOMAIN m : s[j].key = m[j].key /\ (j # i => s[j] = m[j]) /\ (m[j].key = k <=> j = i)
        BY <1>1, <2>2, <3>4, <3>6 DEF IsMap
      <3>8. s[i] = u
        BY <1>1, <2>2, <3>4
      <3>9. In(s) = es
        BY <2>2, <3>5, <3>7, <3>8 DEF In
      <3>10. \A j, l \in DOMAIN s : s[j].key = s[l].key => j = l
        BY <3>5, <3>7 DEF IsMap
      <3> QED
        BY <3>3, <3>4, <3>9, <3>10 DEF IsMap
    <2> QED
      BY <2>1, <2>2, EntryIs
  <1> HIDE DEF set, es, q
  <1>4. CASE Len(set) > max
    <2>1. set # <<>>
      <3>1. Len(set) # 0
        BY <1>1, <1>3, <1>4
      <3> QED
        BY <3>1, EmptySeq
    <2>2. IsMap(keys, q) /\ In(q) \subseteq es /\ Len(q) = Len(set) - 1
      BY <1>2, <1>3, <1>4, <2>1, TailMap
    <2>3. Len(q) <= Len(m) + 1 /\ ~(Len(m) + 1 <= max)
      <3>1. Len(set) \in Nat /\ Len(set) <= Len(m) + 1
        BY <1>1, <1>3
      <3>2. Len(q) <= Len(m) + 1
        BY <1>1, <2>2, <3>1
      <3>3. ~(Len(m) + 1 <= max)
        BY <1>1, <1>4, <3>1
      <3> QED
        BY <3>2, <3>3
    <2> QED
      BY <2>2, <2>3 DEF q, es, Put, u
  <1>5. CASE ~(Len(set) > max)
    <2>1. q = set /\ Len(set) <= Len(m) + 1
      BY <1>1, <1>2, <1>3, <1>5
    <2> QED
      BY <1>3, <2>1 DEF q, es, Put, u
  <1> QED
    BY <1>4, <1>5

(* The routes say of every session what it said last in this life, and there is  *)
(* one for whoever spoke; what is captured for a call is its session's.          *)
Targets == (Sessions \X Nat) \cup {None}
Calls == [chat : Sessions, life : Nat, said : Targets, pc : {"called", "executed", "over"}, kept : BOOLEAN,
          raw : {None, "auto", "declined", "own"},
          delivery : {None} \cup [from : Recipients \cup {None}, target : Targets \cup {<<"own">>}]]
Room == setup.maxRoutes >= setup.messages /\ setup.maxCalls >= setup.dispatches

Lives == Sessions \X Nat

RShape ==
    /\ setup \in RouteSetups
    /\ budget \in [{"messages", "dispatches", "ends", "compactions"} -> Nat]
    /\ life \in [Sessions -> Nat] /\ talked \in [Sessions -> Targets]
    /\ DOMAIN routes = {"key", "id"} /\ IsMap(Sessions, routes["key"]) /\ IsMap(Lives, routes["id"])
    /\ IsMap(Nat, byToolCallId) /\ dispatches \in Seq(Calls)

(* A route is of the last message in this life. *)
KeysTrue == \A e \in In(routes["key"]) : e.recipient.target = talked[e.key]
IdsTrue ==
    \A e \in In(routes["id"]) :
        /\ e.key[2] <= life[e.key[1]]
        /\ e.key[2] = life[e.key[1]] => e.recipient.target = talked[e.key[1]]
Fitting ==
    \A n \in {"key", "id"} : /\ Len(routes[n]) + budget.messages <= setup.messages
                             /\ n \notin setup.names => In(routes[n]) = {}
Noted ==
    Room => \A s \in Sessions : talked[s] # None =>
        /\ "key" \in setup.names => \E e \in In(routes["key"]) : e.key = s
        /\ "id" \in setup.names => \E e \in In(routes["id"]) : e.key = <<s, life[s]>>
RRoutes == KeysTrue /\ IdsTrue /\ Fitting /\ Noted

(* What is the dispatch's own, or nothing. *)
Own(d, r, target) ==
    /\ r.key \in {None, d.chat} /\ r.id \in {None, <<d.chat, d.life>>}
    /\ target \in {None, d.said} /\ (Room => target = d.said)

CallsFit == Len(byToolCallId) + budget.dispatches <= setup.dispatches
CallsOwn ==
    \A e \in In(byToolCallId) :
        e.key \in DOMAIN dispatches /\ Own(dispatches[e.key], e.recipient, e.recipient.target)
CallsNoted ==
    Room => \A c \in DOMAIN dispatches : dispatches[c].kept /\ dispatches[c].pc = "called" =>
        \E e \in In(byToolCallId) : e.key = c
RCalls == CallsFit /\ CallsOwn /\ CallsNoted

Answered(d) ==
    /\ d.pc = "called" => d.delivery = None
    /\ d.delivery # None /\ d.raw = "auto" => Own(d, d.delivery.from, d.delivery.target)
    /\ d.pc = "executed" /\ d.raw = "auto" /\ Room /\ d.kept => d.delivery # None

RAnswers == \A c \in DOMAIN dispatches : Answered(dispatches[c])

RInv == RShape /\ RRoutes /\ RCalls /\ RAnswers

LEMMA NoRoutes ==
    ASSUME RRoutes, NEW n \in {"key", "id"}, n \notin setup.names
    PROVE  In(routes[n]) = {}
  BY DEF RRoutes, Fitting

LEMMA InEntries ==
    ASSUME NEW keys, NEW m, IsMap(keys, m), NEW e \in In(m)
    PROVE  e.key \in keys /\ e.recipient \in Recipients
  <1>1. PICK i \in DOMAIN m : m[i] = e
    BY DEF In
  <1>2. m[i] \in Entries(keys)
    BY LenProperties, ElementOfSeq DEF IsMap
  <1> QED
    BY <1>1, <1>2 DEF Entries

LEMMA EmptyMap == \A keys : IsMap(keys, <<>>) /\ In(<<>>) = {} /\ Len(<<>>) = 0
  <1> TAKE keys
  <1>1. << >> \in Seq(Entries(keys)) /\ DOMAIN << >> = {} /\ Len(<<>>) = 0
    BY EmptySeq
  <1> QED
    BY <1>1 DEF IsMap, In

LEMMA SetupIs ==
    ASSUME setup \in RouteSetups
    PROVE  /\ setup.messages \in Nat /\ setup.dispatches \in Nat /\ setup.ends \in Nat /\ setup.compactions \in Nat
           /\ setup.maxRoutes \in Nat /\ setup.maxCalls \in Nat
           /\ "key" \in setup.names \/ "id" \in setup.names
  BY RouteTypes

LEMMA RouteInit == R!Init => RInv
  <1> SUFFICES ASSUME R!Init PROVE RInv
    OBVIOUS
  <1>1. /\ setup \in RouteSetups /\ routes = [n \in {"key", "id"} |-> <<>>] /\ byToolCallId = <<>> /\ dispatches = <<>>
        /\ budget = [k \in {"messages", "dispatches", "ends", "compactions"} |-> setup[k]]
        /\ life = [s \in Sessions |-> 0] /\ talked = [s \in Sessions |-> None]
    BY DEF R!Init
  <1>2. << >> \in Seq(Calls) /\ DOMAIN << >> = {}
    BY EmptySeq
  <1>3. routes["key"] = <<>> /\ routes["id"] = <<>> /\ DOMAIN routes = {"key", "id"}
    BY <1>1
  <1>4. budget \in [{"messages", "dispatches", "ends", "compactions"} -> Nat]
    BY <1>1, SetupIs
  <1>5. RShape
    BY <1>1, <1>2, <1>3, <1>4, EmptyMap DEF RShape, Targets
  <1>6. RRoutes
    BY <1>1, <1>3, SetupIs, EmptyMap DEF RRoutes, KeysTrue, IdsTrue, Fitting, Noted
  <1>7. RCalls
    BY <1>1, <1>2, SetupIs, EmptyMap DEF RCalls, CallsFit, CallsOwn, CallsNoted
  <1> QED
    BY <1>1, <1>2, <1>5, <1>6, <1>7 DEF RInv, RAnswers

LEMMA Extracted ==
    ASSUME RShape, NEW s \in Sessions, NEW target \in Targets
    PROVE  LET x == R!extractRecipient(s, target)
           IN  /\ x \in Recipients /\ x.target = target
               /\ x.key \in {None, s} /\ x.id \in {None, <<s, life[s]>>}
  BY DEF RShape, Targets, Recipients, R!extractRecipient, R!NameOf

(* A Map with room for what is left to store in it. *)
StoredIn(keys, q, m, k, r, max, b, all) ==
    /\ IsMap(keys, q) /\ Len(q) + (b - 1) <= all /\ Len(m) + (b - 1) <= all
    /\ In(q) \subseteq Put(m, k, r) /\ (max >= all => In(q) = Put(m, k, r))

LEMMA Stored ==
    ASSUME NEW keys, NEW m, IsMap(keys, m), NEW k \in keys, NEW r \in Recipients, NEW max \in Nat,
           NEW b \in Nat, b > 0, NEW all \in Nat, Len(m) + b <= all
    PROVE  StoredIn(keys, R!storeRecipient(m, k, r, max), m, k, r, max, b, all)
  <1> DEFINE p == R!storeRecipient(m, k, r, max)
  <1>1. /\ IsMap(keys, p) /\ Len(p) <= Len(m) + 1
        /\ In(p) \subseteq Put(m, k, r)
        /\ Len(m) + 1 <= max => In(p) = Put(m, k, r)
    BY StoreIs
  <1>2. Len(m) \in Nat /\ Len(p) \in Nat
    BY <1>1, LenProperties DEF IsMap
  <1> HIDE DEF p
  <1>3. Len(p) + (b - 1) <= all /\ Len(m) + (b - 1) <= all
    BY <1>1, <1>2
  <1>4. max >= all => Len(m) + 1 <= max
    BY <1>2
  <1> QED
    BY <1>1, <1>3, <1>4 DEF p, StoredIn

(* message_received, message_sent. *)
LEMMA RouteMessage ==
    ASSUME RInv, NEW s \in Sessions, NEW target \in Targets, R!captureMessageRoute(s, target)
    PROVE  RInv'
  <1> DEFINE x == R!extractRecipient(s, target)
             key == <<s, life[s]>>
             max == setup.maxRoutes
  <1>1. /\ budget.messages > 0 /\ budget' = [budget EXCEPT !.messages = @ - 1]
        /\ talked' = [talked EXCEPT ![s] = target]
        /\ UNCHANGED <<setup, byToolCallId, dispatches, life>>
    BY DEF R!captureMessageRoute, R!Spend
  <1>2. /\ DOMAIN routes' = {"key", "id"}
        /\ routes'["key"] = IF "key" \in setup.names THEN R!storeRecipient(routes["key"], s, x, max) ELSE routes["key"]
        /\ routes'["id"] = IF "id" \in setup.names THEN R!storeRecipient(routes["id"], key, x, max) ELSE routes["id"]
    BY DEF R!captureMessageRoute, R!NameOf, RInv, RShape
  <1>3. x \in Recipients /\ x.target = target
    BY Extracted DEF RInv
  <1>4. /\ key \in Lives /\ key[1] = s /\ key[2] = life[s]
        /\ IsMap(Sessions, routes["key"]) /\ IsMap(Lives, routes["id"])
        /\ budget.messages \in Nat /\ max \in Nat /\ setup.messages \in Nat
    BY SetupIs DEF RInv, RShape, Lives
  <1> HIDE DEF x, key, max
  <1>5. /\ budget' \in [{"messages", "dispatches", "ends", "compactions"} -> Nat]
        /\ budget'.messages = budget.messages - 1 /\ budget'.dispatches = budget.dispatches
    <2>1. budget.messages - 1 \in Nat
      BY <1>1, <1>4
    <2> QED
      BY <1>1, <2>1 DEF RInv, RShape
  <1>6. talked' \in [Sessions -> Targets] /\ talked'[s] = target /\ \A o \in Sessions : o # s => talked'[o] = talked[o]
    BY <1>1 DEF RInv, RShape
  <1>7. \A n \in {"key", "id"} : Len(routes[n]) \in Nat /\ Len(routes[n]) + budget.messages <= setup.messages
    BY <1>4, LenProperties DEF IsMap, RInv, RRoutes, Fitting
  <1> DEFINE keyed == Put(routes["key"], s, x)
             ided == Put(routes["id"], key, x)
  <1>8. /\ IsMap(Sessions, routes'["key"]) /\ Len(routes'["key"]) + budget'.messages <= setup.messages
        /\ "key" \notin setup.names => routes'["key"] = routes["key"]
        /\ "key" \in setup.names => In(routes'["key"]) \subseteq keyed
        /\ "key" \in setup.names /\ Room => In(routes'["key"]) = keyed
    <2> DEFINE q == R!storeRecipient(routes["key"], s, x, max)
    <2>1. StoredIn(Sessions, q, routes["key"], s, x, max, budget.messages, setup.messages)
      <3>1. Len(routes["key"]) + budget.messages <= setup.messages /\ budget.messages > 0
        BY <1>1, <1>7
      <3>2. s \in Sessions
        BY <1>4
      <3> QED
        BY <1>3, <1>4, <3>1, <3>2, Stored, Zenon
    <2> HIDE DEF q
    <2>a. /\ IsMap(Sessions, q) /\ Len(q) + (budget.messages - 1) <= setup.messages
          /\ Len(routes["key"]) + (budget.messages - 1) <= setup.messages
          /\ In(q) \subseteq keyed /\ (max >= setup.messages => In(q) = keyed)
      BY <2>1, Zenon DEF StoredIn
    <2> HIDE DEF keyed
    <2>2. routes'["key"] = IF "key" \in setup.names THEN q ELSE routes["key"]
      BY <1>2 DEF q
    <2>3. Room => max >= setup.messages
      BY DEF Room, max
    <2> QED
      BY <1>4, <1>5, <2>a, <2>2, <2>3
  <1>9. /\ IsMap(Lives, routes'["id"]) /\ Len(routes'["id"]) + budget'.messages <= setup.messages
        /\ "id" \notin setup.names => routes'["id"] = routes["id"]
        /\ "id" \in setup.names => In(routes'["id"]) \subseteq ided
        /\ "id" \in setup.names /\ Room => In(routes'["id"]) = ided
    <2> DEFINE q == R!storeRecipient(routes["id"], key, x, max)
    <2>1. StoredIn(Lives, q, routes["id"], key, x, max, budget.messages, setup.messages)
      <3>1. Len(routes["id"]) + budget.messages <= setup.messages /\ budget.messages > 0
        BY <1>1, <1>7
      <3>2. key \in Lives
        BY <1>4
      <3> QED
        BY <1>3, <1>4, <3>1, <3>2, Stored, Zenon
    <2> HIDE DEF q
    <2>a. /\ IsMap(Lives, q) /\ Len(q) + (budget.messages - 1) <= setup.messages
          /\ Len(routes["id"]) + (budget.messages - 1) <= setup.messages
          /\ In(q) \subseteq ided /\ (max >= setup.messages => In(q) = ided)
      BY <2>1, Zenon DEF StoredIn
    <2> HIDE DEF ided
    <2>2. routes'["id"] = IF "id" \in setup.names THEN q ELSE routes["id"]
      BY <1>2 DEF q
    <2>3. Room => max >= setup.messages
      BY DEF Room, max
    <2> QED
      BY <1>4, <1>5, <2>a, <2>2, <2>3
  <1>10. RShape'
    BY <1>1, <1>2, <1>5, <1>6, <1>8, <1>9 DEF RInv, RShape
  <1>11. ASSUME NEW e \in In(routes'["key"]) PROVE e.recipient.target = talked'[e.key]
    <2>1. e.key \in Sessions
      BY <1>8, InEntries
    <2>2. CASE e \in In(routes["key"]) /\ e.key # s
      BY <1>6, <2>1, <2>2 DEF RInv, RRoutes, KeysTrue
    <2>3. CASE e = [key |-> s, recipient |-> x]
      BY <1>3, <1>6, <2>3
    <2>4. CASE "key" \notin setup.names
      <3>1. e \in In(routes["key"])
        BY <1>8, <2>4
      <3> QED
        BY <2>4, <3>1, NoRoutes DEF RInv
    <2> QED
      BY <1>8, <2>2, <2>3, <2>4 DEF Put
  <1>12. ASSUME NEW e \in In(routes'["id"])
         PROVE  /\ e.key[2] <= life[e.key[1]]
                /\ e.key[2] = life[e.key[1]] => e.recipient.target = talked'[e.key[1]]
    <2>1. e.key \in Sessions \X Nat
      BY <1>9, InEntries DEF Lives
    <2>2. CASE e \in In(routes["id"]) /\ e.key # key
      <3>1. e.key = <<e.key[1], e.key[2]>> /\ e.key[1] \in Sessions
        BY <2>1
      <3>2. e.key[1] # s \/ e.key[2] # life[s]
        BY <2>2, <3>1 DEF key
      <3> QED
        BY <1>6, <2>2, <3>1, <3>2 DEF RInv, RRoutes, IdsTrue
    <2>3. CASE e = [key |-> key, recipient |-> x]
      <3>1. e.key = key /\ e.recipient = x /\ life[s] \in Nat
        BY <2>3 DEF RInv, RShape
      <3> QED
        BY <1>3, <1>4, <1>6, <3>1
    <2>4. CASE "id" \notin setup.names
      <3>1. e \in In(routes["id"])
        BY <1>9, <2>4
      <3> QED
        BY <2>4, <3>1, NoRoutes DEF RInv
    <2> QED
      BY <1>9, <2>2, <2>3, <2>4 DEF Put
  <1>13. ASSUME Room, NEW o \in Sessions, talked'[o] # None
         PROVE  /\ "key" \in setup.names => \E e \in In(routes'["key"]) : e.key = o
                /\ "id" \in setup.names => \E e \in In(routes'["id"]) : e.key = <<o, life[o]>>
    <2>1. CASE o = s
      <3>1. "key" \in setup.names => [key |-> s, recipient |-> x] \in In(routes'["key"])
        BY <1>8, <1>13 DEF Put
      <3>2. "id" \in setup.names => [key |-> key, recipient |-> x] \in In(routes'["id"])
        BY <1>9, <1>13 DEF Put
      <3>3. [key |-> s, recipient |-> x].key = s /\ [key |-> key, recipient |-> x].key = <<s, life[s]>>
        BY DEF key
      <3> QED
        BY <2>1, <3>1, <3>2, <3>3
    <2>2. CASE o # s
      <3>1. talked[o] # None
        BY <1>6, <1>13, <2>2
      <3>2. <<o, life[o]>> # key
        BY <2>2 DEF key
      <3>3. ASSUME "key" \in setup.names PROVE \E e \in In(routes'["key"]) : e.key = o
        <4>1. PICK e \in In(routes["key"]) : e.key = o
          BY <1>13, <3>1, <3>3 DEF RInv, RRoutes, Noted
        <4> QED
          BY <1>8, <1>13, <2>2, <3>3, <4>1 DEF Put
      <3>4. ASSUME "id" \in setup.names PROVE \E e \in In(routes'["id"]) : e.key = <<o, life[o]>>
        <4>1. PICK e \in In(routes["id"]) : e.key = <<o, life[o]>>
          BY <1>13, <3>1, <3>4 DEF RInv, RRoutes, Noted
        <4> QED
          BY <1>9, <1>13, <3>2, <3>4, <4>1 DEF Put
      <3> QED
        BY <3>3, <3>4
    <2> QED
      BY <2>1, <2>2
  <1>14. RRoutes'
    <2>1. ASSUME NEW n \in {"key", "id"}
          PROVE  /\ Len(routes'[n]) + budget'.messages <= setup.messages
                 /\ n \notin setup.names => In(routes'[n]) = {}
      BY <1>8, <1>9, NoRoutes DEF RInv
    <2> HIDE DEF keyed, ided
    <2>2. UNCHANGED setup /\ UNCHANGED life
      BY <1>1
    <2>3. KeysTrue'
      BY <1>11 DEF KeysTrue
    <2>4. IdsTrue'
      BY <1>12, <2>2 DEF IdsTrue
    <2>5. Noted'
      BY <1>13, <2>2 DEF Noted, Room
    <2>6. Fitting'
      BY <2>1, <2>2 DEF Fitting
    <2> QED
      BY <2>3, <2>4, <2>5, <2>6 DEF RRoutes
  <1>15. RCalls' /\ RAnswers'
    BY <1>1, <1>5 DEF RInv, RCalls, CallsFit, CallsOwn, CallsNoted, RAnswers, Answered, Own, Room
  <1> QED
    BY <1>10, <1>14, <1>15 DEF RInv

(* A step of the calls leaves the routes. *)
LEMMA RoutesStay ==
    ASSUME RInv, UNCHANGED <<setup, routes, life, talked>>, budget'.messages = budget.messages
    PROVE  RRoutes'
  BY DEF RInv, RRoutes, KeysTrue, IdsTrue, Fitting, Noted, Room

(* A call that is made. *)
LEMMA NewCall ==
    ASSUME NEW d \in Calls, dispatches \in Seq(Calls), dispatches' = Append(dispatches, d)
    PROVE  LET c == Len(dispatches) + 1
           IN  /\ c \in Nat /\ dispatches' \in Seq(Calls) /\ DOMAIN dispatches' = DOMAIN dispatches \cup {c}
               /\ c \notin DOMAIN dispatches /\ dispatches'[c] = d
               /\ \A o \in DOMAIN dispatches : dispatches'[o] = dispatches[o]
  <1> DEFINE n == Append(dispatches, d)
  <1>1. /\ n \in Seq(Calls) /\ Len(n) = Len(dispatches) + 1 /\ n[Len(dispatches) + 1] = d
        /\ \A o \in 1..Len(dispatches) : n[o] = dispatches[o]
    BY AppendProperties
  <1>2. Len(dispatches) \in Nat /\ DOMAIN dispatches = 1..Len(dispatches) /\ DOMAIN n = 1..Len(n)
    BY <1>1, LenProperties
  <1>3. dispatches' = n
    OBVIOUS
  <1> HIDE DEF n
  <1> QED
    BY <1>1, <1>2, <1>3

(* A call that is changed. *)
LEMMA CallSet ==
    ASSUME NEW d \in Calls, dispatches \in Seq(Calls), NEW c \in DOMAIN dispatches,
           dispatches' = [dispatches EXCEPT ![c] = d]
    PROVE  /\ dispatches' \in Seq(Calls) /\ DOMAIN dispatches' = DOMAIN dispatches /\ dispatches'[c] = d
           /\ \A o \in DOMAIN dispatches : o # c => dispatches'[o] = dispatches[o]
  <1> DEFINE n == [dispatches EXCEPT ![c] = d]
  <1>1. DOMAIN dispatches = 1..Len(dispatches)
    BY LenProperties
  <1>2. n \in Seq(Calls) /\ DOMAIN n = DOMAIN dispatches /\ n[c] = d
    BY <1>1, ExceptSeq
  <1>3. \A o \in DOMAIN dispatches : o # c => n[o] = dispatches[o]
    OBVIOUS
  <1> QED
    BY <1>2, <1>3

(* What the fallback of a session is, and what it makes of a call's recipient. *)
LEMMA Merged ==
    ASSUME RInv, NEW s \in Sessions, NEW target \in Targets
    PROVE  LET r == R!mergeRecipients(R!extractRecipient(s, target), R!Fallback(s))
               said == IF target = None THEN talked[s] ELSE target
           IN  /\ r \in Recipients /\ r.key \in {None, s} /\ r.id \in {None, <<s, life[s]>>}
               /\ r.target \in {None, said} /\ (Room => r.target = said)
  <1> DEFINE x == R!extractRecipient(s, target)
             f == R!Fallback(s)
             r == R!mergeRecipients(x, f)
             said == IF target = None THEN talked[s] ELSE target
  <1>1. /\ x \in Recipients /\ x.target = target
        /\ x.key \in {None, s} /\ x.id \in {None, <<s, life[s]>>}
    BY Extracted DEF RInv
  <1>2. r = IF f = None \/ x.target # None THEN x ELSE [x EXCEPT !.target = f.target]
    BY DEF R!mergeRecipients
  <1>3. /\ IsMap(Sessions, routes["key"]) /\ IsMap(Lives, routes["id"])
        /\ <<s, life[s]>> \in Lives /\ <<s, life[s]>>[1] = s /\ <<s, life[s]>>[2] = life[s]
        /\ setup \in RouteSetups /\ talked[s] \in Targets
    BY DEF RInv, RShape, Lives
  <1>4. /\ f = None \/ (f \in Recipients /\ f.target = talked[s])
        /\ Room /\ talked[s] # None => f # None
    <2>1. CASE "key" \in setup.names
      <3>1. f = R!getRecipient(routes["key"], s)
        BY <2>1 DEF R!Fallback, R!NameOf
      <3>2. \/ \E e \in In(routes["key"]) : e.key = s /\ f = e.recipient
            \/ (\A e \in In(routes["key"]) : e.key # s) /\ f = None
        <4>1. \/ \E e \in In(routes["key"]) : e.key = s /\ R!getRecipient(routes["key"], s) = e.recipient
              \/ (\A e \in In(routes["key"]) : e.key # s) /\ R!getRecipient(routes["key"], s) = None
          BY <1>3, GetIs, Zenon
        <4> HIDE DEF f
        <4> QED
          BY <3>1, <4>1
      <3> HIDE DEF f
      <3>3. ASSUME NEW e \in In(routes["key"]), e.key = s, f = e.recipient
            PROVE  f \in Recipients /\ f.target = talked[s] /\ f # None
        <4>1. e.recipient \in Recipients
          BY <1>3, InEntries
        <4>2. e.recipient.target = talked[e.key]
          BY DEF RInv, RRoutes, KeysTrue
        <4> QED
          BY <3>3, <4>1, <4>2, NoneIsNothing
      <3>4. Room /\ talked[s] # None => \E e \in In(routes["key"]) : e.key = s
        BY <2>1 DEF RInv, RRoutes, Noted
      <3> QED
        BY <3>2, <3>3, <3>4
    <2>2. CASE "key" \notin setup.names
      <3> DEFINE key == <<s, life[s]>>
      <3>1. f = R!getRecipient(routes["id"], key) /\ "id" \in setup.names
        BY <1>3, <2>2, SetupIs DEF R!Fallback, R!NameOf
      <3>2. \/ \E e \in In(routes["id"]) : e.key = key /\ f = e.recipient
            \/ (\A e \in In(routes["id"]) : e.key # key) /\ f = None
        <4>1. \/ \E e \in In(routes["id"]) : e.key = key /\ R!getRecipient(routes["id"], key) = e.recipient
              \/ (\A e \in In(routes["id"]) : e.key # key) /\ R!getRecipient(routes["id"], key) = None
          BY <1>3, GetIs, Zenon
        <4> HIDE DEF f
        <4> QED
          BY <3>1, <4>1
      <3>3. key[1] = s /\ key[2] = life[s]
        BY <1>3
      <3>4. Room /\ talked[s] # None => \E e \in In(routes["id"]) : e.key = key
        BY <3>1 DEF RInv, RRoutes, Noted
      <3> HIDE DEF f, key
      <3>5. ASSUME NEW e \in In(routes["id"]), e.key = key, f = e.recipient
            PROVE  f \in Recipients /\ f.target = talked[s] /\ f # None
        <4>1. e.recipient \in Recipients
          BY <1>3, InEntries
        <4>2. e.key[2] = life[e.key[1]] => e.recipient.target = talked[e.key[1]]
          BY DEF RInv, RRoutes, IdsTrue
        <4> QED
          BY <3>3, <3>5, <4>1, <4>2, NoneIsNothing
      <3> QED
        BY <3>2, <3>4, <3>5
    <2> QED
      BY <2>1, <2>2
  <1> HIDE DEF x, f
  <1>5. /\ r \in Recipients /\ r.key \in {None, s} /\ r.id \in {None, <<s, life[s]>>}
        /\ r.target \in {None, said} /\ (Room => r.target = said)
    <2>1. CASE f = None \/ x.target # None
      <3>1. r = x
        BY <1>2, <2>1
      <3> HIDE DEF r
      <3> QED
        BY <1>1, <1>4, <2>1, <3>1
    <2>2. CASE ~(f = None \/ x.target # None)
      <3>1. r = [x EXCEPT !.target = f.target]
        BY <1>2, <2>2
      <3>2. f \in Recipients /\ f.target = talked[s] /\ target = None /\ talked[s] \in Targets
        BY <1>1, <1>3, <1>4, <2>2
      <3> HIDE DEF r
      <3>3. r \in Recipients /\ r.key = x.key /\ r.id = x.id /\ r.target = talked[s]
        BY <1>1, <3>1, <3>2 DEF Recipients, Targets
      <3> QED
        BY <1>1, <3>2, <3>3
    <2> QED
      BY <2>1, <2>2
  <1> QED
    BY <1>5 DEF r, x, f

(* A call of a session, with the route of the session. *)
LEMMA RouteToolCall ==
    ASSUME RInv, NEW s \in Sessions, NEW target \in Targets, R!captureToolCall(s, target)
    PROVE  RInv'
  <1> DEFINE c == Len(dispatches) + 1
             said == IF target = None THEN talked[s] ELSE target
             r == R!mergeRecipients(R!extractRecipient(s, target), R!Fallback(s))
             d == [chat |-> s, life |-> life[s], said |-> said, pc |-> "called",
                   kept |-> TRUE, raw |-> None, delivery |-> None]
             q == R!storeRecipient(byToolCallId, c, r, setup.maxCalls)
  <1>1. /\ budget.dispatches > 0 /\ budget' = [budget EXCEPT !.dispatches = @ - 1]
        /\ byToolCallId' = q /\ dispatches' = Append(dispatches, d)
        /\ UNCHANGED <<setup, routes, life, talked>>
    BY DEF R!captureToolCall, R!Spend
  <1>2. /\ r \in Recipients /\ r.key \in {None, s} /\ r.id \in {None, <<s, life[s]>>}
        /\ r.target \in {None, said} /\ (Room => r.target = said)
    BY Merged
  <1>3. /\ setup.dispatches \in Nat /\ setup.maxCalls \in Nat /\ budget.dispatches \in Nat
        /\ IsMap(Nat, byToolCallId) /\ dispatches \in Seq(Calls) /\ life[s] \in Nat /\ said \in Targets
    BY SetupIs DEF RInv, RShape
  <1>4. d \in Calls
    BY <1>3 DEF Calls
  <1>5. /\ d.chat = s /\ d.life = life[s] /\ d.said = said /\ d.pc = "called" /\ d.delivery = None
    OBVIOUS
  <1> HIDE DEF d, r
  <1>6. /\ c \in Nat /\ dispatches' \in Seq(Calls) /\ DOMAIN dispatches' = DOMAIN dispatches \cup {c}
        /\ c \notin DOMAIN dispatches /\ dispatches'[c] = d
        /\ \A o \in DOMAIN dispatches : dispatches'[o] = dispatches[o]
    BY <1>1, <1>3, <1>4, NewCall
  <1> HIDE DEF c, said
  <1>7. StoredIn(Nat, q, byToolCallId, c, r, setup.maxCalls, budget.dispatches, setup.dispatches)
    <2>1. Len(byToolCallId) + budget.dispatches <= setup.dispatches
      BY DEF RInv, RCalls, CallsFit
    <2> QED
      BY <1>1, <1>2, <1>3, <1>6, <2>1, Stored, Zenon
  <1> HIDE DEF q
  <1>8. /\ budget' \in [{"messages", "dispatches", "ends", "compactions"} -> Nat]
        /\ budget'.messages = budget.messages /\ budget'.dispatches = budget.dispatches - 1
    <2>1. budget.dispatches - 1 \in Nat
      BY <1>1, <1>3
    <2> QED
      BY <1>1, <2>1 DEF RInv, RShape
  <1> DEFINE put == Put(byToolCallId, c, r)
  <1>9. /\ IsMap(Nat, byToolCallId') /\ Len(byToolCallId') + budget'.dispatches <= setup.dispatches
        /\ In(byToolCallId') \subseteq put /\ (Room => In(byToolCallId') = put)
    <2> HIDE DEF put
    <2>1. /\ IsMap(Nat, q) /\ Len(q) + (budget.dispatches - 1) <= setup.dispatches
          /\ In(q) \subseteq put /\ (setup.maxCalls >= setup.dispatches => In(q) = put)
      BY <1>7, Zenon DEF StoredIn, put
    <2> QED
      BY <1>1, <1>8, <2>1 DEF Room
  <1>10. \A e \in put : (e \in In(byToolCallId) /\ e.key # c) \/ (e.key = c /\ e.recipient = r)
    BY DEF Put
  <1>11. \A e \in In(byToolCallId) : e.key # c => e \in put
    BY DEF Put
  <1>12. \E e \in put : e.key = c
    <2>1. [key |-> c, recipient |-> r] \in put /\ [key |-> c, recipient |-> r].key = c
      BY DEF Put
    <2> QED
      BY <2>1
  <1> HIDE DEF put
  <1>13. RShape'
    BY <1>1, <1>6, <1>8, <1>9 DEF RInv, RShape
  <1>14. RRoutes'
    BY <1>1, <1>8, RoutesStay
  <1>15. CallsFit'
    BY <1>1, <1>9 DEF CallsFit
  <1>16. CallsOwn'
    <2>1. ASSUME NEW e \in In(byToolCallId')
          PROVE  e.key \in DOMAIN dispatches' /\ Own(dispatches'[e.key], e.recipient, e.recipient.target)
      <3>1. CASE e \in In(byToolCallId) /\ e.key # c
        BY <1>1, <1>6, <3>1 DEF RInv, RCalls, CallsOwn
      <3>2. CASE e.key = c /\ e.recipient = r
        <4>1. Own(d, r, r.target)
          BY <1>2, <1>5 DEF Own
        <4> QED
          BY <1>6, <3>2, <4>1
      <3> QED
        BY <1>9, <1>10, <3>1, <3>2
    <2>2. Room' = Room
      BY <1>1 DEF Room
    <2> QED
      BY <2>1, <2>2 DEF CallsOwn, Own
  <1>17. CallsNoted'
    <2>1. ASSUME Room, NEW o \in DOMAIN dispatches', dispatches'[o].kept, dispatches'[o].pc = "called"
          PROVE  \E e \in In(byToolCallId') : e.key = o
      <3>1. CASE o = c
        BY <1>9, <1>12, <2>1, <3>1
      <3>2. CASE o # c
        <4>1. o \in DOMAIN dispatches /\ dispatches[o].kept /\ dispatches[o].pc = "called"
          BY <1>6, <2>1, <3>2
        <4>2. \E e \in In(byToolCallId) : e.key = o
          BY <2>1, <4>1 DEF RInv, RCalls, CallsNoted
        <4> QED
          BY <1>9, <1>11, <2>1, <3>2, <4>2
      <3> QED
        BY <3>1, <3>2
    <2> QED
      BY <1>1, <2>1 DEF CallsNoted, Room
  <1>18. RAnswers'
    <2>1. ASSUME NEW o \in DOMAIN dispatches' PROVE Answered(dispatches'[o])
      BY <1>5, <1>6 DEF RInv, RAnswers, Answered
    <2>2. Room' = Room
      BY <1>1 DEF Room
    <2> QED
      BY <2>1, <2>2 DEF RAnswers, Answered, Own
  <1> QED
    BY <1>13, <1>14, <1>15, <1>16, <1>17, <1>18 DEF RInv, RCalls

(* Once a call is executed or over, its recipient is gone. *)
LEMMA CallsShrink ==
    ASSUME RInv, NEW c \in DOMAIN dispatches, NEW d \in Calls, d.pc # "called", Answered(d),
           dispatches' = [dispatches EXCEPT ![c] = d], byToolCallId' = R!Without(byToolCallId, c),
           UNCHANGED <<setup, budget, routes, life, talked>>
    PROVE  RInv'
  <1> DEFINE q == R!Without(byToolCallId, c)
  <1>1. /\ IsMap(Nat, q) /\ Len(q) <= Len(byToolCallId) /\ In(q) = {e \in In(byToolCallId) : e.key # c}
    BY WithoutIs DEF RInv, RShape
  <1>2. Len(byToolCallId) \in Nat /\ Len(q) \in Nat /\ setup.dispatches \in Nat /\ budget.dispatches \in Nat
    BY <1>1, LenProperties, SetupIs DEF IsMap, RInv, RShape
  <1>3. /\ dispatches' \in Seq(Calls) /\ DOMAIN dispatches' = DOMAIN dispatches /\ dispatches'[c] = d
        /\ \A o \in DOMAIN dispatches : o # c => dispatches'[o] = dispatches[o]
    BY CallSet DEF RInv, RShape
  <1>4. byToolCallId' = q
    OBVIOUS
  <1> HIDE DEF q
  <1>5. Room' = Room
    BY DEF Room
  <1>6. RShape'
    BY <1>1, <1>3, <1>4 DEF RInv, RShape
  <1>7. RRoutes'
    BY RoutesStay
  <1>8. CallsFit'
    <2>1. Len(byToolCallId) + budget.dispatches <= setup.dispatches
      BY DEF RInv, RCalls, CallsFit
    <2>2. Len(q) + budget.dispatches <= setup.dispatches
      BY <1>1, <1>2, <2>1
    <2> QED
      BY <1>4, <2>2 DEF CallsFit
  <1>9. CallsOwn'
    BY <1>1, <1>3, <1>4, <1>5 DEF RInv, RCalls, CallsOwn, Own
  <1>10. CallsNoted'
    <2>1. ASSUME Room, NEW o \in DOMAIN dispatches', dispatches'[o].kept, dispatches'[o].pc = "called"
          PROVE  \E e \in In(q) : e.key = o
      <3>1. o # c
        BY <1>3, <2>1
      <3>2. o \in DOMAIN dispatches /\ dispatches[o].kept /\ dispatches[o].pc = "called"
        BY <1>3, <2>1, <3>1
      <3>3. \E e \in In(byToolCallId) : e.key = o
        BY <2>1, <3>2 DEF RInv, RCalls, CallsNoted
      <3> QED
        BY <1>1, <3>1, <3>3
    <2> QED
      BY <1>4, <1>5, <2>1 DEF CallsNoted
  <1>11. RAnswers'
    <2>1. ASSUME NEW o \in DOMAIN dispatches' PROVE Answered(dispatches'[o])
      BY <1>3 DEF RInv, RAnswers
    <2> QED
      BY <1>5, <2>1 DEF RAnswers, Answered, Own
  <1> QED
    BY <1>6, <1>7, <1>8, <1>9, <1>10, <1>11 DEF RInv, RCalls

(* What a call is executed with is its own. *)
LEMMA RouteExecute ==
    ASSUME RInv, NEW c \in DOMAIN dispatches, NEW raw \in {"auto", "declined", "own"}, R!execute(c, raw)
    PROVE  RInv'
  <1> DEFINE g == R!getRecipient(byToolCallId, c)
             v == R!Delivery(g, raw)
             o == dispatches[c]
             d == [o EXCEPT !.pc = "executed", !.raw = raw, !.delivery = v]
  <1>1. /\ o.pc = "called"
        /\ dispatches' = [dispatches EXCEPT ![c].pc = "executed", ![c].raw = raw, ![c].delivery = v]
        /\ byToolCallId' = R!Without(byToolCallId, c)
        /\ UNCHANGED <<setup, budget, routes, life, talked>>
    BY DEF R!execute
  <1> HIDE DEF v
  <1>2. dispatches' = [dispatches EXCEPT ![c] = d]
    BY <1>1
  <1>3. o \in Calls
    BY LenProperties, ElementOfSeq DEF RInv, RShape
  <1>4. IsMap(Nat, byToolCallId)
    BY DEF RInv, RShape
  <1>5. \/ \E e \in In(byToolCallId) : e.key = c /\ g = e.recipient
        \/ (\A e \in In(byToolCallId) : e.key # c) /\ g = None
    <2>1. \/ \E e \in In(byToolCallId) : e.key = c /\ R!getRecipient(byToolCallId, c) = e.recipient
          \/ (\A e \in In(byToolCallId) : e.key # c) /\ R!getRecipient(byToolCallId, c) = None
      BY <1>4, GetIs, Zenon
    <2> QED
      BY <2>1
  <1> HIDE DEF g
  <1>6. ASSUME NEW e \in In(byToolCallId), e.key = c, g = e.recipient
        PROVE  g \in Recipients /\ g # None /\ Own(o, g, g.target)
    <2>1. e.recipient \in Recipients
      BY <1>4, InEntries
    <2>2. Own(dispatches[e.key], e.recipient, e.recipient.target)
      BY DEF RInv, RCalls, CallsOwn
    <2> QED
      BY <1>6, <2>1, <2>2, NoneIsNothing
  <1>7. g = None \/ (g \in Recipients /\ g # None /\ Own(o, g, g.target))
    BY <1>5, <1>6
  <1>8. Room /\ o.kept => g # None
    <2>1. Room /\ o.kept => \E e \in In(byToolCallId) : e.key = c
      BY <1>1 DEF RInv, RCalls, CallsNoted
    <2> QED
      BY <1>5, <1>6, <2>1
  <1>9. /\ v \in {None} \cup [from : Recipients \cup {None}, target : Targets \cup {<<"own">>}]
        /\ raw = "auto" /\ g = None => v = None
        /\ raw = "auto" /\ g # None => v.from = g /\ v.target = g.target /\ v # None
    <2>1. CASE raw = "declined" \/ (raw = "auto" /\ g = None)
      BY <2>1 DEF v, R!Delivery
    <2>2. CASE raw = "own"
      <3>1. v = [from |-> g, target |-> <<"own">>]
        BY <2>2 DEF v, R!Delivery
      <3> QED
        BY <1>7, <2>2, <3>1
    <2>3. CASE raw = "auto" /\ g # None
      <3>1. v = [from |-> g, target |-> g.target]
        BY <2>3 DEF v, R!Delivery
      <3>2. g \in Recipients /\ g.target \in (Sessions \X Nat) \cup {None}
        BY <1>7, <2>3 DEF Recipients
      <3>3. v \in [from : Recipients, target : (Sessions \X Nat) \cup {None}]
        BY <3>1, <3>2
      <3>4. v # None
        BY <3>3, NoneIsNothing
      <3> QED
        BY <2>3, <3>1, <3>2, <3>4 DEF Targets
    <2> QED
      BY <2>1, <2>2, <2>3
  <1>10. /\ d.chat = o.chat /\ d.life = o.life /\ d.said = o.said /\ d.kept = o.kept
         /\ d.pc = "executed" /\ d.raw = raw /\ d.delivery = v /\ d \in Calls
    BY <1>3, <1>9 DEF Calls
  <1> HIDE DEF d, o
  <1>11. Answered(d)
    BY <1>7, <1>8, <1>9, <1>10 DEF Answered, Own
  <1> QED
    BY <1>1, <1>2, <1>10, <1>11, CallsShrink

(* after_tool_call. *)
LEMMA RouteClear ==
    ASSUME RInv, NEW c \in DOMAIN dispatches, R!clearToolCall(c)
    PROVE  RInv'
  <1> DEFINE o == dispatches[c]
             d == [o EXCEPT !.pc = "over"]
  <1>1. /\ dispatches' = [dispatches EXCEPT ![c] = d]
        /\ byToolCallId' = R!Without(byToolCallId, c)
        /\ UNCHANGED <<setup, budget, routes, life, talked>>
    BY DEF R!clearToolCall
  <1>2. o \in Calls
    BY LenProperties, ElementOfSeq DEF RInv, RShape
  <1>3. /\ d.chat = o.chat /\ d.life = o.life /\ d.said = o.said /\ d.kept = o.kept
        /\ d.pc = "over" /\ d.raw = o.raw /\ d.delivery = o.delivery /\ d \in Calls
    BY <1>2 DEF Calls
  <1>4. Answered(o)
    BY DEF RInv, RAnswers
  <1> HIDE DEF d, o
  <1>5. Answered(d)
    BY <1>3, <1>4 DEF Answered, Own
  <1> QED
    BY <1>1, <1>3, <1>5, CallsShrink

(* The calls, when only the routes change. *)
LEMMA CallsStay ==
    ASSUME RInv, UNCHANGED <<setup, byToolCallId, dispatches>>, budget'.dispatches = budget.dispatches
    PROVE  RCalls' /\ RAnswers'
  BY DEF RInv, RCalls, CallsFit, CallsOwn, CallsNoted, RAnswers, Answered, Own, Room

LEMMA RouteEnd ==
    ASSUME RInv, NEW s \in Sessions, R!clearSessionRoute(s)
    PROVE  RInv'
  <1> DEFINE key == <<s, life[s]>>
  <1>1. /\ budget.ends > 0 /\ budget' = [budget EXCEPT !.ends = @ - 1]
        /\ life' = [life EXCEPT ![s] = @ + 1] /\ talked' = [talked EXCEPT ![s] = None]
        /\ UNCHANGED <<setup, byToolCallId, dispatches>>
    BY DEF R!clearSessionRoute, R!Spend
  <1>2. /\ DOMAIN routes' = {"key", "id"}
        /\ routes'["key"] = IF "key" \in setup.names THEN R!Without(routes["key"], s) ELSE routes["key"]
        /\ routes'["id"] = IF "id" \in setup.names THEN R!Without(routes["id"], key) ELSE routes["id"]
    BY DEF R!clearSessionRoute, R!NameOf, RInv, RShape
  <1>3. /\ IsMap(Sessions, routes["key"]) /\ IsMap(Lives, routes["id"])
        /\ budget.messages \in Nat /\ budget.ends \in Nat /\ setup.messages \in Nat /\ life[s] \in Nat
        /\ life \in [Sessions -> Nat] /\ talked \in [Sessions -> Targets]
    BY SetupIs DEF RInv, RShape
  <1>4. key[1] = s /\ key[2] = life[s]
    OBVIOUS
  <1> HIDE DEF key
  <1>5. /\ budget' \in [{"messages", "dispatches", "ends", "compactions"} -> Nat]
        /\ budget'.messages = budget.messages /\ budget'.dispatches = budget.dispatches
    <2>1. budget.ends - 1 \in Nat
      BY <1>1, <1>3
    <2> QED
      BY <1>1, <2>1 DEF RInv, RShape
  <1>6. /\ life' \in [Sessions -> Nat] /\ talked' \in [Sessions -> Targets]
        /\ life'[s] = life[s] + 1 /\ talked'[s] = None
        /\ \A o \in Sessions : o # s => life'[o] = life[o] /\ talked'[o] = talked[o]
    BY <1>1, <1>3 DEF Targets
  <1>7. \A n \in {"key", "id"} : /\ Len(routes[n]) \in Nat /\ Len(routes[n]) + budget.messages <= setup.messages
                                 /\ n \notin setup.names => In(routes[n]) = {}
    BY <1>3, LenProperties DEF IsMap, RInv, RRoutes, Fitting
  <1>8. /\ IsMap(Sessions, routes'["key"]) /\ Len(routes'["key"]) <= Len(routes["key"])
        /\ In(routes'["key"]) = {e \in In(routes["key"]) : e.key # s}
    <2>1. CASE "key" \in setup.names
      BY <1>2, <1>3, <2>1, WithoutIs
    <2>2. CASE "key" \notin setup.names
      BY <1>2, <1>3, <1>7, <2>2
    <2> QED
      BY <2>1, <2>2
  <1>9. /\ IsMap(Lives, routes'["id"]) /\ Len(routes'["id"]) <= Len(routes["id"])
        /\ In(routes'["id"]) = {e \in In(routes["id"]) : e.key # key}
    <2>1. CASE "id" \in setup.names
      BY <1>2, <1>3, <2>1, WithoutIs
    <2>2. CASE "id" \notin setup.names
      BY <1>2, <1>3, <1>7, <2>2
    <2> QED
      BY <2>1, <2>2
  <1>10. RShape'
    BY <1>1, <1>2, <1>5, <1>6, <1>8, <1>9 DEF RInv, RShape
  <1>11. KeysTrue'
    <2>1. ASSUME NEW e \in In(routes'["key"]) PROVE e.recipient.target = talked'[e.key]
      <3>1. e \in In(routes["key"]) /\ e.key # s
        BY <1>8
      <3>2. e.key \in Sessions
        BY <1>3, <3>1, InEntries
      <3> QED
        BY <1>6, <3>1, <3>2 DEF RInv, RRoutes, KeysTrue
    <2> QED
      BY <2>1 DEF KeysTrue
  <1>12. IdsTrue'
    <2>1. ASSUME NEW e \in In(routes'["id"])
          PROVE  /\ e.key[2] <= life'[e.key[1]]
                 /\ e.key[2] = life'[e.key[1]] => e.recipient.target = talked'[e.key[1]]
      <3>1. e \in In(routes["id"]) /\ e.key # key
        BY <1>9
      <3>2. e.key \in Sessions \X Nat
        BY <1>3, <3>1, InEntries DEF Lives
      <3>3. e.key = <<e.key[1], e.key[2]>> /\ e.key[1] \in Sessions /\ e.key[2] \in Nat
        BY <3>2
      <3>4. /\ e.key[2] <= life[e.key[1]]
            /\ e.key[2] = life[e.key[1]] => e.recipient.target = talked[e.key[1]]
        BY <3>1 DEF RInv, RRoutes, IdsTrue
      <3>5. CASE e.key[1] = s
        BY <1>3, <1>6, <3>3, <3>4, <3>5
      <3>6. CASE e.key[1] # s
        BY <1>6, <3>3, <3>4, <3>6
      <3> QED
        BY <3>5, <3>6
    <2> QED
      BY <2>1 DEF IdsTrue
  <1>13. Fitting'
    <2>1. ASSUME NEW n \in {"key", "id"}
          PROVE  /\ Len(routes'[n]) + budget'.messages <= setup.messages
                 /\ n \notin setup.names => In(routes'[n]) = {}
      <3>1. /\ Len(routes'[n]) <= Len(routes[n]) /\ Len(routes'[n]) \in Nat
            /\ In(routes'[n]) \subseteq In(routes[n])
        BY <1>8, <1>9, LenProperties DEF IsMap
      <3>2. Len(routes[n]) \in Nat /\ Len(routes[n]) + budget.messages <= setup.messages
        BY <1>7
      <3>3. Len(routes'[n]) + budget'.messages <= setup.messages
        BY <1>3, <1>5, <3>1, <3>2
      <3> QED
        BY <1>7, <3>1, <3>3
    <2> QED
      BY <1>1, <2>1 DEF Fitting
  <1>14. Noted'
    <2>1. ASSUME Room, NEW o \in Sessions, talked'[o] # None
          PROVE  /\ "key" \in setup.names => \E e \in In(routes'["key"]) : e.key = o
                 /\ "id" \in setup.names => \E e \in In(routes'["id"]) : e.key = <<o, life'[o]>>
      <3>1. o # s
        BY <1>6, <2>1
      <3>2. talked[o] # None /\ life'[o] = life[o]
        BY <1>6, <2>1, <3>1
      <3>3. <<o, life[o]>> # key
        BY <3>1 DEF key
      <3>4. /\ "key" \in setup.names => \E e \in In(routes["key"]) : e.key = o
            /\ "id" \in setup.names => \E e \in In(routes["id"]) : e.key = <<o, life[o]>>
        BY <2>1, <3>2 DEF RInv, RRoutes, Noted
      <3> QED
        BY <1>8, <1>9, <3>1, <3>2, <3>3, <3>4
    <2>2. Room' = Room
      BY <1>1 DEF Room
    <2> QED
      BY <1>1, <2>1, <2>2 DEF Noted
  <1>15. RCalls' /\ RAnswers'
    BY <1>1, <1>5, CallsStay
  <1> QED
    BY <1>10, <1>11, <1>12, <1>13, <1>14, <1>15 DEF RInv, RRoutes

(* before_compaction. *)
LEMMA RouteClearAll ==
    ASSUME RInv, R!clearAll
    PROVE  RInv'
  <1> DEFINE all == [c \in DOMAIN dispatches |-> [dispatches[c] EXCEPT !.kept = FALSE]]
  <1>1. /\ budget.compactions > 0 /\ budget' = [budget EXCEPT !.compactions = @ - 1]
        /\ routes' = [n \in DOMAIN routes |-> <<>>] /\ byToolCallId' = <<>>
        /\ talked' = [s \in Sessions |-> None] /\ dispatches' = all
        /\ UNCHANGED <<setup, life>>
    BY DEF R!clearAll, R!Spend
  <1>2. /\ budget.messages \in Nat /\ budget.dispatches \in Nat /\ budget.compactions \in Nat
        /\ setup.messages \in Nat /\ setup.dispatches \in Nat /\ dispatches \in Seq(Calls)
        /\ \A n \in {"key", "id"} : Len(routes[n]) \in Nat
        /\ Len(byToolCallId) \in Nat
    BY SetupIs, LenProperties DEF RInv, RShape, IsMap
  <1>3. /\ budget' \in [{"messages", "dispatches", "ends", "compactions"} -> Nat]
        /\ budget'.messages = budget.messages /\ budget'.dispatches = budget.dispatches
    <2>1. budget.compactions - 1 \in Nat
      BY <1>1, <1>2
    <2> QED
      BY <1>1, <2>1 DEF RInv, RShape
  <1>4. routes'["key"] = <<>> /\ routes'["id"] = <<>> /\ DOMAIN routes' = {"key", "id"}
    BY <1>1 DEF RInv, RShape
  <1>5. /\ all \in Seq(Calls) /\ DOMAIN all = DOMAIN dispatches
        /\ \A c \in DOMAIN dispatches : ~all[c].kept
        /\ \A c \in DOMAIN dispatches : Answered(all[c])
    <2>1. DOMAIN dispatches = 1..Len(dispatches) /\ Len(dispatches) \in Nat
      BY <1>2, LenProperties
    <2>2. ASSUME NEW c \in DOMAIN dispatches
          PROVE  /\ all[c] \in Calls /\ ~all[c].kept /\ Answered(all[c])
      <3> DEFINE o == dispatches[c]
                 d == [o EXCEPT !.kept = FALSE]
      <3>1. o \in Calls
        BY <1>2, <2>1, ElementOfSeq
      <3>2. Answered(o)
        BY DEF RInv, RAnswers
      <3>3. /\ d.chat = o.chat /\ d.life = o.life /\ d.said = o.said /\ ~d.kept
            /\ d.pc = o.pc /\ d.raw = o.raw /\ d.delivery = o.delivery /\ d \in Calls
        BY <3>1 DEF Calls
      <3>4. all[c] = d
        OBVIOUS
      <3> HIDE DEF all, d, o
      <3> QED
        BY <3>2, <3>3, <3>4 DEF Answered, Own
    <2>3. DOMAIN all = 1..Len(dispatches)
      BY <2>1
    <2> HIDE DEF all
    <2>4. all \in [1..Len(dispatches) -> Calls]
      <3>1. all = [c \in DOMAIN dispatches |-> all[c]]
        BY DEF all
      <3> QED
        BY <2>1, <2>2, <3>1
    <2> QED
      BY <2>1, <2>2, <2>3, <2>4, SeqDef
  <1> HIDE DEF all
  <1>6. RShape'
    BY <1>1, <1>3, <1>4, <1>5, EmptyMap DEF RInv, RShape, Targets
  <1>7. Fitting' /\ CallsFit'
    <2>1. /\ \A n \in {"key", "id"} : Len(routes[n]) + budget.messages <= setup.messages
          /\ Len(byToolCallId) + budget.dispatches <= setup.dispatches
      BY DEF RInv, RRoutes, Fitting, RCalls, CallsFit
    <2>2. 0 + budget.messages <= setup.messages
      <3>1. Len(routes["key"]) + budget.messages <= setup.messages /\ Len(routes["key"]) \in Nat
        BY <1>2, <2>1
      <3> QED
        BY <1>2, <3>1
    <2>3. 0 + budget.dispatches <= setup.dispatches
      BY <1>2, <2>1
    <2> QED
      BY <1>1, <1>3, <1>4, <2>2, <2>3, EmptyMap DEF Fitting, CallsFit
  <1>8. KeysTrue' /\ IdsTrue' /\ Noted'
    BY <1>1, <1>4, EmptyMap DEF KeysTrue, IdsTrue, Noted
  <1>9. CallsOwn' /\ CallsNoted'
    BY <1>1, <1>5, EmptyMap DEF CallsOwn, CallsNoted
  <1>10. RAnswers'
    <2>1. Room' = Room
      BY <1>1 DEF Room
    <2> QED
      BY <1>1, <1>5, <2>1 DEF RAnswers, Answered, Own
  <1> QED
    BY <1>6, <1>7, <1>8, <1>9, <1>10 DEF RInv, RRoutes, RCalls

LEMMA RouteStep ==
    ASSUME RInv, [R!Next]_(R!vars)
    PROVE  RInv'
  <1>1. CASE UNCHANGED R!vars
    BY <1>1 DEF R!vars, RInv, RShape, RRoutes, KeysTrue, IdsTrue, Fitting, Noted, RCalls, CallsFit, CallsOwn,
                CallsNoted, RAnswers, Answered, Own, Room
  <1>2. ASSUME NEW s \in Sessions, NEW t \in {None, R!Target(s)}, R!captureMessageRoute(s, t) \/ R!captureToolCall(s, t)
        PROVE  RInv'
    <2>1. t \in Targets
      <3>1. budget.messages \in Nat /\ budget.dispatches \in Nat
        BY DEF RInv, RShape
      <3>2. budget.messages + budget.dispatches \in Nat
        BY <3>1
      <3> QED
        BY <3>2 DEF R!Target, Targets
    <2> QED
      BY <1>2, <2>1, RouteMessage, RouteToolCall
  <1>3. ASSUME NEW s \in Sessions, R!clearSessionRoute(s) PROVE RInv'
    BY <1>3, RouteEnd
  <1>4. ASSUME NEW c \in DOMAIN dispatches, NEW raw \in {"auto", "declined", "own"}, R!execute(c, raw) PROVE RInv'
    BY <1>4, RouteExecute
  <1>5. ASSUME NEW c \in DOMAIN dispatches, R!clearToolCall(c) PROVE RInv'
    BY <1>5, RouteClear
  <1>6. CASE R!clearAll
    BY <1>6, RouteClearAll
  <1> QED
    BY <1>1, <1>2, <1>3, <1>4, <1>5, <1>6 DEF R!Next

LEMMA RouteHolds == RInv => R!RouteTrue
  BY DEF RInv, RAnswers, Answered, Own, Room, R!RouteTrue, R!AnswersOf

(* A session subscribed to a task hears of every change of it, and the answer to  *)
(* a dispatch goes to the session that made it, whatever the sessions, the        *)
(* limits and the order of their hooks (ViewWatcher, SubscriptionManager,         *)
(* OpenClawToolInvocationContextStore).                                           *)
THEOREM ClientsAreTold == Spec => []ClientsTold
  <1> DEFINE Inv == (part = "watch" => WInv) /\ (part = "routes" => RInv)
  <1>1. Init => Inv
    BY WatchInit, RouteInit DEF Init, MInit, NInit, BInit, TInit, CInit, IInit, PInit, WInit, VInit, RInit, KInit
  <1>2. Inv /\ [Next]_vars => Inv'
    BY OnePart, WatchStep, RouteStep
  <1>3. Inv => ClientsTold
    BY WatchHolds, RouteHolds DEF ClientsTold
  <1> QED
    BY <1>1, <1>2, <1>3, PTL DEF Spec

-----------------------------------------------------------------------------
(* Protocol messages.  A message that is being handled is the first of the lock *)
(* of its task (PTurns), so no other handler of that task is between its steps: *)
(* what it read of the work log is what is there unless a task is written back  *)
(* without the lock (PLog), and, when nobody works around it, so is all of the  *)
(* card (PHand).  Without races the scheduler's moves are between the handlers  *)
(* (PMove).                                                                     *)

Names == {None} \cup STRING
Card == [status : P!Statuses, lease : Names, agent : Names, depth : Nat, log : SUBSET Nat]
Handling == {"read", "append", "list", "cascade", "block", "save", "artifact"}
Working(i) == proc[i].pc \in Handling
Holding(i) == proc[i].pc \in {"read", "append", "save", "artifact"}

PTypes ==
    /\ setup \in MessageSetups
    /\ moves \in [left : Nat, pc : {"idle", "write", "move"}, of : {None, 1, 2}, seen : Card \cup {None}]
    /\ moves.pc # "idle" => moves.of \in {1, 2}
    /\ moves.pc = "write" => moves.seen \in Card
    /\ task \in [{1, 2} -> Card]
    /\ dir \in [{1, 2} -> [P!Statuses -> Names \cup {"empty"}]]
    /\ queue \in [{1, 2} -> Seq(P!Messages)]
    /\ proc \in [P!Messages -> [pc : Handling \cup {"new", "waiting", "done"}, seen : Card \cup {None},
                                left : SUBSET {1, 2}, of : {None, 1, 2}, logged : BOOLEAN]]
    /\ \A i \in P!Messages : Working(i) => proc[i].seen \in Card
    /\ \A i \in P!Messages : proc[i].pc = "block" => proc[i].of \in {1, 2}
PTurns ==
    /\ \A t \in {1, 2} : \A a, b \in DOMAIN queue[t] : queue[t][a] = queue[t][b] => a = b
    /\ \A t \in {1, 2} : \A a \in DOMAIN queue[t] :
          P!Target(queue[t][a]) = t /\ proc[queue[t][a]].pc \notin {"new", "done"}
    /\ \A i \in P!Messages : proc[i].pc \notin {"new", "done"} =>
          \E a \in DOMAIN queue[P!Target(i)] : queue[P!Target(i)][a] = i
    /\ \A i \in P!Messages : Working(i) => queue[P!Target(i)][1] = i
PLog == \A i \in P!Messages :
    /\ proc[i].pc \in {"list", "cascade", "block"} => setup.cascade
    /\ proc[i].left \subseteq Dependents[P!Target(i)]
    /\ proc[i].pc = "block" => proc[i].of \in Dependents[P!Target(i)]
    /\ proc[i].logged => proc[i].pc = "done" /\ (~P!Overwritten(P!Target(i)) => i \in task[P!Target(i)].log)
    /\ Holding(i) /\ ~P!Overwritten(P!Target(i)) => proc[i].seen.log = task[P!Target(i)].log
PMove == ~setup.race /\ moves.pc # "idle" =>
    /\ \A t \in {1, 2} : queue[t] = <<>>
    /\ moves.pc = "write" => moves.seen = task[moves.of]
PHand == P!Alone =>
    /\ \A i \in P!Messages : Working(i) =>
          IF proc[i].pc = "artifact"
            THEN task[P!Target(i)].agent = P!Msg(i).to /\ proc[i].seen.status = task[P!Target(i)].status
            ELSE proc[i].seen = task[P!Target(i)]
    /\ \A t \in {1, 2}, s \in P!Statuses : s # task[t].status => dir[t][s] = None
    /\ \A t \in {1, 2} :
          \/ dir[t][task[t].status] \in {None, "empty", task[t].agent}
          \/ \E i \in P!Messages : proc[i].pc = "artifact" /\ P!Target(i) = t
PInv == PTypes /\ PTurns /\ PLog /\ PHand /\ PMove

(* Each message names its task, its sender, the status or the agent it asks for. *)
LEMMA MessageIs ==
    ASSUME setup \in MessageSetups, NEW i \in P!Messages
    PROVE  /\ P!Target(i) \in {1, 2} /\ P!Msg(i).to \in Names /\ P!Msg(i).from \in Names
           /\ P!Msg(i).status \in {None} \cup P!Statuses /\ i \in Nat
           /\ P!Msg(i).note \in BOOLEAN
  <1> DEFINE Rows == [type : {"status.update", "handoff.request", "handoff.accepted", "handoff.rejected"},
                      task : {1, 2}, from : {None} \cup STRING, status : {None} \cup P!Statuses,
                      note : BOOLEAN, parent : {None, 1, 2}, to : {None} \cup STRING]
  <1>0. setup.msgs \in Seq(Rows)
    BY MessageTypes
  <1>1. setup.msgs[i] \in Rows
    <2> HIDE DEF Rows
    <2> QED
      BY <1>0 DEF P!Messages
  <1> QED
    BY <1>1 DEF P!Target, P!Msg, Names, P!Messages

LEMMA MessageInit == P!Init => PInv
  <1> SUFFICES ASSUME P!Init PROVE PInv
    OBVIOUS
  <1>1. /\ setup \in MessageSetups /\ setup.moves \in Nat /\ Len(setup.msgs) \in Nat
        /\ setup.start \in [{1, 2} -> [status : P!Statuses, lease : {None} \cup STRING,
                              agent : {None} \cup STRING, depth : Nat, log : {{}}]]
    BY MessageTypes DEF P!Init
  <1>2. task \in [{1, 2} -> Card] /\ \A t \in {1, 2} : task[t] = setup.start[t]
    BY <1>1 DEF P!Init, Card, Names
  <1>3. /\ dir \in [{1, 2} -> [P!Statuses -> Names \cup {"empty"}]]
        /\ \A t \in {1, 2}, s \in P!Statuses : dir[t][s] = IF s = task[t].status THEN "empty" ELSE None
    <2>1. dir = [t \in {1, 2} |-> [s \in P!Statuses |-> IF s = setup.start[t].status THEN "empty" ELSE None]]
      BY DEF P!Init
    <2>2. "empty" \in Names \cup {"empty"} /\ None \in Names
      BY DEF Names
    <2> QED
      BY <2>1, <2>2, <1>2
  <1>4. queue \in [{1, 2} -> Seq(P!Messages)] /\ \A t \in {1, 2} : queue[t] = <<>>
    BY DEF P!Init
  <1>5. /\ proc \in [P!Messages -> [pc : Handling \cup {"new", "waiting", "done"}, seen : Card \cup {None},
                                left : SUBSET {1, 2}, of : {None, 1, 2}, logged : BOOLEAN]]
        /\ \A i \in P!Messages : proc[i].pc = "new" /\ ~proc[i].logged /\ proc[i].left = {}
    BY DEF P!Init, P!Messages
  <1>11. moves = [left |-> setup.moves, pc |-> "idle", of |-> None, seen |-> None]
    BY DEF P!Init
  <1>6. PTypes
    BY <1>1, <1>2, <1>3, <1>4, <1>5, <1>11 DEF PTypes, Working, Handling
  <1>7. PTurns
    BY <1>4, <1>5 DEF PTurns, Working, Handling
  <1>8. PLog
    BY <1>5 DEF PLog, Holding
  <1>9. \A t \in {1, 2} : task[t].status \in P!Statuses
    BY <1>2 DEF Card
  <1>10. PHand
    BY <1>2, <1>3, <1>5, <1>9 DEF PHand, Working, Handling
  <1> QED
    BY <1>6, <1>7, <1>8, <1>10, <1>11 DEF PInv, PMove

(* What a handler does to the lock of its task: it keeps it or gives it up.     *)
Keeps(i) == queue' = queue /\ Working(i)'
Leaves(i) ==
    /\ Working(i) /\ proc'[i].pc = "done"
    /\ queue' = [queue EXCEPT ![P!Target(i)] = Tail(queue[P!Target(i)])]
LEMMA HandlerTurn ==
    ASSUME PTypes, PTurns, NEW i \in P!Messages, P!Handler(i)
    PROVE  /\ setup' = setup /\ moves' = moves
           /\ (proc[i].pc = "waiting" /\ Head(queue[P!Target(i)]) = i) \/ Working(i)
           /\ DOMAIN proc' = P!Messages /\ \A j \in P!Messages \ {i} : proc'[j] = proc[j]
           /\ Keeps(i) \/ Leaves(i)
  <1> USE DEF Keeps, Leaves, Working, Handling, P!Goto, P!Finish
  <1>1. proc \in [P!Messages -> [pc : Handling \cup {"new", "waiting", "done"}, seen : Card \cup {None},
                                left : SUBSET {1, 2}, of : {None, 1, 2}, logged : BOOLEAN]]
    BY DEF PTypes
  <1>2. CASE P!begin(i)
    BY <1>1, <1>2 DEF P!begin
  <1>3. CASE P!handleStatusUpdate(i)
    BY <1>1, <1>3 DEF P!handleStatusUpdate
  <1>4. CASE P!appendWorkLog(i)
    BY <1>1, <1>4 DEF P!appendWorkLog
  <1>5. CASE P!listDependents(i)
    BY <1>1, <1>5 DEF P!listDependents
  <1>6. CASE P!readDependent(i)
    <2>1. CASE proc[i].left = {}
      BY <1>1, <1>6, <2>1 DEF P!readDependent
    <2>2. CASE proc[i].left # {}
      <3>1. PICK d \in proc[i].left : proc' = [proc EXCEPT ![i].pc = "block", ![i].seen = task[d], ![i].of = d]
        BY <1>6, <2>2 DEF P!readDependent
      <3>2. proc'[i].pc = "block" /\ DOMAIN proc' = P!Messages /\ \A j \in P!Messages \ {i} : proc'[j] = proc[j]
        BY <1>1, <3>1
      <3> QED
        BY <3>2, <1>6, <2>2 DEF P!readDependent
    <2> QED
      BY <2>1, <2>2
  <1>7. CASE P!blockDependent(i)
    BY <1>1, <1>7 DEF P!blockDependent
  <1>8. CASE P!handleHandoffRequest(i)
    BY <1>1, <1>8 DEF P!handleHandoffRequest
  <1>9. CASE P!saveChild(i)
    BY <1>1, <1>9 DEF P!saveChild
  <1>10. CASE P!writeHandoffArtifacts(i)
    BY <1>1, <1>10 DEF P!writeHandoffArtifacts
  <1>11. CASE P!handleHandoffAck(i)
    BY <1>1, <1>11 DEF P!handleHandoffAck
  <1> QED
    BY <1>2, <1>3, <1>4, <1>5, <1>6, <1>7, <1>8, <1>9, <1>10, <1>11 DEF P!Handler

LEMMA FirstTurn ==
    ASSUME PTypes, PTurns, NEW i \in P!Messages, P!Handler(i)
    PROVE  LET q == queue[P!Target(i)] IN q \in Seq(P!Messages) /\ q # <<>> /\ q[1] = i
  <1> DEFINE q == queue[P!Target(i)]
  <1>1. (proc[i].pc = "waiting" /\ Head(q) = i) \/ Working(i)
    BY HandlerTurn
  <1>2. proc[i].pc \notin {"new", "done"}
    BY <1>1 DEF Working, Handling
  <1>3. PICK a \in DOMAIN q : q[a] = i
    BY <1>2 DEF PTurns
  <1>4. q \in Seq(P!Messages)
    BY MessageIs DEF PTypes
  <1> QED
    BY <1>1, <1>3, <1>4 DEF PTurns

LEMMA TurnsKept ==
    ASSUME PTypes, PTurns, NEW i \in P!Messages, P!Handler(i)
    PROVE  PTurns' /\ queue' \in [{1, 2} -> Seq(P!Messages)]
  <1> DEFINE t == P!Target(i)
  <1>1. /\ setup' = setup /\ DOMAIN proc' = P!Messages /\ \A j \in P!Messages \ {i} : proc'[j] = proc[j]
        /\ (proc[i].pc = "waiting" /\ Head(queue[t]) = i) \/ Working(i)
        /\ Keeps(i) \/ Leaves(i)
    BY HandlerTurn
  <1>2. /\ P!Messages' = P!Messages /\ \A j : P!Target(j)' = P!Target(j)
        /\ queue \in [{1, 2} -> Seq(P!Messages)] /\ \A j \in P!Messages : P!Target(j) \in {1, 2}
    BY <1>1, MessageIs DEF P!Messages, P!Target, P!Msg, PTypes
  <1>3. queue[t] \in Seq(P!Messages) /\ queue[t] # <<>> /\ queue[t][1] = i
    BY FirstTurn
  <1> HIDE DEF t
  <1>4. \A j \in P!Messages : j # i /\ Working(j) => P!Target(j) # t
    BY <1>3 DEF PTurns
  <1>5. CASE Keeps(i)
    <2>1. \A j \in P!Messages : proc[j].pc \notin {"new", "done"} <=> proc'[j].pc \notin {"new", "done"}
      BY <1>1, <1>5 DEF Keeps, Working, Handling
    <2>2. \A j \in P!Messages : Working(j)' => queue[P!Target(j)][1] = j
      BY <1>1, <1>3 DEF t, Working, PTurns
    <2>3. \A u \in {1, 2} : \A a \in DOMAIN queue[u] : queue[u][a] \in P!Messages
      BY <1>2
    <2> QED
      BY <2>1, <2>2, <2>3, <1>2, <1>5 DEF PTurns, Keeps
  <1>6. CASE Leaves(i)
    <2>1. /\ queue' \in [{1, 2} -> Seq(P!Messages)] /\ queue'[t] = Tail(queue[t])
          /\ \A u \in {1, 2} \ {t} : queue'[u] = queue[u]
      BY <1>2, <1>3, <1>6 DEF Leaves, t
    <2>2. /\ Len(queue'[t]) = Len(queue[t]) - 1 /\ Len(queue[t]) \in Nat /\ DOMAIN queue[t] = 1..Len(queue[t])
          /\ DOMAIN queue'[t] = 1..(Len(queue[t]) - 1)
          /\ \A a \in DOMAIN queue'[t] : a + 1 \in DOMAIN queue[t] /\ queue'[t][a] = queue[t][a + 1]
      BY <2>1, <1>3
    <2>3. ~Working(i)' /\ proc'[i].pc = "done"
      BY <1>6 DEF Leaves, Working, Handling
    <2>4. \A a \in DOMAIN queue'[t] : queue'[t][a] # i
      BY <2>2, <1>3, <1>2 DEF PTurns, t
    <2>5. ASSUME NEW u \in {1, 2}, NEW a \in DOMAIN queue'[u], NEW b \in DOMAIN queue'[u], queue'[u][a] = queue'[u][b]
          PROVE  a = b
      <3>1. CASE u # t
        BY <3>1, <2>1, <2>5 DEF PTurns
      <3>2. CASE u = t
        <4>1. a + 1 \in DOMAIN queue[t] /\ b + 1 \in DOMAIN queue[t] /\ queue[t][a + 1] = queue[t][b + 1]
          BY <3>2, <2>2, <2>5
        <4>2. a + 1 = b + 1
          BY <4>1, <1>2 DEF PTurns, t
        <4> QED
          BY <4>2, <3>2, <2>2
      <3> QED
        BY <3>1, <3>2
    <2>6. ASSUME NEW u \in {1, 2}, NEW a \in DOMAIN queue'[u]
          PROVE  P!Target(queue'[u][a]) = u /\ proc'[queue'[u][a]].pc \notin {"new", "done"}
      <3>0. \E b \in DOMAIN queue[u] : queue'[u][a] = queue[u][b]
        <4>1. CASE u = t
          BY <4>1, <2>2
        <4>2. CASE u # t
          BY <4>2, <2>1
        <4> QED
          BY <4>1, <4>2
      <3>1. PICK b \in DOMAIN queue[u] : queue'[u][a] = queue[u][b]
        BY <3>0
      <3>2. P!Target(queue[u][b]) = u /\ proc[queue[u][b]].pc \notin {"new", "done"} /\ queue[u][b] \in P!Messages
        BY <1>2 DEF PTurns
      <3>3. queue[u][b] # i
        BY <3>1, <3>2, <2>4, <1>2 DEF t
      <3> QED
        BY <3>1, <3>2, <3>3, <1>1
    <2>7. ASSUME NEW j \in P!Messages, proc'[j].pc \notin {"new", "done"}
          PROVE  \E a \in DOMAIN queue'[P!Target(j)] : queue'[P!Target(j)][a] = j
      <3>1. j # i /\ proc[j].pc \notin {"new", "done"}
        BY <2>3, <2>7, <1>1
      <3>2. PICK a \in DOMAIN queue[P!Target(j)] : queue[P!Target(j)][a] = j
        BY <3>1 DEF PTurns
      <3>3. CASE P!Target(j) # t
        BY <3>2, <3>3, <2>1, <1>2
      <3>4. CASE P!Target(j) = t
        <4>1. a # 1 /\ a \in 1..Len(queue[t])
          BY <3>1, <3>2, <3>4, <1>3, <2>2
        <4>2. a - 1 \in DOMAIN queue'[t] /\ queue'[t][a - 1] = j
          BY <4>1, <2>2, <3>2, <3>4
        <4> QED
          BY <4>2, <3>4
      <3> QED
        BY <3>3, <3>4
    <2>8. ASSUME NEW j \in P!Messages, Working(j)'
          PROVE  queue'[P!Target(j)][1] = j
      <3>1. j # i /\ Working(j)
        BY <2>3, <2>8, <1>1 DEF Working
      <3> QED
        BY <3>1, <1>4, <1>2, <2>1 DEF PTurns
    <2> QED
      BY <2>1, <2>5, <2>6, <2>7, <2>8, <1>2 DEF PTurns
  <1>7. queue' \in [{1, 2} -> Seq(P!Messages)]
    <2>1. Tail(queue[t]) \in Seq(P!Messages)
      BY <1>3
    <2> QED
      BY <2>1, <1>1, <1>2 DEF Keeps, Leaves, t
  <1> QED
    BY <1>1, <1>5, <1>6, <1>7

(* A card that the store moves keeps its log and its agent, and its companion   *)
(* directory goes with it.                                                      *)
LEMMA NoLoop == \A s \in P!Statuses : \A to : P!isValidTransition(s, to) => to \in P!Statuses /\ to # s
  BY DEF P!Statuses, P!isValidTransition, P!VALID_TRANSITIONS
LEMMA CardMoves ==
    ASSUME task \in [{1, 2} -> Card], dir \in [{1, 2} -> [P!Statuses -> Names \cup {"empty"}]],
           NEW t \in {1, 2}, NEW rec \in Card, NEW to \in P!Statuses, P!Transition(t, rec, to)
    PROVE  /\ task' \in [{1, 2} -> Card] /\ dir' \in [{1, 2} -> [P!Statuses -> Names \cup {"empty"}]]
           /\ task'[t].status = to /\ task'[t].log = rec.log /\ task'[t].agent = rec.agent
           /\ \A u \in {1, 2} \ {t} : task'[u] = task[u] /\ dir'[u] = dir[u]
           /\ to # rec.status /\ (\A s \in P!Statuses : s # rec.status => dir[t][s] = None) =>
                 /\ \A s \in P!Statuses : s # to => dir'[t][s] = None
                 /\ dir'[t][to] = dir[t][rec.status]
  <1>1. /\ P!Moved(rec, to) \in Card /\ P!Moved(rec, to).status = to
        /\ P!Moved(rec, to).log = rec.log /\ P!Moved(rec, to).agent = rec.agent
    BY DEF P!Moved, Card, Names
  <1>2. task' = [task EXCEPT ![t] = P!Moved(rec, to)] /\ rec.status \in P!Statuses
    BY DEF P!Transition, Card
  <1>3. CASE dir[t][rec.status] = None
    BY <1>1, <1>2, <1>3 DEF P!Transition
  <1>4. CASE dir[t][rec.status] # None
    <2>1. dir' = [dir EXCEPT ![t][to] = dir[t][rec.status], ![t][rec.status] = None]
      BY <1>4 DEF P!Transition
    <2>2. None \in Names
      BY DEF Names
    <2>3. dir' \in [{1, 2} -> [P!Statuses -> Names \cup {"empty"}]] /\ \A u \in {1, 2} \ {t} : dir'[u] = dir[u]
      BY <1>2, <2>1, <2>2
    <2>4. to # rec.status =>
             /\ dir'[t][to] = dir[t][rec.status] /\ dir'[t][rec.status] = None
             /\ \A s \in P!Statuses : s \notin {to, rec.status} => dir'[t][s] = dir[t][s]
      BY <1>2, <2>1
    <2> QED
      BY <1>1, <1>2, <2>3, <2>4
  <1> QED
    BY <1>3, <1>4

LEMMA MessageTyped ==
    ASSUME PTypes, PTurns, NEW i \in P!Messages, P!Handler(i)
    PROVE  PTypes'
  <1> DEFINE t == P!Target(i)
             Proc == [pc : Handling \cup {"new", "waiting", "done"}, seen : Card \cup {None},
                      left : SUBSET {1, 2}, of : {None, 1, 2}, logged : BOOLEAN]
             Cards == task' \in [{1, 2} -> Card] /\ dir' \in [{1, 2} -> [P!Statuses -> Names \cup {"empty"}]]
             OfHandler == /\ proc'[i] \in Proc /\ proc' = [proc EXCEPT ![i] = proc'[i]]
                          /\ Working(i)' => proc'[i].seen \in Card
                          /\ proc'[i].pc = "block" => proc'[i].of \in {1, 2}
  <1>1. /\ setup' = setup /\ moves' = moves /\ \A j \in P!Messages \ {i} : proc'[j] = proc[j]
        /\ queue' \in [{1, 2} -> Seq(P!Messages)] /\ P!Messages' = P!Messages
    BY HandlerTurn, TurnsKept DEF P!Messages
  <1>2. /\ task \in [{1, 2} -> Card] /\ dir \in [{1, 2} -> [P!Statuses -> Names \cup {"empty"}]]
        /\ proc \in [P!Messages -> Proc] /\ t \in {1, 2} /\ proc[i] \in Proc
        /\ Working(i) => proc[i].seen \in Card
        /\ proc[i].pc = "block" => proc[i].of \in {1, 2}
    BY MessageIs DEF PTypes
  <1>3. ASSUME Cards, OfHandler PROVE PTypes'
    <2>1. proc' \in [P!Messages -> Proc]
      BY <1>2, <1>3
    <2>2. ASSUME NEW j \in P!Messages
          PROVE  (Working(j)' => proc'[j].seen \in Card) /\ (proc'[j].pc = "block" => proc'[j].of \in {1, 2})
      BY <1>1, <1>3, <2>2 DEF PTypes, Working
    <2> QED
      BY <1>1, <1>3, <2>1, <2>2 DEF PTypes
  <1>4. ASSUME P!Goto(i, "done") PROVE OfHandler
    BY <1>2, <1>4 DEF P!Goto, Working, Handling
  <1>5. ASSUME NEW next \in Handling \ {"block"}, P!Goto(i, next), Working(i) PROVE OfHandler
    BY <1>2, <1>5 DEF P!Goto, Working, Handling
  <1>6. CASE P!begin(i)
    <2>1. OfHandler
      BY <1>2, <1>6 DEF P!begin, Working, Handling
    <2> QED
      BY <1>2, <1>3, <1>6, <2>1 DEF P!begin
  <1>7. CASE P!handleStatusUpdate(i)
    <2>1. Working(i)
      BY <1>7 DEF P!handleStatusUpdate, Working, Handling
    <2>2. OfHandler
      BY <1>4, <1>5, <1>7, <2>1 DEF P!handleStatusUpdate, P!Finish, Handling
    <2>3. Cards
      <3>1. CASE UNCHANGED <<task, dir>>
        BY <1>2, <3>1
      <3>2. CASE P!Transition(t, task[t], P!Msg(i).status) /\ P!Msg(i).status # None
        BY <1>2, <3>2, CardMoves, MessageIs DEF PTypes
      <3> QED
        BY <1>7, <3>1, <3>2 DEF P!handleStatusUpdate
    <2> QED
      BY <1>3, <2>2, <2>3
  <1>8. CASE P!appendWorkLog(i)
    <2>1. OfHandler
      BY <1>2, <1>8 DEF P!appendWorkLog, Working, Handling
    <2>2. Working(i) /\ i \in Nat
      BY <1>8, MessageIs DEF P!appendWorkLog, Working, Handling, PTypes
    <2>3. [task[t] EXCEPT !.log = proc[i].seen.log \cup {i}] \in Card
      BY <1>2, <2>2 DEF Card
    <2> QED
      BY <1>2, <1>3, <1>8, <2>1, <2>3 DEF P!appendWorkLog
  <1>9. CASE P!listDependents(i)
    <2>1. {d \in Dependents[t] : task[d].status \in {"backlog", "ready"}} \subseteq {1, 2}
      BY <1>2, MessageTypes
    <2>2. OfHandler
      BY <1>2, <1>9, <2>1 DEF P!listDependents, Working, Handling
    <2> QED
      BY <1>2, <1>3, <1>9, <2>2 DEF P!listDependents
  <1>10. CASE P!readDependent(i)
    <2>1. CASE proc[i].left = {}
      BY <1>2, <1>3, <1>4, <1>10, <2>1 DEF P!readDependent, P!Finish
    <2>2. CASE proc[i].left # {}
      <3>1. PICK d \in proc[i].left : proc' = [proc EXCEPT ![i].pc = "block", ![i].seen = task[d], ![i].of = d]
        BY <1>10, <2>2 DEF P!readDependent
      <3>2. d \in {1, 2} /\ task[d] \in Card
        BY <1>2, <3>1
      <3>3. OfHandler
        BY <1>2, <3>1, <3>2 DEF Working, Handling
      <3> QED
        BY <1>2, <1>3, <1>10, <3>3 DEF P!readDependent
    <2> QED
      BY <2>1, <2>2
  <1>11. CASE P!blockDependent(i)
    <2>1. proc[i].of \in {1, 2} /\ proc[i].seen \in Card /\ Working(i)
      BY <1>2, <1>11 DEF P!blockDependent, Working, Handling
    <2>2. OfHandler
      <3>1. CASE P!Finish(i, TRUE)
        BY <3>1, <1>4 DEF P!Finish
      <3>2. CASE proc' = [proc EXCEPT ![i].pc = "cascade", ![i].left = @ \ {proc[i].of}]
        <4>1. proc'[i] = [proc[i] EXCEPT !.pc = "cascade", !.left = proc[i].left \ {proc[i].of}]
          BY <1>2, <3>2
        <4> QED
          BY <1>2, <2>1, <3>2, <4>1 DEF Working, Handling
      <3> QED
        BY <1>11, <3>1, <3>2 DEF P!blockDependent
    <2>3. Cards
      <3>1. CASE UNCHANGED dir /\ (UNCHANGED task \/ task' = [task EXCEPT ![proc[i].of] = proc[i].seen])
        BY <1>2, <2>1, <3>1
      <3>2. CASE P!Transition(proc[i].of, proc[i].seen, "blocked")
        <4>1. "blocked" \in P!Statuses
          BY DEF P!Statuses
        <4> QED
          BY <1>2, <2>1, <3>2, <4>1, CardMoves
      <3> QED
        BY <1>11, <3>1, <3>2 DEF P!blockDependent
    <2> QED
      BY <1>3, <2>2, <2>3
  <1>12. CASE P!handleHandoffRequest(i)
    <2>1. Working(i)
      BY <1>12 DEF P!handleHandoffRequest, Working, Handling
    <2>2. OfHandler
      BY <1>4, <1>5, <1>12, <2>1 DEF P!handleHandoffRequest, P!Finish, Handling
    <2> QED
      BY <1>2, <1>3, <1>12, <2>2 DEF P!handleHandoffRequest
  <1>13. CASE P!saveChild(i)
    <2>1. Working(i)
      BY <1>13 DEF P!saveChild, Working, Handling
    <2>2. OfHandler
      BY <1>5, <1>13, <2>1 DEF P!saveChild, Handling
    <2>3. [proc[i].seen EXCEPT !.depth = 1, !.agent = P!Msg(i).to] \in Card
      BY <1>2, <2>1, MessageIs DEF Card, PTypes
    <2> QED
      BY <1>2, <1>3, <1>13, <2>2, <2>3 DEF P!saveChild
  <1>14. CASE P!writeHandoffArtifacts(i)
    <2>1. Working(i)
      BY <1>14 DEF P!writeHandoffArtifacts, Working, Handling
    <2>2. OfHandler
      BY <1>4, <1>14 DEF P!writeHandoffArtifacts, P!Finish
    <2>3. P!Msg(i).to \in Names /\ proc[i].seen.status \in P!Statuses
      BY <1>2, <2>1, MessageIs DEF Card, PTypes
    <2>4. dir' = [dir EXCEPT ![t][proc[i].seen.status] = P!Msg(i).to] /\ task' = task
      BY <1>14 DEF P!writeHandoffArtifacts
    <2> QED
      BY <1>2, <1>3, <2>2, <2>3, <2>4
  <1>15. CASE P!handleHandoffAck(i)
    <2>1. OfHandler
      BY <1>4, <1>15 DEF P!handleHandoffAck, P!Finish
    <2>2. Cards
      <3>1. CASE UNCHANGED <<task, dir>>
        BY <1>2, <3>1
      <3>2. CASE P!Transition(t, task[t], "blocked")
        <4>1. "blocked" \in P!Statuses
          BY DEF P!Statuses
        <4> QED
          BY <1>2, <3>2, <4>1, CardMoves
      <3> QED
        BY <1>15, <3>1, <3>2 DEF P!handleHandoffAck
    <2> QED
      BY <1>3, <2>1, <2>2
  <1> QED
    BY <1>6, <1>7, <1>8, <1>9, <1>10, <1>11, <1>12, <1>13, <1>14, <1>15 DEF P!Handler

(* When nobody works around the lock, a handler works on its own task: it adds  *)
(* to the work log only, and what it holds of the log is what is there.         *)
OwnTask(i) ==
    /\ \A u \in {1, 2} \ {P!Target(i)} : task'[u] = task[u] /\ dir'[u] = dir[u]
    /\ task[P!Target(i)].log \subseteq task'[P!Target(i)].log
    /\ proc'[i].pc \notin {"list", "cascade", "block"}
    /\ proc'[i].logged => proc'[i].pc = "done" /\ i \in task'[P!Target(i)].log
    /\ Working(i)' => proc'[i].seen.log = task'[P!Target(i)].log
(* And it holds the card itself.                                                *)
OwnCard(i) ==
    /\ Working(i)' =>
          IF proc'[i].pc = "artifact"
            THEN task'[P!Target(i)].agent = P!Msg(i).to /\ proc'[i].seen.status = task'[P!Target(i)].status
            ELSE proc'[i].seen = task'[P!Target(i)]
    /\ \A s \in P!Statuses : s # task'[P!Target(i)].status => dir'[P!Target(i)][s] = None
    /\ \/ dir'[P!Target(i)][task'[P!Target(i)].status] \in {None, "empty", task'[P!Target(i)].agent}
       \/ proc'[i].pc = "artifact"

LEMMA HandlerCard ==
    ASSUME PInv, NEW i \in P!Messages, P!Handler(i), P!Alone
    PROVE  OwnTask(i) /\ (P!Alone => OwnCard(i))
  <1> DEFINE t == P!Target(i)
             Proc == [pc : Handling \cup {"new", "waiting", "done"}, seen : Card \cup {None},
                      left : SUBSET {1, 2}, of : {None, 1, 2}, logged : BOOLEAN]
  <1>1. /\ task \in [{1, 2} -> Card] /\ dir \in [{1, 2} -> [P!Statuses -> Names \cup {"empty"}]]
        /\ proc \in [P!Messages -> Proc] /\ t \in {1, 2} /\ proc[i] \in Proc /\ task[t] \in Card
        /\ task[t].status \in P!Statuses
    BY MessageIs DEF PInv, PTypes, Card
  <1>2. Working(i) => proc[i].seen \in Card /\ proc[i].seen.status \in P!Statuses
    BY DEF PInv, PTypes, Card
  <1>3. /\ proc[i].pc \notin {"list", "cascade", "block"}
        /\ proc[i].logged => proc[i].pc = "done"
        /\ Working(i) => proc[i].seen.log = task[t].log
    BY DEF PInv, PLog, P!Alone, P!Overwritten, Holding, Working, Handling
  <1>4. P!Alone =>
          /\ Working(i) =>
                IF proc[i].pc = "artifact"
                  THEN task[t].agent = P!Msg(i).to /\ proc[i].seen.status = task[t].status
                  ELSE proc[i].seen = task[t]
          /\ \A s \in P!Statuses : s # task[t].status => dir[t][s] = None
          /\ dir[t][task[t].status] \in {None, "empty", task[t].agent} \/ proc[i].pc = "artifact"
    <2> SUFFICES ASSUME P!Alone PROVE
          /\ Working(i) =>
                IF proc[i].pc = "artifact"
                  THEN task[t].agent = P!Msg(i).to /\ proc[i].seen.status = task[t].status
                  ELSE proc[i].seen = task[t]
          /\ \A s \in P!Statuses : s # task[t].status => dir[t][s] = None
          /\ dir[t][task[t].status] \in {None, "empty", task[t].agent} \/ proc[i].pc = "artifact"
      OBVIOUS
    <2>1. ASSUME NEW j \in P!Messages, proc[j].pc = "artifact", P!Target(j) = t PROVE j = i
      <3>1. Working(j) /\ queue[t][1] = j
        BY <2>1 DEF PInv, PTurns, Working, Handling
      <3>2. queue[t][1] = i
        BY FirstTurn DEF PInv
      <3> QED
        BY <3>1, <3>2
    <2> QED
      BY <1>1, <2>1 DEF PInv, PHand
  <1> HIDE DEF t, Proc
  <1> USE DEF OwnTask, OwnCard
  <1>5. ASSUME UNCHANGED <<task, dir>>, proc'[i].pc = "done", proc'[i].logged = proc[i].logged, ~proc[i].logged
        PROVE  OwnTask(i) /\ (P!Alone /\ proc[i].pc # "artifact" => OwnCard(i))
    BY <1>1, <1>4, <1>5 DEF t, Working, Handling
  <1>6. ASSUME Working(i) PROVE ~proc[i].logged
    BY <1>3, <1>6 DEF Working, Handling
  <1>7. ASSUME NEW next, P!Goto(i, next)
        PROVE  proc'[i].pc = next /\ proc'[i].seen = proc[i].seen /\ proc'[i].logged = proc[i].logged
    BY <1>1, <1>7 DEF P!Goto, Proc
  <1>8. ASSUME NEW to \in P!Statuses, to # task[t].status, P!Transition(t, task[t], to), proc'[i].pc = "done",
               proc'[i].logged = proc[i].logged, ~proc[i].logged, P!Alone => proc[i].pc # "artifact"
        PROVE  OwnTask(i) /\ (P!Alone => OwnCard(i))
    <2>1. /\ task'[t].status = to /\ task'[t].log = task[t].log /\ task'[t].agent = task[t].agent
          /\ \A u \in {1, 2} \ {t} : task'[u] = task[u] /\ dir'[u] = dir[u]
          /\ (\A s \in P!Statuses : s # task[t].status => dir[t][s] = None) =>
                 /\ \A s \in P!Statuses : s # to => dir'[t][s] = None
                 /\ dir'[t][to] = dir[t][task[t].status]
      BY <1>1, <1>8, CardMoves
    <2> QED
      BY <2>1, <1>4, <1>8 DEF t, Working, Handling
  <1>9. CASE P!begin(i)
    <2>1. proc'[i].pc = "read" /\ proc'[i].seen = task[t] /\ proc'[i].logged = proc[i].logged
          /\ proc[i].pc = "waiting" /\ UNCHANGED <<task, dir>>
      BY <1>1, <1>9 DEF P!begin, Proc, t
    <2> QED
      BY <2>1, <1>3, <1>4 DEF t, Working, Handling
  <1>10. CASE P!handleStatusUpdate(i)
    <2>1. Working(i) /\ proc[i].pc = "read"
      BY <1>10 DEF P!handleStatusUpdate, Working, Handling
    <2>2. CASE UNCHANGED <<task, dir>> /\ P!Goto(i, "append")
      BY <2>1, <2>2, <1>3, <1>4, <1>6, <1>7 DEF t, Working, Handling
    <2>3. CASE UNCHANGED <<task, dir>> /\ P!Goto(i, "done")
      BY <2>1, <2>3, <1>5, <1>6, <1>7
    <2>4. CASE /\ P!Transition(t, task[t], P!Msg(i).status) /\ P!Goto(i, "done")
               /\ P!Msg(i).status \notin {None, task[t].status}
      <3>1. P!Msg(i).status \in P!Statuses
        BY <2>4, MessageIs DEF PInv, PTypes
      <3> QED
        BY <2>1, <2>4, <3>1, <1>6, <1>7, <1>8
    <2> QED
      BY <1>10, <2>2, <2>3, <2>4 DEF P!handleStatusUpdate, P!Finish, P!Alone, t
  <1>11. CASE P!appendWorkLog(i)
    <2>1. Working(i) /\ proc[i].pc = "append"
      BY <1>11 DEF P!appendWorkLog, Working, Handling
    <2>2. proc'[i].pc = "done" /\ UNCHANGED dir
      BY <1>1, <1>11 DEF P!appendWorkLog, Proc
    <2>3. /\ task' = [task EXCEPT ![t].log = proc[i].seen.log \cup {i}]
      BY <1>11 DEF P!appendWorkLog, t
    <2>4. /\ task'[t].log = task[t].log \cup {i} /\ task'[t].status = task[t].status
          /\ task'[t].agent = task[t].agent /\ \A u \in {1, 2} \ {t} : task'[u] = task[u]
      BY <2>1, <2>3, <1>1, <1>3 DEF Card
    <2> QED
      BY <2>1, <2>2, <2>4, <1>4 DEF t, Working, Handling
  <1>12. CASE P!handleHandoffRequest(i)
    <2>1. Working(i) /\ proc[i].pc = "read" /\ UNCHANGED <<task, dir>>
      BY <1>12 DEF P!handleHandoffRequest, Working, Handling
    <2>2. CASE P!Goto(i, "save")
      BY <2>1, <2>2, <1>3, <1>4, <1>6, <1>7 DEF t, Working, Handling
    <2>3. CASE P!Goto(i, "done")
      BY <2>1, <2>3, <1>5, <1>6, <1>7
    <2> QED
      BY <1>12, <2>2, <2>3 DEF P!handleHandoffRequest, P!Finish
  <1>13. CASE P!saveChild(i)
    <2>1. Working(i) /\ proc[i].pc = "save" /\ P!Goto(i, "artifact") /\ UNCHANGED dir
      BY <1>13 DEF P!saveChild, Working, Handling
    <2>2. task' = [task EXCEPT ![t] = [proc[i].seen EXCEPT !.depth = 1, !.agent = P!Msg(i).to]]
      BY <1>13 DEF P!saveChild, t
    <2>3. /\ task'[t].log = proc[i].seen.log /\ task'[t].status = proc[i].seen.status
          /\ task'[t].agent = P!Msg(i).to /\ \A u \in {1, 2} \ {t} : task'[u] = task[u]
      BY <2>1, <2>2, <1>1, <1>2 DEF Card
    <2> QED
      BY <2>1, <2>3, <1>3, <1>4, <1>6, <1>7 DEF t, Working, Handling
  <1>14. CASE P!writeHandoffArtifacts(i)
    <2>1. Working(i) /\ proc[i].pc = "artifact" /\ P!Goto(i, "done") /\ UNCHANGED task
      BY <1>14 DEF P!writeHandoffArtifacts, P!Finish, Working, Handling
    <2>2. dir' = [dir EXCEPT ![t][proc[i].seen.status] = P!Msg(i).to]
      BY <1>14 DEF P!writeHandoffArtifacts, t
    <2>3. /\ dir'[t][proc[i].seen.status] = P!Msg(i).to
          /\ \A s \in P!Statuses : s # proc[i].seen.status => dir'[t][s] = dir[t][s]
          /\ \A u \in {1, 2} \ {t} : dir'[u] = dir[u]
      BY <2>1, <2>2, <1>1, <1>2
    <2> QED
      BY <2>1, <2>3, <1>1, <1>3, <1>4, <1>6, <1>7 DEF t, Working, Handling
  <1>15. CASE P!handleHandoffAck(i)
    <2>1. Working(i) /\ proc[i].pc = "read" /\ P!Goto(i, "done")
      BY <1>15 DEF P!handleHandoffAck, P!Finish, Working, Handling
    <2>2. CASE UNCHANGED <<task, dir>>
      BY <2>1, <2>2, <1>5, <1>6, <1>7
    <2>3. CASE P!Transition(t, task[t], "blocked") /\ task[t].status # "blocked"
      <3>1. "blocked" \in P!Statuses
        BY DEF P!Statuses
      <3> QED
        BY <2>1, <2>3, <3>1, <1>6, <1>7, <1>8
    <2> QED
      BY <1>15, <2>2, <2>3 DEF P!handleHandoffAck, t
  <1>16. ~P!listDependents(i) /\ ~P!readDependent(i) /\ ~P!blockDependent(i)
    BY <1>3 DEF P!listDependents, P!readDependent, P!blockDependent
  <1> QED
    BY <1>9, <1>10, <1>11, <1>12, <1>13, <1>14, <1>15, <1>16 DEF P!Handler

(* Of the logs of tasks that nobody writes back, a handler adds to its own; it  *)
(* blocks dependents only.                                                      *)
OwnLog(i) ==
    /\ \A u \in {1, 2} : ~P!Overwritten(u) => task[u].log \subseteq task'[u].log
    /\ \A u \in {1, 2} \ {P!Target(i)} : ~P!Overwritten(u) => task'[u].log = task[u].log
    /\ proc'[i].pc \in {"list", "cascade", "block"} => setup.cascade
    /\ proc'[i].left \subseteq Dependents[P!Target(i)]
    /\ proc'[i].pc = "block" => proc'[i].of \in Dependents[P!Target(i)]
    /\ proc'[i].logged => proc'[i].pc = "done" /\ (~P!Overwritten(P!Target(i)) => i \in task'[P!Target(i)].log)
    /\ Holding(i)' /\ ~P!Overwritten(P!Target(i)) => proc'[i].seen.log = task'[P!Target(i)].log

LEMMA HandlerLog ==
    ASSUME PInv, NEW i \in P!Messages, P!Handler(i)
    PROVE  OwnLog(i)
  <1> DEFINE t == P!Target(i)
             Proc == [pc : Handling \cup {"new", "waiting", "done"}, seen : Card \cup {None},
                      left : SUBSET {1, 2}, of : {None, 1, 2}, logged : BOOLEAN]
  <1>1. /\ task \in [{1, 2} -> Card] /\ dir \in [{1, 2} -> [P!Statuses -> Names \cup {"empty"}]]
        /\ proc \in [P!Messages -> Proc] /\ t \in {1, 2} /\ proc[i] \in Proc /\ task[t] \in Card
    BY MessageIs DEF PInv, PTypes
  <1>2. Working(i) => proc[i].seen \in Card /\ proc[i].seen.status \in P!Statuses
    BY DEF PInv, PTypes, Card
  <1>3. /\ proc[i].pc \in {"list", "cascade", "block"} => setup.cascade
        /\ proc[i].left \subseteq Dependents[t] /\ Dependents[t] \subseteq {1, 2}
        /\ proc[i].pc = "block" => proc[i].of \in Dependents[t]
        /\ proc[i].pc # "done" => ~proc[i].logged
        /\ Holding(i) /\ ~P!Overwritten(t) => proc[i].seen.log = task[t].log
    BY <1>1, MessageTypes DEF PInv, PLog
  <1>4. ASSUME NEW d \in Dependents[t], setup.cascade PROVE P!Overwritten(d)
    BY <1>1, <1>4 DEF P!Overwritten
  <1> HIDE DEF t, Proc
  <1> USE DEF OwnLog
  <1>5. ASSUME NEW next, P!Goto(i, next)
        PROVE  /\ proc'[i].pc = next /\ proc'[i].seen = proc[i].seen /\ proc'[i].logged = proc[i].logged
               /\ proc'[i].left = proc[i].left
    BY <1>1, <1>5 DEF P!Goto, Proc
  <1>6. ASSUME NEW next \in {"append", "save", "list", "done"}, P!Goto(i, next), proc[i].pc \notin {"done", "artifact"},
               next \in {"append", "save"} => Holding(i), next = "list" => setup.cascade,
               \A u \in {1, 2} : task'[u].log = task[u].log
        PROVE  OwnLog(i)
    BY <1>1, <1>3, <1>5, <1>6 DEF t, Holding
  <1>7. ASSUME NEW to \in P!Statuses, P!Transition(t, task[t], to)
        PROVE  \A u \in {1, 2} : task'[u].log = task[u].log
    BY <1>1, <1>7, CardMoves
  <1>8. CASE P!begin(i)
    <2>1. /\ proc'[i].pc = "read" /\ proc'[i].seen = task[t] /\ proc'[i].logged = proc[i].logged
          /\ proc'[i].left = proc[i].left /\ proc[i].pc = "waiting" /\ task' = task
      BY <1>1, <1>8 DEF P!begin, Proc, t
    <2> QED
      BY <2>1, <1>3 DEF t, Holding
  <1>9. CASE P!handleStatusUpdate(i)
    <2>1. proc[i].pc = "read" /\ Holding(i)
      BY <1>9 DEF P!handleStatusUpdate, Holding
    <2>2. \A u \in {1, 2} : task'[u].log = task[u].log
      <3>1. CASE task' = task
        BY <3>1
      <3>2. CASE P!Transition(t, task[t], P!Msg(i).status) /\ P!Msg(i).status # None
        BY <3>2, <1>7, MessageIs DEF PInv, PTypes
      <3> QED
        BY <1>9, <3>1, <3>2 DEF P!handleStatusUpdate, t
    <2>3. \/ P!Goto(i, "append") \/ P!Goto(i, "done")
          \/ P!Goto(i, "list") /\ setup.cascade
      BY <1>9 DEF P!handleStatusUpdate, P!Finish
    <2> QED
      BY <2>1, <2>2, <2>3, <1>6
  <1>10. CASE P!appendWorkLog(i)
    <2>1. proc[i].pc = "append" /\ Holding(i)
      BY <1>10 DEF P!appendWorkLog, Holding
    <2>2. proc'[i].pc = "done" /\ proc'[i].left = proc[i].left
      BY <1>1, <1>10 DEF P!appendWorkLog, Proc
    <2>3. task' = [task EXCEPT ![t].log = proc[i].seen.log \cup {i}]
      BY <1>10 DEF P!appendWorkLog, t
    <2>4. task'[t].log = proc[i].seen.log \cup {i} /\ \A u \in {1, 2} \ {t} : task'[u] = task[u]
      BY <2>3, <1>1 DEF Card
    <2> QED
      BY <2>1, <2>2, <2>4, <1>3 DEF t, Holding
  <1>11. CASE P!listDependents(i)
    <2>1. /\ proc[i].pc = "list" /\ proc'[i].pc = "cascade" /\ task' = task /\ proc'[i].logged = proc[i].logged
          /\ proc'[i].left = {d \in Dependents[t] : task[d].status \in {"backlog", "ready"}}
      BY <1>1, <1>11 DEF P!listDependents, Proc, t
    <2> QED
      BY <2>1, <1>3 DEF t, Holding
  <1>12. CASE P!readDependent(i)
    <2>1. proc[i].pc = "cascade" /\ task' = task
      BY <1>12 DEF P!readDependent
    <2>2. CASE proc[i].left = {}
      BY <2>1, <2>2, <1>6, <1>12 DEF P!readDependent, P!Finish
    <2>3. CASE proc[i].left # {}
      <3>1. PICK d \in proc[i].left : proc' = [proc EXCEPT ![i].pc = "block", ![i].seen = task[d], ![i].of = d]
        BY <1>12, <2>3 DEF P!readDependent
      <3>2. /\ proc'[i].pc = "block" /\ proc'[i].of = d /\ proc'[i].left = proc[i].left
            /\ proc'[i].logged = proc[i].logged
        BY <3>1, <1>1 DEF Proc
      <3> QED
        BY <2>1, <3>1, <3>2, <1>3 DEF t, Holding
    <2> QED
      BY <2>2, <2>3
  <1>13. CASE P!blockDependent(i)
    <2> DEFINE d == proc[i].of
    <2>1. proc[i].pc = "block" /\ d \in Dependents[t] /\ d \in {1, 2} /\ P!Overwritten(d) /\ proc[i].seen \in Card
          /\ setup.cascade
      BY <1>13, <1>1, <1>2, <1>3, <1>4 DEF P!blockDependent, Working, Handling
    <2> HIDE DEF d
    <2>2. \A u \in {1, 2} \ {d} : task'[u] = task[u]
      <3>1. CASE task' = task
        BY <3>1
      <3>2. CASE task' = [task EXCEPT ![d] = proc[i].seen]
        BY <3>2, <1>1
      <3>3. CASE P!Transition(d, proc[i].seen, "blocked")
        <4>1. "blocked" \in P!Statuses
          BY DEF P!Statuses
        <4> QED
          BY <2>1, <3>3, <4>1, <1>1, CardMoves
      <3> QED
        BY <1>13, <3>1, <3>2, <3>3 DEF P!blockDependent, d
    <2>3. /\ proc'[i].pc \in {"done", "cascade"} /\ proc'[i].logged = proc[i].logged
          /\ proc'[i].left \subseteq proc[i].left
      <3>1. CASE P!Goto(i, "done")
        BY <3>1, <1>5
      <3>2. CASE proc' = [proc EXCEPT ![i].pc = "cascade", ![i].left = @ \ {d}]
        <4>1. proc'[i] = [proc[i] EXCEPT !.pc = "cascade", !.left = proc[i].left \ {d}]
          BY <1>1, <3>2
        <4> QED
          BY <1>1, <4>1 DEF Proc
      <3> QED
        BY <1>13, <3>1, <3>2 DEF P!blockDependent, P!Finish, d
    <2> QED
      BY <2>1, <2>2, <2>3, <1>3 DEF t, Holding
  <1>14. CASE P!handleHandoffRequest(i)
    <2>1. proc[i].pc = "read" /\ Holding(i) /\ task' = task
      BY <1>14 DEF P!handleHandoffRequest, Holding
    <2>2. P!Goto(i, "save") \/ P!Goto(i, "done")
      BY <1>14 DEF P!handleHandoffRequest, P!Finish
    <2> QED
      BY <2>1, <2>2, <1>6
  <1>15. CASE P!saveChild(i)
    <2>1. proc[i].pc = "save" /\ P!Goto(i, "artifact") /\ Holding(i) /\ proc[i].seen \in Card
      BY <1>15, <1>2 DEF P!saveChild, Holding, Working, Handling
    <2>2. task' = [task EXCEPT ![t] = [proc[i].seen EXCEPT !.depth = 1, !.agent = P!Msg(i).to]]
      BY <1>15 DEF P!saveChild, t
    <2>3. task'[t].log = proc[i].seen.log /\ \A u \in {1, 2} \ {t} : task'[u] = task[u]
      BY <2>1, <2>2, <1>1 DEF Card
    <2> QED
      BY <2>1, <2>3, <1>1, <1>3, <1>5 DEF t, Holding
  <1>16. CASE P!writeHandoffArtifacts(i)
    <2>1. proc[i].pc = "artifact" /\ P!Goto(i, "done") /\ task' = task
      BY <1>16 DEF P!writeHandoffArtifacts, P!Finish
    <2> QED
      BY <2>1, <1>3, <1>5 DEF t, Holding
  <1>17. CASE P!handleHandoffAck(i)
    <2>1. proc[i].pc = "read" /\ P!Goto(i, "done")
      BY <1>17 DEF P!handleHandoffAck, P!Finish
    <2>2. \A u \in {1, 2} : task'[u].log = task[u].log
      <3>1. CASE task' = task
        BY <3>1
      <3>2. CASE P!Transition(t, task[t], "blocked")
        <4>1. "blocked" \in P!Statuses
          BY DEF P!Statuses
        <4> QED
          BY <3>2, <4>1, <1>7
      <3> QED
        BY <1>17, <3>1, <3>2 DEF P!handleHandoffAck, t
    <2> QED
      BY <2>1, <2>2, <1>6
  <1> QED
    BY <1>8, <1>9, <1>10, <1>11, <1>12, <1>13, <1>14, <1>15, <1>16, <1>17 DEF P!Handler

LEMMA MessageHandling ==
    ASSUME PInv, NEW i \in P!Messages, P!Handler(i)
    PROVE  PInv'
  <1> DEFINE t == P!Target(i)
  <1>1. /\ setup' = setup /\ moves' = moves /\ P!Messages' = P!Messages
        /\ \A j : P!Target(j)' = P!Target(j) /\ P!Msg(j)' = P!Msg(j)
        /\ \A u : P!Overwritten(u)' = P!Overwritten(u)
        /\ \A j \in P!Messages \ {i} : proc'[j] = proc[j]
        /\ \A j \in P!Messages : P!Target(j) \in {1, 2}
    BY HandlerTurn, MessageIs DEF PInv, PTypes, P!Messages, P!Target, P!Msg, P!Overwritten
  <1>2. PTypes' /\ PTurns'
    BY MessageTyped, TurnsKept DEF PInv
  <1>3. \A j \in P!Messages \ {i} : Working(j)' => Working(j) /\ P!Target(j) # t
    BY <1>1, FirstTurn DEF PInv, PTurns, Working
  <1>4. \A j \in P!Messages \ {i} : proc[j].pc = "artifact" => P!Target(j) # t
    BY <1>1, <1>3 DEF Working, Handling
  <1>5. OwnLog(i) /\ (P!Alone => OwnTask(i) /\ OwnCard(i))
    BY HandlerLog, HandlerCard
  <1>6. PLog'
    <2> SUFFICES ASSUME NEW j \in P!Messages
                 PROVE  /\ proc'[j].pc \in {"list", "cascade", "block"} => setup.cascade
                        /\ proc'[j].left \subseteq Dependents[P!Target(j)]
                        /\ proc'[j].pc = "block" => proc'[j].of \in Dependents[P!Target(j)]
                        /\ proc'[j].logged =>
                              proc'[j].pc = "done" /\ (~P!Overwritten(P!Target(j)) => j \in task'[P!Target(j)].log)
                        /\ Holding(j)' /\ ~P!Overwritten(P!Target(j)) => proc'[j].seen.log = task'[P!Target(j)].log
      BY <1>1 DEF PLog
    <2>1. CASE j = i
      BY <2>1, <1>5 DEF OwnLog
    <2>2. CASE j # i
      <3>1. proc'[j] = proc[j] /\ P!Target(j) \in {1, 2}
        BY <2>2, <1>1
      <3>2. Holding(j)' => Holding(j) /\ P!Target(j) # t
        BY <2>2, <3>1, <1>3 DEF Holding, Working, Handling
      <3>3. proc[j].logged /\ ~P!Overwritten(P!Target(j)) => j \in task'[P!Target(j)].log
        BY <3>1, <1>5 DEF OwnLog, PInv, PLog
      <3>4. Holding(j)' /\ ~P!Overwritten(P!Target(j)) => proc'[j].seen.log = task'[P!Target(j)].log
        BY <3>1, <3>2, <1>5 DEF OwnLog, PInv, PLog
      <3> QED
        BY <3>1, <3>3, <3>4 DEF PInv, PLog
    <2> QED
      BY <2>1, <2>2
  <1>7. PHand'
    <2> SUFFICES ASSUME P!Alone PROVE PHand'
      BY <1>1 DEF PHand, P!Alone
    <2>1. OwnTask(i) /\ OwnCard(i) /\ PHand
      BY <1>5 DEF PInv
    <2>2. ASSUME NEW j \in P!Messages, Working(j)'
          PROVE  IF proc'[j].pc = "artifact"
                   THEN task'[P!Target(j)].agent = P!Msg(j).to /\ proc'[j].seen.status = task'[P!Target(j)].status
                   ELSE proc'[j].seen = task'[P!Target(j)]
      <3>1. CASE j = i
        BY <2>1, <2>2, <3>1 DEF OwnCard
      <3>2. CASE j # i
        BY <2>1, <2>2, <3>2, <1>1, <1>3 DEF OwnTask, PHand, t
      <3> QED
        BY <3>1, <3>2
    <2>3. ASSUME NEW u \in {1, 2}, NEW s \in P!Statuses, s # task'[u].status PROVE dir'[u][s] = None
      BY <2>1, <2>3 DEF OwnTask, OwnCard, PHand
    <2>4. ASSUME NEW u \in {1, 2}
          PROVE  \/ dir'[u][task'[u].status] \in {None, "empty", task'[u].agent}
                 \/ \E j \in P!Messages : proc'[j].pc = "artifact" /\ P!Target(j) = u
      <3>1. CASE u = t
        BY <2>1, <3>1 DEF OwnCard
      <3>2. CASE u # t
        BY <2>1, <3>2, <1>1 DEF OwnTask, PHand, t
      <3> QED
        BY <3>1, <3>2
    <2> QED
      BY <2>2, <2>3, <2>4, <1>1 DEF PHand
  <1>8. PMove'
    <2>1. queue[t] # <<>>
      BY FirstTurn DEF PInv
    <2> QED
      BY <2>1, <1>1 DEF PInv, PMove
  <1> QED
    BY <1>2, <1>6, <1>7, <1>8 DEF PInv

(* A message that arrives waits behind the others.                              *)
LEMMA MessageRouted ==
    ASSUME PInv, NEW i \in P!Messages, P!route(i)
    PROVE  PInv'
  <1> DEFINE t == P!Target(i)
  <1>1. /\ proc[i].pc = "new" /\ setup' = setup /\ task' = task /\ dir' = dir /\ moves' = moves
        /\ proc' = [proc EXCEPT ![i].pc = "waiting", ![i].seen = task[t]]
        /\ queue' = [queue EXCEPT ![t] = Append(queue[t], i)]
    BY DEF P!route
  <1>2. /\ t \in {1, 2} /\ queue \in [{1, 2} -> Seq(P!Messages)] /\ queue[t] \in Seq(P!Messages)
        /\ task[t] \in Card /\ \A j \in P!Messages : P!Target(j) \in {1, 2}
        /\ proc \in [P!Messages -> [pc : Handling \cup {"new", "waiting", "done"}, seen : Card \cup {None},
                                left : SUBSET {1, 2}, of : {None, 1, 2}, logged : BOOLEAN]]
    BY MessageIs DEF PInv, PTypes
  <1>3. /\ P!Messages' = P!Messages /\ \A j : P!Target(j)' = P!Target(j) /\ P!Msg(j)' = P!Msg(j)
    BY <1>1 DEF P!Messages, P!Target, P!Msg
  <1> HIDE DEF t
  <1>4. /\ proc' \in [P!Messages -> [pc : Handling \cup {"new", "waiting", "done"}, seen : Card \cup {None},
                                left : SUBSET {1, 2}, of : {None, 1, 2}, logged : BOOLEAN]]
        /\ proc'[i].pc = "waiting" /\ proc'[i].logged = proc[i].logged
        /\ \A j \in P!Messages \ {i} : proc'[j] = proc[j]
    <2> DEFINE Proc == [pc : Handling \cup {"new", "waiting", "done"}, seen : Card \cup {None},
                        left : SUBSET {1, 2}, of : {None, 1, 2}, logged : BOOLEAN]
               new == [proc[i] EXCEPT !.pc = "waiting", !.seen = task[t]]
    <2>1. proc[i] \in Proc
      BY <1>2
    <2>2. new \in Proc /\ new.pc = "waiting" /\ new.logged = proc[i].logged
      BY <2>1, <1>2
    <2>3. proc' = [proc EXCEPT ![i] = new]
      BY <1>1, <1>2
    <2> HIDE DEF Proc, new
    <2>4. proc \in [P!Messages -> Proc]
      BY <1>2 DEF Proc
    <2>5. proc' \in [P!Messages -> Proc] /\ proc'[i] = new /\ \A j \in P!Messages \ {i} : proc'[j] = proc[j]
      BY <2>2, <2>3, <2>4
    <2> QED
      BY <2>2, <2>5 DEF Proc
  <1>5. /\ queue' \in [{1, 2} -> Seq(P!Messages)] /\ queue'[t] = Append(queue[t], i)
        /\ \A u \in {1, 2} \ {t} : queue'[u] = queue[u]
    BY <1>1, <1>2
  <1>6. /\ Len(queue[t]) \in Nat /\ DOMAIN queue[t] = 1..Len(queue[t]) /\ DOMAIN queue'[t] = 1..(Len(queue[t]) + 1)
        /\ \A a \in 1..Len(queue[t]) : queue'[t][a] = queue[t][a]
        /\ queue'[t][Len(queue[t]) + 1] = i
    BY <1>2, <1>5
  <1>7. \A j \in P!Messages : Working(j)' => j # i /\ Working(j)
    BY <1>4 DEF Working, Handling
  <1>8. PTypes'
    BY <1>1, <1>3, <1>4, <1>5, <1>7 DEF PInv, PTypes, Working
  <1>9. PTurns'
    <2>1. \A u \in {1, 2} : \A a \in DOMAIN queue[u] : queue[u][a] # i /\ queue[u][a] \in P!Messages
      BY <1>1, <1>2 DEF PInv, PTurns
    <2>2. ASSUME NEW u \in {1, 2}, NEW a \in DOMAIN queue'[u], NEW b \in DOMAIN queue'[u], queue'[u][a] = queue'[u][b]
          PROVE  a = b
      <3>1. CASE u # t
        BY <3>1, <1>5, <2>2 DEF PInv, PTurns
      <3>2. CASE u = t
        <4>1. a \in 1..(Len(queue[t]) + 1) /\ b \in 1..(Len(queue[t]) + 1)
          BY <3>2, <1>6
        <4>2. CASE a \in 1..Len(queue[t]) /\ b \in 1..Len(queue[t])
          BY <4>2, <3>2, <2>2, <1>6 DEF PInv, PTurns
        <4>3. a = Len(queue[t]) + 1 <=> b = Len(queue[t]) + 1
          <5>1. \A c \in 1..Len(queue[t]) : queue'[t][c] # i
            BY <2>1, <1>6, <1>2
          <5> QED
            BY <4>1, <3>2, <2>2, <5>1, <1>6
        <4> QED
          BY <4>1, <4>2, <4>3, <1>6
      <3> QED
        BY <3>1, <3>2
    <2>3. ASSUME NEW u \in {1, 2}, NEW a \in DOMAIN queue'[u]
          PROVE  P!Target(queue'[u][a]) = u /\ proc'[queue'[u][a]].pc \notin {"new", "done"}
      <3>1. CASE u = t /\ a = Len(queue[t]) + 1
        BY <3>1, <1>4, <1>6 DEF t
      <3>2. CASE ~(u = t /\ a = Len(queue[t]) + 1)
        <4>1. a \in DOMAIN queue[u] /\ queue'[u][a] = queue[u][a]
          <5>1. CASE u # t
            BY <5>1, <1>5
          <5>2. CASE u = t
            BY <5>2, <3>2, <1>6
          <5> QED
            BY <5>1, <5>2
        <4> QED
          BY <4>1, <2>1, <1>4 DEF PInv, PTurns
      <3> QED
        BY <3>1, <3>2
    <2>4. ASSUME NEW j \in P!Messages, proc'[j].pc \notin {"new", "done"}
          PROVE  \E a \in DOMAIN queue'[P!Target(j)] : queue'[P!Target(j)][a] = j
      <3>1. CASE j = i
        BY <3>1, <1>6 DEF t
      <3>2. CASE j # i
        <4>1. PICK a \in DOMAIN queue[P!Target(j)] : queue[P!Target(j)][a] = j
          BY <3>2, <2>4, <1>4 DEF PInv, PTurns
        <4>2. a \in DOMAIN queue'[P!Target(j)] /\ queue'[P!Target(j)][a] = j
          <5>1. CASE P!Target(j) # t
            BY <5>1, <4>1, <1>2, <1>5
          <5>2. CASE P!Target(j) = t
            BY <5>2, <4>1, <1>6
          <5> QED
            BY <5>1, <5>2
        <4> QED
          BY <4>2
      <3> QED
        BY <3>1, <3>2
    <2>5. ASSUME NEW j \in P!Messages, Working(j)' PROVE queue'[P!Target(j)][1] = j
      <3>1. Working(j) /\ queue[P!Target(j)][1] = j
        BY <2>5, <1>7 DEF PInv, PTurns
      <3>2. PICK a \in DOMAIN queue[P!Target(j)] : queue[P!Target(j)][a] = j
        BY <3>1 DEF PInv, PTurns, Working, Handling
      <3>3. CASE P!Target(j) # t
        BY <3>1, <3>3, <1>2, <1>5
      <3>4. CASE P!Target(j) = t
        BY <3>1, <3>2, <3>4, <1>6
      <3> QED
        BY <3>3, <3>4
    <2> QED
      BY <2>2, <2>3, <2>4, <2>5, <1>3 DEF PTurns
  <1>10. PLog'
    <2>1. \A j \in P!Messages : proc'[j].left = proc[j].left /\ proc'[j].of = proc[j].of /\ proc'[j].logged = proc[j].logged
      BY <1>1, <1>2, <1>4
    <2>2. \A j \in P!Messages : Holding(j)' => Holding(j) /\ proc'[j] = proc[j]
      BY <1>4 DEF Holding
    <2> QED
      BY <1>1, <1>3, <1>4, <2>1, <2>2 DEF PInv, PLog, P!Overwritten
  <1>11. PHand'
    <2>1. \A j \in P!Messages : proc[j].pc = "artifact" => proc'[j].pc = "artifact"
      BY <1>1, <1>4
    <2>2. \A j \in P!Messages : Working(j)' => proc'[j] = proc[j] /\ Working(j)
      BY <1>4, <1>7
    <2> SUFFICES ASSUME P!Alone PROVE PHand'
      BY <1>1 DEF PHand, P!Alone
    <2>3. PHand
      BY DEF PInv
    <2>4. ASSUME NEW j \in P!Messages, Working(j)'
          PROVE  IF proc'[j].pc = "artifact"
                   THEN task'[P!Target(j)].agent = P!Msg(j).to /\ proc'[j].seen.status = task'[P!Target(j)].status
                   ELSE proc'[j].seen = task'[P!Target(j)]
      BY <1>1, <2>2, <2>3, <2>4 DEF PHand
    <2>5. ASSUME NEW u \in {1, 2}
          PROVE  \/ dir'[u][task'[u].status] \in {None, "empty", task'[u].agent}
                 \/ \E j \in P!Messages : proc'[j].pc = "artifact" /\ P!Target(j) = u
      BY <1>1, <2>1, <2>3 DEF PHand
    <2>6. \A u \in {1, 2}, s \in P!Statuses : s # task'[u].status => dir'[u][s] = None
      BY <1>1, <2>3 DEF PHand
    <2> QED
      BY <2>4, <2>5, <2>6, <1>3 DEF PHand
  <1>12. PMove'
    BY <1>1 DEF PMove, P!route
  <1> QED
    BY <1>8, <1>9, <1>10, <1>11, <1>12 DEF PInv

(* The scheduler moves cards; when it waits for the handlers nobody works.      *)
LEMMA CardScheduled ==
    ASSUME PInv, NEW t \in {1, 2}, NEW rec \in Card, NEW to \in P!Statuses, P!Transition(t, rec, to),
           rec = task[t], to # rec.status
    PROVE  /\ task' \in [{1, 2} -> Card] /\ dir' \in [{1, 2} -> [P!Statuses -> Names \cup {"empty"}]]
           /\ \A u \in {1, 2} : task'[u].log = task[u].log /\ task'[u].agent = task[u].agent
           /\ P!Alone =>
                 \A u \in {1, 2} : /\ \A s \in P!Statuses : s # task'[u].status => dir'[u][s] = None
                                   /\ dir'[u][task'[u].status] = dir[u][task[u].status]
  <1>1. /\ task \in [{1, 2} -> Card] /\ dir \in [{1, 2} -> [P!Statuses -> Names \cup {"empty"}]]
    BY DEF PInv, PTypes
  <1>2. /\ task' \in [{1, 2} -> Card] /\ dir' \in [{1, 2} -> [P!Statuses -> Names \cup {"empty"}]]
        /\ task'[t].status = to /\ task'[t].log = task[t].log /\ task'[t].agent = task[t].agent
        /\ \A u \in {1, 2} \ {t} : task'[u] = task[u] /\ dir'[u] = dir[u]
        /\ (\A s \in P!Statuses : s # task[t].status => dir[t][s] = None) =>
              /\ \A s \in P!Statuses : s # to => dir'[t][s] = None
              /\ dir'[t][to] = dir[t][task[t].status]
    BY <1>1, CardMoves
  <1>3. P!Alone => \A u \in {1, 2}, s \in P!Statuses : s # task[u].status => dir[u][s] = None
    BY DEF PInv, PHand
  <1> QED
    BY <1>2, <1>3

LEMMA MessageScheduled ==
    ASSUME PInv, P!Scheduler
    PROVE  PInv'
  <1> DEFINE Move == [left : Nat, pc : {"idle", "write", "move"}, of : {None, 1, 2}, seen : Card \cup {None}]
  <1>1. /\ task \in [{1, 2} -> Card] /\ dir \in [{1, 2} -> [P!Statuses -> Names \cup {"empty"}]] /\ moves \in Move
        /\ moves.pc # "idle" => moves.of \in {1, 2}
        /\ moves.pc = "write" => moves.seen \in Card
    BY DEF PInv, PTypes
  <1>2. UNCHANGED <<setup, queue, proc>> /\ P!Messages' = P!Messages
        /\ \A j : P!Target(j)' = P!Target(j) /\ P!Msg(j)' = P!Msg(j) /\ Working(j)' = Working(j) /\ Holding(j)' = Holding(j)
        /\ \A u : P!Overwritten(u)' = P!Overwritten(u)
    BY DEF P!Scheduler, P!acquireLease, P!writeBack, P!moveLeased, P!expireLeases, P!Messages, P!Target, P!Msg,
       Working, Holding, P!Overwritten
  <1>3. ~setup.race =>
          /\ \A u \in {1, 2} : queue[u] = <<>>
          /\ \A j \in P!Messages : proc[j].pc \in {"new", "done"}
    <2> SUFFICES ASSUME ~setup.race PROVE
          /\ \A u \in {1, 2} : queue[u] = <<>>
          /\ \A j \in P!Messages : proc[j].pc \in {"new", "done"}
      OBVIOUS
    <2>1. \A u \in {1, 2} : queue[u] = <<>>
      BY DEF P!Scheduler, P!acquireLease, P!writeBack, P!moveLeased, P!expireLeases, P!Turn, PInv, PMove
    <2>2. ASSUME NEW j \in P!Messages PROVE proc[j].pc \in {"new", "done"}
      BY <2>1, MessageIs DEF PInv, PTypes, PTurns
    <2> QED
      BY <2>1, <2>2
  <1>4. ASSUME task' \in [{1, 2} -> Card], dir' \in [{1, 2} -> [P!Statuses -> Names \cup {"empty"}]],
               moves' \in Move, moves'.pc # "idle" => moves'.of \in {1, 2}, moves'.pc = "write" => moves'.seen \in Card,
               ~setup.race => /\ moves'.pc = "write" => moves'.seen = task'[moves'.of]
                              /\ \A u \in {1, 2} : task'[u].log = task[u].log /\ task'[u].agent = task[u].agent,
               P!Alone =>
                 \A u \in {1, 2} : /\ \A s \in P!Statuses : s # task'[u].status => dir'[u][s] = None
                                   /\ dir'[u][task'[u].status] = dir[u][task[u].status]
        PROVE  PInv'
    <2>1. PTypes'
      BY <1>2, <1>4 DEF PInv, PTypes
    <2>2. PTurns'
      BY <1>2 DEF PInv, PTurns
    <2>3. PLog'
      BY <1>2, <1>4, MessageIs DEF PInv, PTypes, PLog, P!Overwritten
    <2>4. PHand'
      <3> SUFFICES ASSUME P!Alone PROVE PHand'
        BY <1>2 DEF PHand, P!Alone
      <3>1. \A j \in P!Messages : ~Working(j) /\ proc[j].pc # "artifact"
        BY <1>3 DEF P!Alone, Working, Handling
      <3>2. \A u \in {1, 2} : dir[u][task[u].status] \in {None, "empty", task[u].agent}
        BY <3>1 DEF PInv, PHand
      <3>3. \A u \in {1, 2} : dir'[u][task'[u].status] \in {None, "empty", task'[u].agent}
        BY <3>2, <1>4 DEF P!Alone
      <3> QED
        BY <3>1, <3>3, <1>2, <1>4 DEF PHand
    <2>5. PMove'
      BY <1>2, <1>3, <1>4 DEF PMove
    <2> QED
      BY <2>1, <2>2, <2>3, <2>4, <2>5 DEF PInv
  <1>5. "ready" \in P!Statuses /\ "in-progress" \in P!Statuses
    BY DEF P!Statuses
  <1>6. ASSUME NEW t \in {1, 2}, P!acquireLease(t) PROVE PInv'
    <2>1. /\ moves' = [left |-> moves.left - 1, pc |-> "write", of |-> t, seen |-> task[t]]
          /\ moves.left > 0 /\ UNCHANGED <<task, dir>>
      BY <1>6 DEF P!acquireLease, P!Turn
    <2>2. moves' \in Move /\ moves'.of = t /\ moves'.seen = task[t] /\ task[t] \in Card
      BY <2>1, <1>1
    <2>3. P!Alone => \A u \in {1, 2}, s \in P!Statuses : s # task[u].status => dir[u][s] = None
      BY DEF PInv, PHand
    <2> QED
      BY <2>1, <2>2, <2>3, <1>1, <1>4
  <1>7. CASE P!writeBack
    <2>1. /\ moves.pc = "write" /\ moves' = [moves EXCEPT !.pc = "move"] /\ UNCHANGED dir
          /\ task' = [task EXCEPT ![moves.of] = [moves.seen EXCEPT !.lease = moves.seen.agent]]
      BY <1>7 DEF P!writeBack
    <2>2. /\ [moves.seen EXCEPT !.lease = moves.seen.agent] \in Card
          /\ [moves.seen EXCEPT !.lease = moves.seen.agent].log = moves.seen.log
          /\ [moves.seen EXCEPT !.lease = moves.seen.agent].agent = moves.seen.agent
          /\ [moves.seen EXCEPT !.lease = moves.seen.agent].status = moves.seen.status
      BY <1>1, <2>1 DEF Card
    <2>3. task' \in [{1, 2} -> Card] /\ moves' \in Move /\ moves'.pc = "move" /\ moves'.of = moves.of
      BY <1>1, <2>1, <2>2
    <2>4. ~setup.race => \A u \in {1, 2} : /\ task'[u].log = task[u].log /\ task'[u].agent = task[u].agent
                                           /\ task'[u].status = task[u].status
      BY <1>1, <2>1, <2>2 DEF PInv, PMove
    <2>5. P!Alone => \A u \in {1, 2}, s \in P!Statuses : s # task[u].status => dir[u][s] = None
      BY DEF PInv, PHand
    <2> QED
      BY <1>1, <1>4, <2>1, <2>3, <2>4, <2>5 DEF P!Alone
  <1>8. CASE P!moveLeased
    <2>1. /\ moves.pc = "move" /\ moves' = [moves EXCEPT !.pc = "idle", !.of = None, !.seen = None]
          /\ \/ UNCHANGED <<task, dir>>
             \/ P!Transition(moves.of, task[moves.of], "in-progress")
                /\ P!isValidTransition(task[moves.of].status, "in-progress")
      BY <1>8 DEF P!moveLeased, P!Refused
    <2>2. moves' \in Move /\ moves'.pc = "idle"
      BY <1>1, <2>1
    <2>3. CASE UNCHANGED <<task, dir>>
      <3>1. P!Alone => \A u \in {1, 2}, s \in P!Statuses : s # task[u].status => dir[u][s] = None
        BY DEF PInv, PHand
      <3> QED
        BY <1>1, <1>4, <2>2, <2>3, <3>1
    <2>4. CASE P!Transition(moves.of, task[moves.of], "in-progress")
               /\ P!isValidTransition(task[moves.of].status, "in-progress")
      <3>1. moves.of \in {1, 2} /\ task[moves.of] \in Card /\ task[moves.of].status \in P!Statuses
        BY <1>1, <2>1 DEF Card
      <3>2. "in-progress" # task[moves.of].status
        BY <2>4, <3>1, NoLoop
      <3> QED
        BY <1>4, <1>5, <2>2, <2>4, <3>1, <3>2, CardScheduled
    <2> QED
      BY <2>1, <2>3, <2>4
  <1>9. ASSUME NEW t \in {1, 2}, P!expireLeases(t) PROVE PInv'
    <2>1. /\ moves' = [moves EXCEPT !.left = moves.left - 1] /\ moves.left > 0 /\ moves.pc = "idle"
          /\ P!Transition(t, task[t], "ready") /\ task[t].status = "in-progress" /\ task[t] \in Card
      BY <1>1, <1>9 DEF P!expireLeases, P!Turn
    <2>2. moves' \in Move /\ moves'.pc = "idle"
      BY <1>1, <2>1
    <2> QED
      BY <1>4, <1>5, <2>1, <2>2, CardScheduled
  <1> QED
    BY <1>6, <1>7, <1>8, <1>9 DEF P!Scheduler

LEMMA MessageStep == PInv /\ [P!Next]_(P!vars) => PInv'
  <1> SUFFICES ASSUME PInv, [P!Next]_(P!vars) PROVE PInv'
    OBVIOUS
  <1>1. CASE UNCHANGED P!vars
    BY <1>1 DEF P!vars, PInv, PTypes, PTurns, PLog, PHand, PMove, P!Alone,
       P!Overwritten, Working, Holding, P!Messages, P!Target, P!Msg
  <1>2. CASE P!Next
    BY <1>2, MessageRouted, MessageHandling, MessageScheduled DEF P!Next
  <1> QED
    BY <1>1, <1>2

LEMMA MessagesHold == PInv => P!WorkLogKept /\ P!HandoffAgrees /\ P!OneCompanion /\ P!MessageHandled
  <1> SUFFICES ASSUME PInv PROVE P!WorkLogKept /\ P!HandoffAgrees /\ P!OneCompanion /\ P!MessageHandled
    OBVIOUS
  <1>1. \A t \in {1, 2} : task[t].status \in P!Statuses /\ queue[t] \in Seq(P!Messages)
    BY DEF PInv, PTypes, Card
  <1>2. P!WorkLogKept
    BY DEF PInv, PLog, P!WorkLogKept
  <1>3. P!HandoffAgrees
    <2> SUFFICES ASSUME P!Alone, NEW t \in {1, 2}, queue[t] = <<>>
                 PROVE  dir[t][task[t].status] \in {None, "empty", task[t].agent}
      BY DEF P!HandoffAgrees
    <2>1. \A i \in P!Messages : P!Target(i) = t => proc[i].pc # "artifact"
      BY DEF PInv, PTurns
    <2> QED
      BY <2>1 DEF PInv, PHand
  <1>4. P!OneCompanion
    BY <1>1 DEF PInv, PHand, P!OneCompanion
  <1>5. P!MessageHandled
    BY <1>1 DEF PInv, PTurns, P!MessageHandled
  <1> QED
    BY <1>2, <1>3, <1>4, <1>5

(* Who rejects a handoff is the one it read as the holder, and that is still so. *)
LEMMA MessageAck == PInv /\ [P!Next]_(P!vars) => P!AckStep
  <1> SUFFICES ASSUME PInv, [P!Next]_(P!vars), P!Alone, NEW i \in P!Messages, NEW t \in {1, 2},
                      P!Msg(i).type = "handoff.rejected", P!Target(i) = t, proc[i].pc = "read",
                      proc'[i].pc = "done", task'[t].status # task[t].status
               PROVE  P!Msg(i).from = P!Holder(task[t])
    BY DEF P!AckStep
  <1>1. P!Next
    BY DEF P!vars
  <1>2. ~P!route(i) /\ \A j \in P!Messages : P!route(j) => j = i
    BY DEF P!route
  <1>3. ASSUME NEW j \in P!Messages, P!Handler(j) PROVE j = i
    BY <1>3, HandlerTurn DEF PInv
  <1>4. P!Handler(i)
    BY <1>1, <1>2, <1>3 DEF P!Next, P!Scheduler, P!acquireLease, P!writeBack, P!moveLeased, P!expireLeases
  <1>5. P!handleHandoffAck(i)
    BY <1>4 DEF P!Handler, P!begin, P!handleStatusUpdate, P!appendWorkLog, P!listDependents, P!readDependent,
       P!blockDependent, P!handleHandoffRequest, P!saveChild, P!writeHandoffArtifacts
  <1>6. P!checkAuthorization(i)
    BY <1>5 DEF P!handleHandoffAck
  <1>7. proc[i].seen = task[t]
    BY DEF PInv, PHand, Working, Handling
  <1> QED
    BY <1>6, <1>7 DEF P!checkAuthorization, P!resolveAuthorizedAgent, P!Holder

(* Whatever the messages, the dependents and the scheduler's moves: the handlers *)
(* of a task take turns and none is forgotten, notes stay in the work log unless *)
(* a task is written back without the lock, and with nobody around the lock the  *)
(* handoff file, the companion directory and the holder agree with the card      *)
(* (protocol/router.ts, task-lock.ts).                                           *)
THEOREM MessagesTakeTurns ==
    Spec => /\ [](part = "messages" =>
                     P!WorkLogKept /\ P!HandoffAgrees /\ P!OneCompanion /\ P!MessageHandled)
            /\ [][part = "messages" => P!AckStep]_vars
  <1> DEFINE Inv == part = "messages" => PInv
  <1>1. Init => Inv
    BY MessageInit DEF Init, MInit, NInit, BInit, TInit, CInit, IInit, PInit, WInit, VInit, RInit, KInit
  <1>2. Inv /\ [Next]_vars => Inv'
    BY OnePart, MessageStep
  <1>3. Inv => (part = "messages" => P!WorkLogKept /\ P!HandoffAgrees /\ P!OneCompanion /\ P!MessageHandled)
    BY MessagesHold
  <1>4. Inv /\ [Next]_vars => [part = "messages" => P!AckStep]_vars
    BY OnePart, MessageAck
  <1> HIDE DEF Inv
  <1> QED
    BY <1>1, <1>2, <1>3, <1>4, PTL DEF Spec
=============================================================================
