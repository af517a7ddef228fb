------------------------ MODULE SubscriptionsProofs ------------------------
(* What subscribers are told, for any subscriptions, chat handlers and setups. *)
(*                                                                             *)
(* Parties overwrite each other's changes, so nothing can be said of the order *)
(* of what the file says.  Two things hold all the same.  A record never       *)
(* claims more than has happened, wherever a copy of it is: its cursor stays   *)
(* within what was told, its statuses within those tried (ClaimsTrue).  And an *)
(* active chat subscription of a finished task was tried, or is on the list of *)
(* a party that will try it (Announcing).                                      *)
(*   When parties take turns, the file read is the file written over (Solo),   *)
(* what a party has in hand is what the file says (InHand), and the counts of  *)
(* spawns, failures and messages are those the file implies, give or take what *)
(* is about to be noted and one for each crash (Counted).                      *)
EXTENDS Subscriptions, TLAPS

Senders == Chats \cup {"replay"}
Callers == {"callback", "poll"}

(* ------------------------------- The invariant ---------------------------- *)

Changes ==
    [op : {"create"}, sub : {create("completion", "agent-callback")}]
    \cup [op : {"cancel", "delivered", "appendAttempt", "failedAttempt"}]
    \cup [op : {"cursor", "closed"}, cursor : Nat]
    \cup [op : {"failure", "failed"}, attempts : Nat]
    \cup [op : {"markStatusNotified"}, status : TRIGGER_STATUSES]

File == [SubIds -> Subscription \cup {Absent}]

Party == [pc : {"idle", "next", "deliver", "read", "write"}, phase : {"first", "last"},
          queue : SUBSET (SubIds \X Subscription), id : SubIds \cup {0},
          sub : Subscription \cup {Absent}, todo : Seq(Changes), snap : File \cup {Absent},
          at : Statuses \cup {"none"}, seen : Statuses \cup {"none"}]

(* What a party at each step has at hand. *)
Equipped(p, k) ==
    /\ k.pc = "idle" => k = Idle
    /\ k.phase = "first" => p = "callback"
    /\ k.pc \in {"deliver", "read", "write"} => k.id \in SubIds
    /\ k.pc \in {"read", "write"} => k.todo # <<>>
    /\ k.pc \in {"next", "deliver"} => k.todo = <<>>
    /\ k.pc = "write" => k.snap \in File /\ k.at \in Statuses
    /\ p \in Callers /\ k.pc \in {"deliver", "read", "write"} => k.sub \in Subscription
    /\ p \in Senders /\ (k.queue # {} \/ k.pc = "deliver") => k.seen \in TRIGGER_STATUSES

TypesKept ==
    /\ setup \in Setups /\ status \in Statuses /\ log \in Seq(Statuses) /\ file \in File
    /\ procs \in [Procs -> Party] /\ \A p \in Procs : Equipped(p, procs[p])
    /\ attached \in BOOLEAN /\ booting \in {"no", "scan", "replay"}
    /\ spawned \in [SubIds -> Nat] /\ failed \in [SubIds -> Nat]
    /\ told \in [SubIds -> [TRIGGER_STATUSES -> Nat]] /\ tried \in [SubIds -> SUBSET Statuses]
    /\ covered \in [SubIds -> SUBSET Nat]
    /\ used \in [fails : Nat, crashes : Nat]

(* A subscription, wherever a copy of it is, claims no more than happened. *)
Backed(s, r) == r.cursor <= Len(log) /\ 1 .. r.cursor \subseteq covered[s] /\ r.notified \subseteq tried[s]
BackedFile(f) == \A s \in SubIds : f[s] # Absent => Backed(s, f[s])
BackedChange(s, c) ==
    /\ c.op \in {"cursor", "closed"} => c.cursor <= Len(log) /\ 1 .. c.cursor \subseteq covered[s]
    /\ c.op = "markStatusNotified" => c.status \in tried[s]
BackedParty(p, k) ==
    /\ \A e \in k.queue : Backed(e[1], e[2])
    /\ p \in Callers /\ k.pc \in {"deliver", "read", "write"} => Backed(k.id, k.sub)
    /\ k.pc = "write" => BackedFile(k.snap)
    /\ \A i \in DOMAIN k.todo : BackedChange(k.id, k.todo[i])
ClaimsTrue == BackedFile(file) /\ \A p \in Procs : BackedParty(p, procs[p])

(* An active chat subscription has been tried, or will be. *)
DueBy(k, s, st) == k.seen = st /\ ((\E e \in k.queue : e[1] = s) \/ (k.pc = "deliver" /\ k.id = s))
Due(s, st) == \E p \in Senders : DueBy(procs[p], s, st)
ChatActive(f, s) == f[s] # Absent /\ f[s].status = "active" /\ f[s].kind = "openclaw-chat"
Announced(f, st) ==
    st \in TERMINAL_STATUSES => \A s \in SubIds : ChatActive(f, s) => st \in tried[s] \/ Due(s, st)
Announcing ==
    /\ setup.overlap => booting = "no"
    /\ booting = "scan" => ~attached
    /\ attached \/ booting = "replay" =>
          /\ Announced(file, status)
          /\ \A p \in Procs : procs[p].pc = "write" => Announced(procs[p].snap, procs[p].at)

(* One party at a time: what it holds is what the file holds. *)
Solo ==
    /\ \A p, q \in Procs : procs[p].pc # "idle" /\ procs[q].pc # "idle" => p = q
    /\ \A p \in Procs : procs[p].pc = "write" => procs[p].snap = file /\ procs[p].at = status

(* What a party may list. *)
Suits(p, k, r) ==
    /\ r # Absent /\ r.status = "active"
    /\ IF p \in Senders THEN r.kind = "openclaw-chat" /\ k.seen \notin r.notified
                        ELSE p \in Callers /\ r.kind = "agent-callback"
Current(p, k) ==
    /\ \A e \in k.queue : e[2] = file[e[1]] /\ Suits(p, k, e[2])
    /\ k.pc \in {"deliver", "read", "write"} => \A e \in k.queue : e[1] # k.id
    /\ k.pc = "deliver" => k.sub = file[k.id] /\ Suits(p, k, k.sub)

Ops(op) == [op |-> op]
Marked(st) == [op |-> "markStatusNotified", status |-> st]
Errand(p, k, r) ==
    \/ /\ p \in Callers /\ r # Absent /\ r.status = "active" /\ r.kind = "agent-callback"
       /\ \/ k.todo = <<Ops("delivered")>>
          \/ k.todo = <<[op |-> "failure", attempts |-> r.attempts + 1]>> /\ r.attempts + 1 < MAX_DELIVERY_ATTEMPTS
          \/ k.todo = <<[op |-> "failed", attempts |-> r.attempts + 1]>> /\ r.attempts + 1 >= MAX_DELIVERY_ATTEMPTS
          \/ r.gran = "all" /\ Len(k.todo) = 1 /\ k.todo[1].op \in {"cursor", "closed"}
    \/ /\ p \in Senders /\ r # Absent /\ r.status = "active" /\ r.kind = "openclaw-chat"
       /\ k.seen \in TRIGGER_STATUSES
       /\ k.todo \in {<<Ops("appendAttempt"), Marked(k.seen), Ops("delivered")>>,
                      <<Ops("appendAttempt"), Marked(k.seen)>>, <<Marked(k.seen), Ops("delivered")>>,
                      <<Marked(k.seen)>>, <<Ops("delivered")>>, <<Ops("failedAttempt")>>}
    \/ /\ p = "user"
       /\ \/ r = Absent /\ k.todo = <<[op |-> "create", sub |-> create("completion", "agent-callback")]>>
          \/ r # Absent /\ k.todo = <<Ops("cancel")>>

InHand == \A p \in Procs :
    /\ Current(p, procs[p])
    /\ procs[p].pc \in {"read", "write"} => Errand(p, procs[p], file[procs[p].id])

(* What a party is about to note. *)
Noting(k, s) == k.pc \in {"read", "write"} /\ k.id = s
DeliveringBy(p, k, s) == p \in Callers /\ Noting(k, s) /\ k.todo[1].op = "delivered"
GivingUpBy(p, k, s) == p \in Callers /\ Noting(k, s) /\ k.todo[1].op \in {"failure", "failed"}
MarkingBy(p, k, s, st) == p \in Senders /\ Noting(k, s) /\ \E i \in DOMAIN k.todo : k.todo[i] = Marked(st)

Delivering(s) == \E p \in Procs : DeliveringBy(p, procs[p], s)
GivingUp(s) == \E p \in Procs : GivingUpBy(p, procs[p], s)
Marking(s, st) == \E p \in Procs : MarkingBy(p, procs[p], s, st)

(* The counts of one subscription, given its record, the crashes, and whether *)
(* the last one is still to be noted.                                         *)
One(P) == IF P THEN 1 ELSE 0
SpawnsFit(r, n, crashes, open) ==
    r = Absent \/ r.gran = "completion" => n <= crashes + One((r # Absent /\ r.status # "active") \/ open)
FailuresFit(r, n, crashes, open) ==
    /\ r = Absent => n = 0
    /\ r # Absent /\ r.kind = "openclaw-chat" => n = 0 /\ r.status # "failed"
    /\ r # Absent /\ r.kind = "agent-callback" =>
        /\ r.attempts <= MAX_DELIVERY_ATTEMPTS
        /\ r.status = "active" => r.attempts < MAX_DELIVERY_ATTEMPTS
        /\ r.status = "failed" => r.attempts = MAX_DELIVERY_ATTEMPTS
        /\ r.gran = "completion" => r.attempts + One(open) <= n /\ n <= r.attempts + crashes + One(open)
MessagesFit(r, n, crashes, st, open) == n <= crashes + One((r # Absent /\ st \in r.notified) \/ open)

CountedFor(s) ==
    /\ SpawnsFit(file[s], spawned[s], used.crashes, Delivering(s))
    /\ FailuresFit(file[s], failed[s], used.crashes, GivingUp(s))
    /\ \A st \in TRIGGER_STATUSES : MessagesFit(file[s], told[s][st], used.crashes, st, Marking(s, st))
Counted == \A s \in SubIds : CountedFor(s)
AloneKept == Alone => Solo /\ InHand /\ Counted

(* --------------------------------- Helpers -------------------------------- *)

(* The parties are the callers, the senders and the user, kept apart. *)
LEMMA Names ==
    /\ TRIGGER_STATUSES \subseteq Statuses /\ TERMINAL_STATUSES \subseteq TRIGGER_STATUSES
    /\ Procs = Callers \cup Senders \cup {"user"} /\ Callers \cap Senders = {}
    /\ "user" \notin Callers \cup Senders /\ Callers = {"callback", "poll"}
  BY IdsAssumption DEF TRIGGER_STATUSES, TERMINAL_STATUSES, Statuses, Procs, Callers, Senders

(* What create() returns is a subscription. *)
LEMMA NewSubscription ==
    ASSUME NEW g \in {"completion", "all"}, NEW k \in {"agent-callback", "openclaw-chat"}
    PROVE  create(g, k) \in Subscription
  BY DEF create, Subscription

(* An idle party holds nothing and claims nothing. *)
LEMMA IdleParty == Idle \in Party /\ \A p : Equipped(p, Idle) /\ BackedParty(p, Idle)
  <1>1. <<>> \in Seq(Changes)
    OBVIOUS
  <1>2. Idle \in Party
    BY <1>1 DEF Idle, Party
  <1>3. ASSUME NEW p PROVE Equipped(p, Idle) /\ BackedParty(p, Idle)
    BY DEF Equipped, BackedParty, Idle
  <1> QED BY <1>2, <1>3

(* The types of the fields of a setup. *)
LEMMA SetupFields ==
    ASSUME setup \in Setups
    PROVE  setup.path \in Seq(Statuses) /\ setup.overlap \in BOOLEAN /\ setup.crashes \in Nat
  <1>1. \A c \in Setups : c.path \in Seq(Statuses) /\ c.overlap \in BOOLEAN /\ c.crashes \in Nat
    BY SetupsType
  <1> QED BY <1>1

(* The rest of a todo list. *)
LEMMA TailOf ==
    ASSUME NEW S, NEW q \in Seq(S), q # <<>>
    PROVE  /\ Head(q) \in S /\ Tail(q) \in Seq(S) /\ Head(q) = q[1] /\ 1 \in DOMAIN q
           /\ \A i \in DOMAIN Tail(q) : i + 1 \in DOMAIN q /\ Tail(q)[i] = q[i + 1]
  OBVIOUS

(* A list of one change. *)
LEMMA OneItem ==
    ASSUME NEW S, NEW x \in S
    PROVE  <<x>> \in Seq(S) /\ \A i \in DOMAIN <<x>> : <<x>>[i] = x
  OBVIOUS

(* Every change makes a subscription of what it is applied to. *)
LEMMA ChangeKeepsType ==
    ASSUME NEW r \in Subscription \cup {Absent}, NEW c \in Changes,
           r # Absent \/ c.op = "create"
    PROVE  Change(r, c) \in Subscription
  <1>1. CASE c.op = "create"
    <2>1. c.sub = create("completion", "agent-callback")
      BY <1>1 DEF Changes
    <2>2. Change(r, c) = c.sub
      BY <1>1 DEF Change
    <2> QED BY <2>1, <2>2, NewSubscription
  <1>2. CASE c.op # "create"
    <2>1. r \in Subscription
      BY <1>2
    <2>2. /\ c.op \in {"cancel", "delivered", "appendAttempt", "failedAttempt", "cursor", "closed",
                        "failure", "failed", "markStatusNotified"}
          /\ c.op \in {"cursor", "closed"} => c.cursor \in Nat
          /\ c.op \in {"failure", "failed"} => c.attempts \in Nat
          /\ c.op = "markStatusNotified" => c.status \in TRIGGER_STATUSES
      BY <1>2 DEF Changes
    <2>3. CASE c.op \in {"cancel", "delivered"}
      BY <2>1, <2>3 DEF Change, Subscription
    <2>7. CASE c.op \in {"appendAttempt", "failedAttempt"}
      <3>1. Change(r, c) = [r EXCEPT !.attempts = @ + 1, !.recent = TRUE]
        BY <2>7 DEF Change
      <3> DEFINE n == r.attempts + 1
      <3>2. n \in Nat
        BY <2>1 DEF Subscription
      <3>3. Change(r, c) = [r EXCEPT !.attempts = n, !.recent = TRUE]
        BY <3>1
      <3> HIDE DEF n
      <3> QED BY <2>1, <3>2, <3>3 DEF Subscription
    <2>4. CASE c.op \in {"cursor", "closed"}
      BY <2>1, <2>2, <2>4 DEF Change, Subscription
    <2>5. CASE c.op \in {"failure", "failed"}
      BY <2>1, <2>2, <2>5 DEF Change, Subscription
    <2>6. CASE c.op = "markStatusNotified"
      BY <2>1, <2>2, <2>6 DEF Change, Subscription
    <2> QED BY <2>2, <2>3, <2>4, <2>5, <2>6, <2>7
  <1> QED BY <1>1, <1>2

(* What a change does to the fields, for any subscription. *)
LEMMA ChangeOf ==
    ASSUME NEW r \in Subscription, NEW c \in Changes, c.op # "create"
    PROVE  LET n == Change(r, c) IN
           /\ n.gran = r.gran /\ n.kind = r.kind
           /\ n.cursor = IF c.op \in {"cursor", "closed"} THEN c.cursor ELSE r.cursor
           /\ n.notified = IF c.op = "markStatusNotified" THEN r.notified \cup {c.status} ELSE r.notified
           /\ n.status = CASE c.op = "cancel" -> "cancelled"
                           [] c.op \in {"delivered", "closed"} -> "delivered"
                           [] c.op = "failed" -> "failed"
                           [] OTHER -> r.status
           /\ n.attempts = CASE c.op \in {"failure", "failed"} -> c.attempts
                             [] c.op \in {"appendAttempt", "failedAttempt"} -> r.attempts + 1
                             [] OTHER -> r.attempts
  <1>1. c.op \in {"cancel", "delivered", "appendAttempt", "failedAttempt", "cursor", "closed",
                   "failure", "failed", "markStatusNotified"}
    BY DEF Changes
  <1>2. CASE c.op \in {"cancel", "delivered"}
    BY <1>2 DEF Change, Subscription
  <1>3. CASE c.op \in {"appendAttempt", "failedAttempt"}
    BY <1>3 DEF Change, Subscription
  <1>4. CASE c.op \in {"cursor", "closed"}
    BY <1>4 DEF Change, Subscription
  <1>5. CASE c.op \in {"failure", "failed"}
    BY <1>5 DEF Change, Subscription
  <1>6. CASE c.op = "markStatusNotified"
    BY <1>6 DEF Change, Subscription
  <1> QED BY <1>1, <1>2, <1>3, <1>4, <1>5, <1>6

(* A step that changes one party. *)
OneParty(p, k) == p \in Procs /\ k \in Party /\ Equipped(p, k) /\ procs' = [procs EXCEPT ![p] = k]

(* A well-formed party in place of another keeps all parties well formed. *)
LEMMA PartyTypes ==
    ASSUME TypesKept, NEW p, NEW k, OneParty(p, k)
    PROVE  procs' \in [Procs -> Party] /\ \A q \in Procs : Equipped(q, procs'[q])
  BY DEF TypesKept, OneParty

(* A listing of the file. *)
LEMMA Listing ==
    ASSUME TypesKept, NEW ids \in SUBSET Active(file)
    PROVE  /\ Listed(ids) \in SUBSET (SubIds \X Subscription)
           /\ \A e \in Listed(ids) : e[1] \in ids /\ e[2] = file[e[1]] /\ e = <<e[1], e[2]>>
                                      /\ e[1] \in SubIds /\ e[2] # Absent /\ e[2].status = "active"
           /\ \A s \in ids : <<s, file[s]>> \in Listed(ids)
  BY DEF TypesKept, File, Listed, Active

(* ----------------------------- Types, step by step ------------------------- *)

(* Going on with a list of changes leaves a well-formed party. *)
LEMMA ProceedKept ==
    ASSUME TypesKept, NEW p \in Procs, NEW q \in Seq(Changes), procs[p].pc \in {"deliver", "write"}
    PROVE  /\ Proceed(p, q) \in Party /\ Equipped(p, Proceed(p, q))
           /\ Proceed(p, q) = [procs[p] EXCEPT !.todo = q, !.pc = IF q = <<>> THEN "next" ELSE "read"]
  <1> DEFINE pc == IF q = <<>> THEN "next" ELSE "read"
  <1>1. procs[p] \in Party /\ Equipped(p, procs[p])
    BY DEF TypesKept
  <1>2. pc \in {"next", "read"} /\ (pc = "read" => q # <<>>) /\ (pc = "next" => q = <<>>)
    OBVIOUS
  <1>3. Proceed(p, q) = [procs[p] EXCEPT !.todo = q, !.pc = pc]
    BY DEF Proceed
  <1> HIDE DEF pc
  <1>4. Proceed(p, q) \in Party
    BY <1>1, <1>2, <1>3 DEF Party
  <1>5. Equipped(p, Proceed(p, q))
    BY <1>1, <1>2, <1>3 DEF Party, Equipped
  <1> QED BY <1>3, <1>4, <1>5 DEF pc

(* handleDeliveryFailure() makes a change of two kinds. *)
LEMMA FailureTyped ==
    ASSUME NEW r \in Subscription
    PROVE  /\ <<handleDeliveryFailure(r)>> \in Seq(Changes)
           /\ handleDeliveryFailure(r) \in [op : {"failure", "failed"}, attempts : Nat]
  <1>1. r.attempts + 1 \in Nat
    BY DEF Subscription
  <1>2. handleDeliveryFailure(r) \in [op : {"failure", "failed"}, attempts : Nat]
    BY <1>1 DEF handleDeliveryFailure
  <1> QED BY <1>2 DEF Changes

(* ... as does the handling of an error. *)
LEMMA ErrorTyped ==
    ASSUME TypesKept, NEW p \in Procs, procs[p].pc = "write"
    PROVE  /\ AfterError(p) \in Seq(Changes)
           /\ \A i \in DOMAIN AfterError(p) : AfterError(p)[i].op \in {"failure", "failed", "failedAttempt"}
  <1> DEFINE c == Head(procs[p].todo)
  <1>1. c \in Changes
    BY TailOf DEF TypesKept, Equipped, Party
  <1>2. CASE c.op = "delivered" /\ p \in {"callback", "poll"}
    <2>1. procs[p].sub \in Subscription
      BY <1>2 DEF TypesKept, Equipped, Callers
    <2>2. AfterError(p) = <<handleDeliveryFailure(procs[p].sub)>>
      BY <1>2, Names DEF AfterError, Senders, Callers
    <2>3. handleDeliveryFailure(procs[p].sub).op \in {"failure", "failed"}
      BY <2>1, FailureTyped
    <2> QED BY <2>1, <2>2, <2>3, FailureTyped
  <1>3. CASE ~(c.op = "delivered" /\ p \in {"callback", "poll"})
    <2>1. AfterError(p) = <<[op |-> "failedAttempt"]>> \/ AfterError(p) = <<>>
      BY <1>3 DEF AfterError
    <2>2. <<[op |-> "failedAttempt"]>> \in Seq(Changes) /\ <<>> \in Seq(Changes)
      BY DEF Changes
    <2>3. \A i \in DOMAIN AfterError(p) : AfterError(p)[i].op \in {"failure", "failed", "failedAttempt"}
      BY <2>1
    <2> QED BY <2>1, <2>2, <2>3
  <1> QED BY <1>2, <1>3

(* What deliverOne() notes are changes. *)
LEMMA NotedTyped ==
    ASSUME NEW st \in TRIGGER_STATUSES
    PROVE  Noted(st) \in Seq(Changes) /\ <<[op |-> "failedAttempt"]>> \in Seq(Changes)
                                      /\ <<[op |-> "delivered"]>> \in Seq(Changes)
  <1>1. /\ [op |-> "appendAttempt"] \in Changes /\ [op |-> "delivered"] \in Changes
        /\ [op |-> "failedAttempt"] \in Changes /\ [op |-> "markStatusNotified", status |-> st] \in Changes
    BY DEF Changes
  <1> QED BY <1>1 DEF Noted

(* The types hold at the start. *)
LEMMA InitTypes == Init => TypesKept
  <1> SUFFICES ASSUME Init PROVE TypesKept
    OBVIOUS
  <1>1. file \in File
    <2>1. file \in [SubIds -> Fresh \cup {Absent}]
      BY SubscriptionsFresh DEF Init
    <2>2. Fresh \subseteq Subscription
      BY NewSubscription DEF Fresh
    <2> QED BY <2>1, <2>2 DEF File
  <1>2. procs \in [Procs -> Party] /\ \A p \in Procs : Equipped(p, procs[p])
    BY IdleParty DEF Init
  <1>3. /\ spawned \in [SubIds -> Nat] /\ failed \in [SubIds -> Nat]
        /\ told \in [SubIds -> [TRIGGER_STATUSES -> Nat]] /\ tried \in [SubIds -> SUBSET Statuses]
        /\ covered \in [SubIds -> SUBSET Nat] /\ used \in [fails : Nat, crashes : Nat]
    BY DEF Init
  <1>4. status \in Statuses /\ log \in Seq(Statuses)
    BY DEF Init, Statuses
  <1> QED BY <1>1, <1>2, <1>3, <1>4 DEF Init, TypesKept

(* The steps of the parties, as changes of one party each. *)
LEMMA StartedKept ==
    ASSUME NEW p \in Procs, NEW list, list \in SUBSET (SubIds \X Subscription), NEW phase \in {"first", "last"},
           NEW seen \in Statuses \cup {"none"}, phase = "first" => p = "callback",
           p \in Senders /\ list # {} => seen \in TRIGGER_STATUSES
    PROVE  Started(list, phase, seen) \in Party /\ Equipped(p, Started(list, phase, seen))
  <1> DEFINE k == Started(list, phase, seen)
  <1>1. k.pc = "next" /\ k.phase = phase /\ k.queue = list /\ k.seen = seen /\ k.todo = <<>>
    BY DEF Started, Idle
  <1>2. <<>> \in Seq(Changes)
    OBVIOUS
  <1>3. k \in Party
    BY <1>2 DEF Party, Started, Idle
  <1>4. Equipped(p, k)
    BY <1>1 DEF Equipped
  <1> QED BY <1>3, <1>4

(* A read. *)
LEMMA ReadStep ==
    ASSUME TypesKept, NEW p \in Procs, ReadFile(p)
    PROVE  OneParty(p, [procs[p] EXCEPT !.pc = "write", !.snap = file, !.at = status])
  <1> DEFINE k == [procs[p] EXCEPT !.pc = "write", !.snap = file, !.at = status]
  <1>1. procs[p] \in Party /\ Equipped(p, procs[p]) /\ file \in File /\ status \in Statuses
        /\ procs[p].pc = "read"
    BY DEF TypesKept, ReadFile
  <1>2. k \in Party
    BY <1>1 DEF Party
  <1>3. Equipped(p, k)
    BY <1>1 DEF Party, Equipped
  <1>4. procs' = [procs EXCEPT ![p] = k]
    BY DEF ReadFile, TypesKept
  <1> QED BY <1>2, <1>3, <1>4 DEF OneParty

(* The change that was due is made, or the file stays as it is. *)
Made(p) == LET k == procs[p] IN
    /\ k.snap[k.id] # Absent \/ Head(k.todo).op = "create"
    /\ k.at = status
    /\ file' = [k.snap EXCEPT ![k.id] = Change(k.snap[k.id], Head(k.todo))]

(* A write makes the change, or leaves the file and goes on or handles the error. *)
LEMMA WriteStep ==
    ASSUME TypesKept, NEW p \in Procs, WriteFile(p)
    PROVE  \E q \in Seq(Changes) :
             /\ OneParty(p, Proceed(p, q))
             /\ \/ Made(p) /\ q = Tail(procs[p].todo)
                \/ /\ file' = file /\ (q = Tail(procs[p].todo) \/ q = AfterError(p))
                   /\ \/ procs[p].snap[procs[p].id] = Absent /\ Head(procs[p].todo).op # "create"
                      \/ procs[p].at # status
  <1>1. procs[p] \in Party /\ Equipped(p, procs[p]) /\ procs[p].pc = "write"
    BY DEF TypesKept, WriteFile
  <1>2. Tail(procs[p].todo) \in Seq(Changes) /\ AfterError(p) \in Seq(Changes)
    BY <1>1, TailOf, ErrorTyped DEF Party, Equipped
  <1>3. \A q \in Seq(Changes) : procs' = [procs EXCEPT ![p] = Proceed(p, q)] => OneParty(p, Proceed(p, q))
    BY <1>1, ProceedKept DEF OneParty
  <1>4. CASE /\ Head(procs[p].todo).op = "create" \/ procs[p].snap[procs[p].id] # Absent
             /\ procs[p].at = status
    <2>1. procs' = [procs EXCEPT ![p] = Proceed(p, Tail(procs[p].todo))] /\ Made(p)
      BY <1>4 DEF WriteFile, Made
    <2> QED BY <2>1, <1>2, <1>3
  <1>5. CASE ~(/\ Head(procs[p].todo).op = "create" \/ procs[p].snap[procs[p].id] # Absent
               /\ procs[p].at = status)
    <2>1. /\ file' = file
          /\ \/ procs' = [procs EXCEPT ![p] = Proceed(p, Tail(procs[p].todo))]
             \/ procs' = [procs EXCEPT ![p] = Proceed(p, AfterError(p))]
      BY <1>5 DEF WriteFile
    <2> QED BY <2>1, <1>2, <1>3, <1>5
  <1> QED BY <1>4, <1>5

(* The next subscription, the second list, or the end. *)
LEMMA NextStep ==
    ASSUME TypesKept, NEW p \in Procs, NextSub(p)
    PROVE  \/ \E e \in procs[p].queue :
                 /\ e[1] \in SubIds /\ e[2] \in Subscription
                 /\ OneParty(p, [procs[p] EXCEPT !.pc = "deliver", !.id = e[1], !.sub = e[2], !.queue = @ \ {e}])
           \/ p = "callback" /\ procs[p].queue = {} /\ OneParty(p, Started(allSubs, "last", "none"))
           \/ procs[p].queue = {} /\ OneParty(p, Idle)
  <1>1. procs[p] \in Party /\ Equipped(p, procs[p]) /\ procs[p].pc = "next"
    BY DEF TypesKept, NextSub
  <1>2. ASSUME NEW e \in procs[p].queue,
               procs' = [procs EXCEPT ![p].pc = "deliver", ![p].id = e[1], ![p].sub = e[2], ![p].queue = @ \ {e}]
        PROVE  /\ e[1] \in SubIds /\ e[2] \in Subscription
               /\ OneParty(p, [procs[p] EXCEPT !.pc = "deliver", !.id = e[1], !.sub = e[2], !.queue = @ \ {e}])
    <2> DEFINE k == [procs[p] EXCEPT !.pc = "deliver", !.id = e[1], !.sub = e[2], !.queue = @ \ {e}]
    <2>1. e[1] \in SubIds /\ e[2] \in Subscription
      BY <1>1 DEF Party
    <2>2. k \in Party
      BY <1>1, <2>1 DEF Party
    <2>3. Equipped(p, k)
      BY <1>1, <2>1 DEF Party, Equipped
    <2>4. procs' = [procs EXCEPT ![p] = k]
      BY <1>2 DEF TypesKept
    <2> QED BY <2>1, <2>2, <2>3, <2>4 DEF OneParty
  <1>3. ASSUME procs[p].phase = "first", procs' = [procs EXCEPT ![p] = Started(allSubs, "last", "none")]
        PROVE  p = "callback" /\ OneParty(p, Started(allSubs, "last", "none"))
    <2>1. p = "callback" /\ p \notin Senders
      BY <1>1, <1>3, Names DEF Equipped
    <2>3. allSubs \in SUBSET (SubIds \X Subscription)
      BY Listing DEF allSubs
    <2>4. Started(allSubs, "last", "none") \in Party /\ Equipped(p, Started(allSubs, "last", "none"))
      BY <2>1, <2>3, StartedKept
    <2> QED BY <1>3, <2>1, <2>4 DEF OneParty
  <1>4. ASSUME procs' = [procs EXCEPT ![p] = Idle]
        PROVE  OneParty(p, Idle)
    BY <1>4, IdleParty DEF OneParty
  <1> QED BY <1>2, <1>3, <1>4 DEF NextSub

(* A callback: one of three ways to go on. *)
LEMMA ServeStep ==
    ASSUME TypesKept, NEW p \in Procs, NEW ok \in BOOLEAN, Serve(p, ok)
    PROVE  LET k == procs[p] IN
           /\ p \in Callers /\ k.pc = "deliver" /\ k.sub \in Subscription /\ k.id \in SubIds
           /\ \/ k.sub.gran = "completion" /\ OneParty(p, Proceed(p, deliverSingleCallback(k.sub, ok)))
              \/ k.sub.gran = "all" /\ k.sub.cursor = Len(log) /\ OneParty(p, [procs[p] EXCEPT !.pc = "next"])
              \/ k.sub.gran = "all" /\ OneParty(p, Proceed(p, deliverAllGranularity(p, k.sub, ok)))
  <1> DEFINE k == procs[p]
  <1>1. p \in Callers /\ k.pc = "deliver" /\ k.sub \in Subscription /\ k.id \in SubIds
        /\ k \in Party /\ Equipped(p, k)
    BY DEF TypesKept, Serve, Equipped, Callers
  <1>2. k.sub.gran \in {"completion", "all"}
    BY <1>1 DEF Subscription
  <1>3. \A q \in Seq(Changes) : procs' = [procs EXCEPT ![p] = Proceed(p, q)] => OneParty(p, Proceed(p, q))
    BY <1>1, ProceedKept DEF OneParty
  <1>4. deliverSingleCallback(k.sub, ok) \in Seq(Changes)
    <2>1. <<[op |-> "delivered"]>> \in Seq(Changes)
      BY DEF Changes
    <2> QED BY <1>1, <2>1, FailureTyped DEF deliverSingleCallback
  <1>5. deliverAllGranularity(p, k.sub, ok) \in Seq(Changes)
    <2>1. Len(log) \in Nat /\ <<>> \in Seq(Changes)
      BY DEF TypesKept
    <2>2. <<[op |-> "closed", cursor |-> Len(log)]>> \in Seq(Changes)
          /\ <<[op |-> "cursor", cursor |-> Len(log)]>> \in Seq(Changes)
      BY <2>1 DEF Changes
    <2>3. CASE ok
      BY <2>2, <2>3 DEF deliverAllGranularity
    <2>4. CASE ~ok
      BY <2>1, <2>4, <1>1, FailureTyped DEF deliverAllGranularity
    <2> QED BY <2>3, <2>4
  <1>6. CASE k.sub.gran = "completion"
    BY <1>1, <1>3, <1>4, <1>6 DEF Serve
  <1>7. CASE k.sub.gran = "all" /\ k.sub.cursor = Len(log)
    <2>1. [procs[p] EXCEPT !.pc = "next"] \in Party /\ Equipped(p, [procs[p] EXCEPT !.pc = "next"])
      BY <1>1 DEF Party, Equipped
    <2>2. procs' = [procs EXCEPT ![p] = [procs[p] EXCEPT !.pc = "next"]]
      BY <1>7 DEF Serve, TypesKept
    <2> QED BY <1>1, <1>7, <2>1, <2>2 DEF OneParty
  <1>8. CASE k.sub.gran = "all" /\ k.sub.cursor # Len(log)
    BY <1>1, <1>3, <1>5, <1>8 DEF Serve
  <1> QED BY <1>1, <1>2, <1>6, <1>7, <1>8

(* A chat message, acknowledged or not. *)
LEMMA DeliverStep ==
    ASSUME TypesKept, NEW p \in Procs, NEW ok \in BOOLEAN, deliverOne(p, ok)
    PROVE  LET k == procs[p] IN
           /\ p \in Senders /\ k.pc = "deliver" /\ k.id \in SubIds /\ k.seen \in TRIGGER_STATUSES
           /\ OneParty(p, Proceed(p, IF ok THEN Noted(k.seen) ELSE <<[op |-> "failedAttempt"]>>))
  <1> DEFINE k == procs[p]
  <1>1. p \in Senders /\ k.pc = "deliver" /\ k.id \in SubIds /\ k.seen \in TRIGGER_STATUSES
    BY DEF TypesKept, deliverOne, Equipped, Senders
  <1>2. (IF ok THEN Noted(k.seen) ELSE <<[op |-> "failedAttempt"]>>) \in Seq(Changes)
    BY <1>1, NotedTyped
  <1> QED BY <1>1, <1>2, ProceedKept DEF OneParty, deliverOne

(* The delivery after a run starts. *)
LEMMA CallbackStep ==
    ASSUME TypesKept, deliverAllCallbacksSafely
    PROVE  Quiet /\ OneParty("callback", Started(completionSubs, "first", "none")) /\ procs["callback"].pc = "idle"
  <1>1. "callback" \in Procs /\ "callback" \notin Senders
    BY Names
  <1>2. completionSubs \in SUBSET (SubIds \X Subscription)
    BY Listing DEF completionSubs
  <1> QED BY <1>1, <1>2, StartedKept DEF OneParty, deliverAllCallbacksSafely, Begin

(* The retry scan starts. *)
LEMMA PollStep ==
    ASSUME TypesKept, retryPendingDeliveries
    PROVE  Quiet /\ OneParty("poll", Started(retryCandidates, "last", "none")) /\ procs["poll"].pc = "idle"
  <1>1. "poll" \in Procs /\ "poll" \notin Senders
    BY Names
  <1>2. retryCandidates \in SUBSET (SubIds \X Subscription)
    BY Listing DEF retryCandidates
  <1> QED BY <1>1, <1>2, StartedKept DEF OneParty, retryPendingDeliveries, Begin

(* The chat subscriptions that handleEvent lists. *)
LEMMA ChatList ==
    ASSUME TypesKept, NEW to
    PROVE  /\ handleEvent(to) \in SUBSET (SubIds \X Subscription)
           /\ \A e \in handleEvent(to) : /\ e[1] \in SubIds /\ e[2] = file[e[1]] /\ e[2] # Absent
                                          /\ e[2].status = "active" /\ e[2].kind = "openclaw-chat"
                                          /\ to \notin e[2].notified
           /\ \A s \in SubIds : ChatActive(file, s) /\ to \notin file[s].notified =>
                 <<s, file[s]>> \in handleEvent(to)
  <1> DEFINE ids == {s \in Active(file) : resolveDeliveryKind(file[s]) = "openclaw-chat" /\ to \notin file[s].notified}
  <1>1. ids \in SUBSET Active(file) /\ handleEvent(to) = Listed(ids)
    BY DEF handleEvent
  <1>2. \A e \in Listed(ids) : e[1] \in ids /\ e[2] = file[e[1]] /\ e[1] \in SubIds /\ e[2] # Absent
                               /\ e[2].status = "active"
    BY <1>1, Listing
  <1>3. \A s \in SubIds : ChatActive(file, s) /\ to \notin file[s].notified => s \in ids
    BY DEF ChatActive, Active, resolveDeliveryKind
  <1>4. \A s \in ids : file[s].kind = "openclaw-chat" /\ to \notin file[s].notified
    BY DEF resolveDeliveryKind
  <1>5. Listed(ids) \in SUBSET (SubIds \X Subscription) /\ \A s \in ids : <<s, file[s]>> \in Listed(ids)
    BY <1>1, Listing
  <1> HIDE DEF ids
  <1> QED BY <1>1, <1>2, <1>3, <1>4, <1>5

(* A transition, with or without a listener. *)
LEMMA TransitionStep ==
    ASSUME TypesKept, NEW c \in Chats, Transition(c)
    PROVE  \E to \in Statuses :
             /\ Len(log') = Len(log) + 1 /\ log' \in Seq(Statuses) /\ status' = to
             /\ procs[c].pc = "idle" /\ (booting = "replay" => setup.window)
             /\ c \in Senders /\ c \in Procs
             /\ \/ attached /\ to \in TRIGGER_STATUSES /\ OneParty(c, Started(handleEvent(to), "last", to))
                \/ ~(attached /\ to \in TRIGGER_STATUSES) /\ procs' = procs
  <1> DEFINE to == setup.path[Len(log) + 1]
  <1>1. to \in Statuses
    <2>1. Len(log) < Len(setup.path) /\ log \in Seq(Statuses) /\ setup.path \in Seq(Statuses)
      BY SetupFields DEF TypesKept, Transition
    <2> QED BY <2>1
  <1>2. c \in Senders /\ c \in Procs
    BY DEF Senders, Procs
  <1>3. Len(log') = Len(log) + 1 /\ log' \in Seq(Statuses) /\ status' = to
    BY <1>1 DEF Transition, TypesKept
  <1>4. CASE attached /\ to \in TRIGGER_STATUSES
    <2>1. procs' = [procs EXCEPT ![c] = Started(handleEvent(to), "last", to)]
      BY <1>4 DEF Transition
    <2>2. handleEvent(to) \in SUBSET (SubIds \X Subscription)
      BY ChatList
    <2>3. Started(handleEvent(to), "last", to) \in Party /\ Equipped(c, Started(handleEvent(to), "last", to))
      BY <1>1, <1>2, <1>4, <2>2, StartedKept
    <2>4. OneParty(c, Started(handleEvent(to), "last", to))
      BY <1>2, <2>1, <2>3 DEF OneParty
    <2> QED BY <1>1, <1>2, <1>3, <1>4, <2>4 DEF Transition
  <1>5. CASE ~(attached /\ to \in TRIGGER_STATUSES)
    BY <1>1, <1>2, <1>3, <1>5 DEF Transition
  <1> QED BY <1>4, <1>5

(* The replay starts. *)
LEMMA ReplayStep ==
    ASSUME TypesKept, replayUnnotifiedTerminals
    PROVE  Quiet /\ OneParty("replay", Started(replayList, "last", status)) /\ "replay" \in Senders
  <1>1. "replay" \in Procs /\ "replay" \in Senders
    BY DEF Procs, Senders
  <1>2. replayList \in SUBSET (SubIds \X Subscription) /\ (replayList # {} => status \in TERMINAL_STATUSES)
    BY ChatList DEF replayList
  <1>3. status \in Statuses /\ (replayList # {} => status \in TRIGGER_STATUSES)
    BY <1>2, Names DEF TypesKept
  <1>4. Started(replayList, "last", status) \in Party /\ Equipped("replay", Started(replayList, "last", status))
    BY <1>1, <1>2, <1>3, StartedKept
  <1> QED BY <1>1, <1>4 DEF OneParty, replayUnnotifiedTerminals

(* A user creates a subscription that is not there, or cancels one that is. *)
LEMMA UserStep ==
    ASSUME TypesKept, NEW s \in SubIds, aofTaskSubscribe(s) \/ aofTaskUnsubscribe(s)
    PROVE  \E c \in Changes :
             /\ Quiet /\ procs["user"].pc = "idle"
             /\ OneParty("user", [Idle EXCEPT !.pc = "read", !.id = s, !.todo = <<c>>])
             /\ \/ c = [op |-> "create", sub |-> create("completion", "agent-callback")] /\ file[s] = Absent
                \/ c = [op |-> "cancel"] /\ file[s] # Absent
  <1>1. \E c \in Changes :
             /\ UserChange(s, c)
             /\ \/ c = [op |-> "create", sub |-> create("completion", "agent-callback")] /\ file[s] = Absent
                \/ c = [op |-> "cancel"] /\ file[s] # Absent
    <2>1. [op |-> "create", sub |-> create("completion", "agent-callback")] \in Changes /\ [op |-> "cancel"] \in Changes
      BY DEF Changes
    <2> QED BY <2>1 DEF aofTaskSubscribe, aofTaskUnsubscribe
  <1>2. ASSUME NEW c \in Changes, UserChange(s, c)
        PROVE  Quiet /\ procs["user"].pc = "idle"
               /\ OneParty("user", [Idle EXCEPT !.pc = "read", !.id = s, !.todo = <<c>>])
    <2> DEFINE k == [Idle EXCEPT !.pc = "read", !.id = s, !.todo = <<c>>]
    <2>1. <<c>> \in Seq(Changes) /\ <<c>> # <<>>
      OBVIOUS
    <2>2. k \in Party
      BY <2>1 DEF Party, Idle
    <2>3. "user" \in Procs /\ "user" \notin Callers \cup Senders /\ Idle.phase = "last"
      BY Names DEF Idle
    <2>4. Equipped("user", k)
      BY <2>1, <2>3 DEF Equipped, Idle
    <2> QED BY <1>2, <2>2, <2>3, <2>4 DEF OneParty, UserChange
  <1> QED BY <1>1, <1>2

(* The step relation, taken apart once. *)
LEMMA Actions ==
    ASSUME [Next]_vars
    PROVE  \/ UNCHANGED vars
           \/ \E p \in Procs : ReadFile(p) \/ WriteFile(p) \/ NextSub(p)
           \/ \E p \in Procs, ok \in BOOLEAN : Serve(p, ok) \/ deliverOne(p, ok)
           \/ \E c \in Chats : Transition(c)
           \/ deliverAllCallbacksSafely \/ retryPendingDeliveries
           \/ \E s \in SubIds : CoolDown(s)
           \/ \E s \in SubIds : aofTaskSubscribe(s) \/ aofTaskUnsubscribe(s)
           \/ replayUnnotifiedTerminals \/ Attach \/ Crash
  BY DEF Next, Work

(* A change that is made: its parts and its result. *)
LEMMA MadeTypes ==
    ASSUME TypesKept, NEW p \in Procs, WriteFile(p), Made(p)
    PROVE  LET k == procs[p]  c == Head(k.todo) IN
           /\ k.snap \in File /\ k.id \in SubIds /\ c \in Changes /\ k.at = status
           /\ k.snap[k.id] \in Subscription \cup {Absent} /\ (k.snap[k.id] # Absent \/ c.op = "create")
           /\ file' \in File /\ Change(k.snap[k.id], c) \in Subscription
           /\ file' = [k.snap EXCEPT ![k.id] = Change(k.snap[k.id], c)]
  <1> DEFINE k == procs[p]  c == Head(k.todo)
  <1>1. k \in Party /\ Equipped(p, k) /\ k.pc = "write"
    BY DEF TypesKept, WriteFile
  <1>2. k.snap \in File /\ k.id \in SubIds /\ k.todo \in Seq(Changes) /\ k.todo # <<>>
    BY <1>1 DEF Party, Equipped
  <1>3. c \in Changes
    BY <1>2, TailOf
  <1>4. k.snap[k.id] \in Subscription \cup {Absent}
    BY <1>2 DEF File
  <1>5. Change(k.snap[k.id], c) \in Subscription
    BY <1>3, <1>4, ChangeKeepsType DEF Made
  <1> HIDE DEF c, k
  <1>6. file' = [k.snap EXCEPT ![k.id] = Change(k.snap[k.id], c)]
    BY DEF Made, c, k
  <1>7. file' \in File
    BY <1>2, <1>5, <1>6 DEF File
  <1> QED BY <1>2, <1>3, <1>4, <1>5, <1>6, <1>7 DEF Made, c, k

(* The counters. *)
LEMMA Uses ==
    ASSUME NEW u \in [fails : Nat, crashes : Nat]
    PROVE  /\ [u EXCEPT !.fails = @ + 1] \in [fails : Nat, crashes : Nat]
           /\ [u EXCEPT !.fails = @ + 1].crashes = u.crashes
           /\ [u EXCEPT !.crashes = @ + 1] \in [fails : Nat, crashes : Nat]
           /\ [u EXCEPT !.crashes = @ + 1].crashes = u.crashes + 1
  <1> DEFINE f == u.fails + 1  c == u.crashes + 1
  <1>1. f \in Nat /\ c \in Nat
    OBVIOUS
  <1>2. [u EXCEPT !.fails = @ + 1] = [u EXCEPT !.fails = f] /\ [u EXCEPT !.crashes = @ + 1] = [u EXCEPT !.crashes = c]
    OBVIOUS
  <1> HIDE DEF f, c
  <1>3. /\ [u EXCEPT !.fails = f] \in [fails : Nat, crashes : Nat] /\ [u EXCEPT !.fails = f].crashes = u.crashes
        /\ [u EXCEPT !.crashes = c] \in [fails : Nat, crashes : Nat] /\ [u EXCEPT !.crashes = c].crashes = c
    BY <1>1
  <1> QED BY <1>2, <1>3 DEF c

(* A counter goes up for one subscription. *)
LEMMA OneMore ==
    ASSUME NEW S, NEW g \in [S -> Nat], NEW s \in S
    PROVE  /\ [g EXCEPT ![s] = @ + 1] \in [S -> Nat]
           /\ \A t \in S : [g EXCEPT ![s] = @ + 1][t] = IF t = s THEN g[t] + 1 ELSE g[t]
  <1> DEFINE n == g[s] + 1
  <1>1. n \in Nat /\ [g EXCEPT ![s] = @ + 1] = [g EXCEPT ![s] = n]
    OBVIOUS
  <1>2. \A t \in S : [g EXCEPT ![s] = @ + 1][t] = IF t = s THEN g[t] + 1 ELSE g[t]
    OBVIOUS
  <1> HIDE DEF n
  <1>3. [g EXCEPT ![s] = n] \in [S -> Nat]
    BY <1>1
  <1> QED BY <1>1, <1>2, <1>3

(* After a crash everyone is idle. *)
LEMMA CrashParties == ASSUME TypesKept, Crash
    PROVE procs' \in [Procs -> Party] /\ \A p \in Procs : procs'[p] = Idle /\ Equipped(p, procs'[p])
  BY IdleParty DEF Crash

(* A callback keeps the types of what is counted. *)
LEMMA ServeCounts ==
    ASSUME TypesKept, NEW p \in Procs, NEW ok \in BOOLEAN, Serve(p, ok)
    PROVE  /\ spawned' \in [SubIds -> Nat] /\ failed' \in [SubIds -> Nat]
           /\ covered' \in [SubIds -> SUBSET Nat] /\ used' \in [fails : Nat, crashes : Nat]
           /\ used'.crashes = used.crashes
  <1>1. used' \in [fails : Nat, crashes : Nat] /\ used'.crashes = used.crashes
    <2>1. used \in [fails : Nat, crashes : Nat] /\ (used' = used \/ used' = [used EXCEPT !.fails = @ + 1])
      BY DEF TypesKept, Serve, Failing
    <2> QED BY <2>1, Uses
  <1>2. procs[p].sub.cursor \in Nat /\ Len(log) \in Nat /\ procs[p].id \in SubIds
    <2>1. procs[p].sub \in Subscription /\ procs[p].id \in SubIds
      BY ServeStep
    <2>2. Len(log) \in Nat
      BY DEF TypesKept
    <2> QED BY <2>1, <2>2 DEF Subscription
  <1>3. procs[p].sub.cursor + 1 .. Len(log) \in SUBSET Nat
    BY <1>2
  <1>4. covered' \in [SubIds -> SUBSET Nat]
    BY <1>2, <1>3 DEF TypesKept, Serve
  <1>5. spawned' \in [SubIds -> Nat] /\ failed' \in [SubIds -> Nat]
    <2>1. /\ spawned' = spawned \/ spawned' = [spawned EXCEPT ![procs[p].id] = @ + 1]
          /\ failed' = failed \/ failed' = [failed EXCEPT ![procs[p].id] = @ + 1]
      BY DEF Serve
    <2>2. spawned \in [SubIds -> Nat] /\ failed \in [SubIds -> Nat]
      BY DEF TypesKept
    <2>3. [spawned EXCEPT ![procs[p].id] = @ + 1] \in [SubIds -> Nat]
      BY <1>2, <2>2, OneMore
    <2>4. [failed EXCEPT ![procs[p].id] = @ + 1] \in [SubIds -> Nat]
      BY <1>2, <2>2, OneMore
    <2> QED BY <2>1, <2>2, <2>3, <2>4
  <1> QED BY <1>1, <1>4, <1>5

(* Every step keeps the types. *)
LEMMA TypesStep == TypesKept /\ [Next]_vars => TypesKept'
  <1> SUFFICES ASSUME TypesKept, [Next]_vars PROVE TypesKept'
    OBVIOUS
  <1>0. CASE UNCHANGED vars
    BY <1>0 DEF TypesKept, vars
  <1>1. ASSUME NEW p \in Procs, ReadFile(p) PROVE TypesKept'
    <2>1. procs' \in [Procs -> Party] /\ \A q \in Procs : Equipped(q, procs'[q])
      BY <1>1, ReadStep, PartyTypes
    <2> QED BY <1>1, <2>1 DEF ReadFile, TypesKept, ghosts
  <1>2. ASSUME NEW p \in Procs, WriteFile(p) PROVE TypesKept'
    <2>1. procs' \in [Procs -> Party] /\ \A q \in Procs : Equipped(q, procs'[q])
      BY <1>2, WriteStep, PartyTypes
    <2>2. file' \in File
      BY <1>2, WriteStep, MadeTypes DEF TypesKept
    <2> QED BY <1>2, <2>1, <2>2 DEF WriteFile, TypesKept, ghosts
  <1>3. ASSUME NEW p \in Procs, NextSub(p) PROVE TypesKept'
    <2>1. procs' \in [Procs -> Party] /\ \A q \in Procs : Equipped(q, procs'[q])
      BY <1>3, NextStep, PartyTypes
    <2> QED BY <1>3, <2>1 DEF NextSub, TypesKept, ghosts
  <1>4. ASSUME NEW p \in Procs, NEW ok \in BOOLEAN, Serve(p, ok) PROVE TypesKept'
    <2>1. procs' \in [Procs -> Party] /\ \A q \in Procs : Equipped(q, procs'[q])
      BY <1>4, ServeStep, PartyTypes
    <2> QED BY <1>4, <2>1, ServeCounts DEF Serve, TypesKept
  <1>5. ASSUME NEW p \in Procs, NEW ok \in BOOLEAN, deliverOne(p, ok) PROVE TypesKept'
    <2>1. procs' \in [Procs -> Party] /\ \A q \in Procs : Equipped(q, procs'[q])
      BY <1>5, DeliverStep, PartyTypes
    <2>2. procs[p].id \in SubIds /\ procs[p].seen \in TRIGGER_STATUSES /\ procs[p].seen \in Statuses
      BY <1>5, DeliverStep, Names
    <2>3. /\ told' \in [SubIds -> [TRIGGER_STATUSES -> Nat]] /\ tried' \in [SubIds -> SUBSET Statuses]
          /\ used' \in [fails : Nat, crashes : Nat]
      <3>1. used \in [fails : Nat, crashes : Nat] /\ (used' = used \/ used' = [used EXCEPT !.fails = @ + 1])
        BY <1>5 DEF TypesKept, deliverOne, Failing
      <3>2. tried' \in [SubIds -> SUBSET Statuses]
        BY <1>5, <2>2 DEF deliverOne, TypesKept
      <3>3. told[procs[p].id] \in [TRIGGER_STATUSES -> Nat]
        BY <2>2 DEF TypesKept
      <3> DEFINE n == [told[procs[p].id] EXCEPT ![procs[p].seen] = @ + 1]
      <3>4. n \in [TRIGGER_STATUSES -> Nat]
        BY <2>2, <3>3, OneMore
      <3>5. told' = told \/ told' = [told EXCEPT ![procs[p].id] = n]
        BY <1>5 DEF deliverOne
      <3> HIDE DEF n
      <3>6. told' \in [SubIds -> [TRIGGER_STATUSES -> Nat]]
        BY <3>4, <3>5 DEF TypesKept
      <3> QED BY <3>1, <3>2, <3>6, Uses
    <2> QED BY <1>5, <2>1, <2>3 DEF deliverOne, TypesKept
  <1>6. ASSUME NEW c \in Chats, Transition(c) PROVE TypesKept'
    <2>1. procs' \in [Procs -> Party] /\ \A q \in Procs : Equipped(q, procs'[q])
      BY <1>6, TransitionStep, PartyTypes DEF TypesKept
    <2>2. status' \in Statuses /\ log' \in Seq(Statuses)
      BY <1>6, TransitionStep
    <2> QED BY <1>6, <2>1, <2>2 DEF Transition, TypesKept, ghosts
  <1>7. CASE deliverAllCallbacksSafely
    <2>1. procs' \in [Procs -> Party] /\ \A q \in Procs : Equipped(q, procs'[q])
      BY <1>7, CallbackStep, PartyTypes
    <2> QED BY <1>7, <2>1 DEF deliverAllCallbacksSafely, Begin, TypesKept, ghosts
  <1>8. CASE retryPendingDeliveries
    <2>1. procs' \in [Procs -> Party] /\ \A q \in Procs : Equipped(q, procs'[q])
      BY <1>8, PollStep, PartyTypes
    <2> QED BY <1>8, <2>1 DEF retryPendingDeliveries, Begin, TypesKept, ghosts
  <1>9. ASSUME NEW s \in SubIds, CoolDown(s) PROVE TypesKept'
    <2>1. file[s] \in Subscription
      BY <1>9 DEF CoolDown, TypesKept, File
    <2>2. [file[s] EXCEPT !.recent = FALSE] \in Subscription
      BY <2>1 DEF Subscription
    <2>3. file' \in File
      BY <1>9, <2>2 DEF CoolDown, TypesKept, File
    <2> QED BY <1>9, <2>3 DEF CoolDown, TypesKept, ghosts
  <1>10. ASSUME NEW s \in SubIds, aofTaskSubscribe(s) \/ aofTaskUnsubscribe(s) PROVE TypesKept'
    <2>1. procs' \in [Procs -> Party] /\ \A q \in Procs : Equipped(q, procs'[q])
      BY <1>10, UserStep, PartyTypes
    <2> QED BY <1>10, <2>1 DEF aofTaskSubscribe, aofTaskUnsubscribe, UserChange, TypesKept, ghosts
  <1>11. CASE replayUnnotifiedTerminals
    <2>1. procs' \in [Procs -> Party] /\ \A q \in Procs : Equipped(q, procs'[q])
      BY <1>11, ReplayStep, PartyTypes
    <2> QED BY <1>11, <2>1 DEF replayUnnotifiedTerminals, TypesKept, ghosts
  <1>12. CASE Attach
    BY <1>12 DEF Attach, TypesKept, ghosts
  <1>13. CASE Crash
    <2>1. used' \in [fails : Nat, crashes : Nat]
      BY <1>13, Uses DEF Crash, TypesKept
    <2> QED BY <1>13, <2>1, CrashParties DEF Crash, TypesKept, ghosts
  <1> QED BY <1>0, <1>1, <1>2, <1>3, <1>4, <1>5, <1>6, <1>7, <1>8, <1>9, <1>10, <1>11, <1>12, <1>13, Actions

(* ------------------------------ Claims are true ---------------------------- *)

(* What has happened stays. *)
Grow == /\ Len(log) <= Len(log')
        /\ \A s \in SubIds : covered[s] \subseteq covered'[s] /\ tried[s] \subseteq tried'[s]

(* What was once claimed truly stays true: the log and the record grow. *)
LEMMA Growth ==
    ASSUME TypesKept, Grow, TypesKept'
    PROVE  /\ \A s \in SubIds, x \in Subscription : Backed(s, x) => Backed(s, x)'
           /\ \A s \in SubIds, c \in Changes : BackedChange(s, c) => BackedChange(s, c)'
           /\ \A f \in File : BackedFile(f) => BackedFile(f)'
  <1>1. Len(log) \in Nat /\ Len(log') \in Nat /\ Len(log) <= Len(log')
    BY DEF TypesKept, Grow
  <1>2. ASSUME NEW s \in SubIds, NEW x \in Subscription, Backed(s, x) PROVE Backed(s, x)'
    <2>1. x.cursor \in Nat
      BY DEF Subscription
    <2>2. covered[s] \subseteq covered'[s] /\ tried[s] \subseteq tried'[s]
      BY DEF Grow
    <2> QED BY <1>1, <1>2, <2>1, <2>2 DEF Backed
  <1>3. ASSUME NEW s \in SubIds, NEW c \in Changes, BackedChange(s, c) PROVE BackedChange(s, c)'
    <2>1. c.op \in {"cursor", "closed"} => c.cursor \in Nat
      BY DEF Changes
    <2>2. covered[s] \subseteq covered'[s] /\ tried[s] \subseteq tried'[s]
      BY DEF Grow
    <2> QED BY <1>1, <1>3, <2>1, <2>2 DEF BackedChange
  <1>4. ASSUME NEW f \in File, BackedFile(f) PROVE BackedFile(f)'
    <2>1. \A s \in SubIds : f[s] # Absent => f[s] \in Subscription
      BY DEF File
    <2> QED BY <1>2, <1>4, <2>1 DEF BackedFile
  <1> QED BY <1>2, <1>3, <1>4

(* ... also for what a party holds. *)
LEMMA PartyGrowth ==
    ASSUME TypesKept, Grow, TypesKept', NEW p \in Procs, NEW k \in Party, Equipped(p, k), BackedParty(p, k)
    PROVE  BackedParty(p, k)'
  <1>1. ASSUME NEW e \in k.queue PROVE Backed(e[1], e[2])'
    <2>1. e[1] \in SubIds /\ e[2] \in Subscription /\ Backed(e[1], e[2])
      BY DEF Party, BackedParty
    <2> QED BY <2>1, Growth
  <1>2. ASSUME p \in Callers, k.pc \in {"deliver", "read", "write"} PROVE Backed(k.id, k.sub)'
    <2>1. k.id \in SubIds /\ k.sub \in Subscription /\ Backed(k.id, k.sub)
      BY <1>2 DEF Equipped, BackedParty
    <2> QED BY <2>1, Growth
  <1>3. ASSUME k.pc = "write" PROVE BackedFile(k.snap)'
    <2>1. k.snap \in File /\ BackedFile(k.snap)
      BY <1>3 DEF Equipped, BackedParty
    <2> QED BY <2>1, Growth
  <1>4. ASSUME NEW i \in DOMAIN k.todo PROVE BackedChange(k.id, k.todo[i])'
    <2>1. k.todo[i] \in Changes /\ k.todo # <<>> /\ k.todo \in Seq(Changes)
      BY DEF Party
    <2>2. k.pc \in {"read", "write"}
      BY <2>1 DEF Equipped, Party, Idle
    <2>3. k.id \in SubIds /\ BackedChange(k.id, k.todo[i])
      BY <2>2 DEF Equipped, BackedParty
    <2> QED BY <2>1, <2>3, Growth
  <1> QED BY <1>1, <1>2, <1>3, <1>4 DEF BackedParty

(* A step of one party, and a step of none. *)
LEMMA ClaimsOfOne ==
    ASSUME TypesKept, TypesKept', ClaimsTrue, Grow, NEW p, NEW k, OneParty(p, k), BackedParty(p, k)',
           file' = file \/ BackedFile(file)'
    PROVE  ClaimsTrue'
  <1>1. BackedFile(file)'
    <2>1. CASE file' = file
      <3>1. file \in File /\ BackedFile(file)
        BY DEF TypesKept, ClaimsTrue
      <3> QED BY <2>1, <3>1, Growth DEF BackedFile, Backed
    <2> QED BY <2>1
  <1>2. ASSUME NEW q \in Procs PROVE BackedParty(q, procs[q])'
    <2>1. CASE q = p
      <3>1. procs'[q] = k
        BY <2>1 DEF OneParty, TypesKept
      <3> QED BY <2>1, <3>1 DEF BackedParty, BackedFile, Backed, BackedChange
    <2>2. CASE q # p
      <3>1. procs'[q] = procs[q]
        BY <2>2 DEF OneParty, TypesKept
      <3>2. procs[q] \in Party /\ Equipped(q, procs[q]) /\ BackedParty(q, procs[q])
        BY DEF TypesKept, ClaimsTrue
      <3> QED BY <3>1, <3>2, PartyGrowth DEF BackedParty, BackedFile, Backed, BackedChange
    <2> QED BY <2>1, <2>2
  <1> QED BY <1>1, <1>2 DEF ClaimsTrue

(* At the start nothing is claimed. *)
LEMMA InitClaims == Init => ClaimsTrue
  <1> SUFFICES ASSUME Init PROVE ClaimsTrue
    OBVIOUS
  <1>1. BackedFile(file)
    <2> SUFFICES ASSUME NEW s \in SubIds, file[s] # Absent PROVE Backed(s, file[s])
      BY DEF BackedFile
    <2>1. file[s] \in Fresh
      BY SubscriptionsFresh DEF Init
    <2>2. file[s].cursor = 0 /\ file[s].notified = {}
      BY <2>1 DEF Fresh, create
    <2> QED BY <2>2 DEF Backed, Init
  <1>2. \A p \in Procs : BackedParty(p, procs[p])
    BY IdleParty DEF Init
  <1> QED BY <1>1, <1>2 DEF ClaimsTrue

(* A party that starts claims what the file claims. *)
LEMMA StartedClaims ==
    ASSUME TypesKept, ClaimsTrue, NEW p \in Procs, NEW list, NEW phase, NEW seen,
           \A e \in list : e[1] \in SubIds /\ e[2] = file[e[1]] /\ e[2] # Absent
    PROVE  BackedParty(p, Started(list, phase, seen))
  <1> DEFINE k == Started(list, phase, seen)
  <1>1. k.pc = "next" /\ k.queue = list /\ k.todo = <<>>
    BY DEF Started, Idle
  <1> HIDE DEF k
  <1>2. \A e \in list : Backed(e[1], e[2])
    BY DEF ClaimsTrue, BackedFile
  <1>3. BackedParty(p, k)
    BY <1>1, <1>2 DEF BackedParty
  <1> QED BY <1>3 DEF k

(* A copy of the file claims what the file claims. *)
LEMMA ReadClaims ==
    ASSUME TypesKept, TypesKept', ClaimsTrue, NEW p \in Procs, ReadFile(p)
    PROVE  ClaimsTrue'
  <1>1. PICK k : k = [procs[p] EXCEPT !.pc = "write", !.snap = file, !.at = status]
    OBVIOUS
  <1>2. OneParty(p, k)
    BY <1>1, ReadStep
  <1>3. procs[p] \in Party /\ procs[p].pc = "read" /\ BackedParty(p, procs[p]) /\ BackedFile(file)
    BY DEF TypesKept, ReadFile, ClaimsTrue
  <1>4. /\ k.pc = "write" /\ k.queue = procs[p].queue /\ k.id = procs[p].id /\ k.sub = procs[p].sub
        /\ k.snap = file /\ k.todo = procs[p].todo
    BY <1>1, <1>3 DEF Party
  <1>5. BackedParty(p, k)
    BY <1>3, <1>4 DEF BackedParty
  <1>6. Grow /\ file' = file
    BY DEF ReadFile, ghosts, Grow, TypesKept
  <1>7. k \in Party /\ Equipped(p, k)
    BY <1>2 DEF OneParty
  <1>8. BackedParty(p, k)'
    BY <1>5, <1>6, <1>7, PartyGrowth
  <1> QED BY <1>2, <1>6, <1>8, ClaimsOfOne

(* A change adds to the file only what has happened. *)
LEMMA WriteClaims ==
    ASSUME TypesKept, TypesKept', ClaimsTrue, NEW p \in Procs, WriteFile(p)
    PROVE  ClaimsTrue'
  <1>1. PICK q \in Seq(Changes) :
             /\ OneParty(p, Proceed(p, q))
             /\ \/ Made(p) /\ q = Tail(procs[p].todo)
                \/ file' = file /\ (q = Tail(procs[p].todo) \/ q = AfterError(p))
    BY WriteStep
  <1>2. PICK k : k = Proceed(p, q)
    OBVIOUS
  <1>3. procs[p] \in Party /\ Equipped(p, procs[p]) /\ procs[p].pc = "write" /\ BackedParty(p, procs[p])
    BY DEF TypesKept, WriteFile, ClaimsTrue
  <1>4. /\ k.pc \in {"next", "read"} /\ k.queue = procs[p].queue /\ k.id = procs[p].id /\ k.sub = procs[p].sub
        /\ k.todo = q
    <2> DEFINE pc == IF q = <<>> THEN "next" ELSE "read"
    <2>1. k = [procs[p] EXCEPT !.todo = q, !.pc = pc]
      BY <1>1, <1>2, <1>3, ProceedKept
    <2>2. pc \in {"next", "read"}
      OBVIOUS
    <2> HIDE DEF pc
    <2> QED BY <1>3, <2>1, <2>2 DEF Party
  <1>5. \A i \in DOMAIN q : BackedChange(procs[p].id, q[i])
    <2>1. CASE q = Tail(procs[p].todo)
      <3>1. procs[p].todo \in Seq(Changes) /\ procs[p].todo # <<>>
        BY <1>3 DEF Party, Equipped
      <3>2. \A i \in DOMAIN q : i + 1 \in DOMAIN procs[p].todo /\ q[i] = procs[p].todo[i + 1]
        BY <2>1, <3>1, TailOf
      <3> QED BY <1>3, <3>2 DEF BackedParty
    <2>2. CASE q = AfterError(p)
      BY <1>3, <2>2, ErrorTyped DEF BackedChange
    <2> QED BY <1>1, <2>1, <2>2
  <1>6. BackedParty(p, k)
    BY <1>3, <1>4, <1>5 DEF BackedParty
  <1>7. Grow
    BY DEF WriteFile, ghosts, Grow, TypesKept
  <1>8. k \in Party /\ Equipped(p, k) /\ OneParty(p, k)
    BY <1>1, <1>2 DEF OneParty
  <1>9. BackedParty(p, k)'
    BY <1>6, <1>7, <1>8, PartyGrowth
  <1>10. CASE Made(p)
    <2> DEFINE c == Head(procs[p].todo)  s == procs[p].id  old == procs[p].snap[s]
    <2>1. /\ procs[p].snap \in File /\ s \in SubIds /\ c \in Changes
          /\ old \in Subscription \cup {Absent} /\ (old # Absent \/ c.op = "create")
          /\ file' = [procs[p].snap EXCEPT ![s] = Change(old, c)]
      BY <1>10, MadeTypes
    <2>2. BackedFile(procs[p].snap) /\ BackedChange(s, c)
      <3>1. procs[p].todo \in Seq(Changes) /\ procs[p].todo # <<>>
        BY <1>3 DEF Party, Equipped
      <3>2. c = procs[p].todo[1] /\ 1 \in DOMAIN procs[p].todo
        BY <3>1, TailOf
      <3> QED BY <1>3, <3>2 DEF BackedParty
    <2> HIDE DEF c, s, old
    <2>3. Backed(s, Change(old, c))
      <3>1. CASE c.op = "create"
        <4>1. c.sub = create("completion", "agent-callback")
          BY <2>1, <3>1 DEF Changes
        <4>2. Change(old, c) = create("completion", "agent-callback")
          BY <3>1, <4>1 DEF Change
        <4>3. create("completion", "agent-callback").cursor = 0 /\ create("completion", "agent-callback").notified = {}
          BY DEF create
        <4> QED BY <4>2, <4>3 DEF Backed, TypesKept
      <3>2. CASE c.op # "create"
        <4>1. old \in Subscription /\ old = procs[p].snap[s] /\ old # Absent
          BY <2>1, <3>2 DEF old
        <4>2. Backed(s, old)
          BY <2>1, <2>2, <4>1 DEF BackedFile
        <4>3. /\ Change(old, c).cursor = IF c.op \in {"cursor", "closed"} THEN c.cursor ELSE old.cursor
              /\ Change(old, c).notified = IF c.op = "markStatusNotified" THEN old.notified \cup {c.status} ELSE old.notified
          BY <2>1, <3>2, <4>1, ChangeOf
        <4> QED BY <2>2, <4>2, <4>3 DEF Backed, BackedChange
      <3> QED BY <3>1, <3>2
    <2>4. PICK f : f = file'
      OBVIOUS
    <2>5. BackedFile(f)
      <3> SUFFICES ASSUME NEW t \in SubIds, f[t] # Absent PROVE Backed(t, f[t])
        BY DEF BackedFile
      <3>1. CASE t = s
        BY <2>1, <2>3, <2>4, <3>1 DEF File
      <3>2. CASE t # s
        <4>1. f[t] = procs[p].snap[t]
          BY <2>1, <2>4, <3>2 DEF File
        <4> QED BY <2>2, <4>1 DEF BackedFile
      <3> QED BY <3>1, <3>2
    <2>6. f \in File
      BY <2>4 DEF TypesKept
    <2>7. BackedFile(f)'
      BY <1>7, <2>5, <2>6, Growth
    <2>8. BackedFile(file)'
      BY <2>4, <2>7 DEF BackedFile, Backed
    <2> QED BY <1>7, <1>8, <1>9, <2>8, ClaimsOfOne
  <1>11. CASE file' = file
    BY <1>7, <1>8, <1>9, <1>11, ClaimsOfOne
  <1> QED BY <1>1, <1>10, <1>11

(* A listed subscription claims what it claimed in the list. *)
LEMMA NextClaims ==
    ASSUME TypesKept, TypesKept', ClaimsTrue, NEW p \in Procs, NextSub(p)
    PROVE  ClaimsTrue'
  <1>1. procs[p] \in Party /\ Equipped(p, procs[p]) /\ procs[p].pc = "next" /\ BackedParty(p, procs[p])
    BY DEF TypesKept, NextSub, ClaimsTrue
  <1>2. Grow /\ file' = file
    <2>1. UNCHANGED <<log, file, covered, tried>>
      BY DEF NextSub, ghosts
    <2> QED BY <2>1 DEF Grow, TypesKept
  <1>3. ASSUME NEW k, OneParty(p, k), BackedParty(p, k) PROVE ClaimsTrue'
    <2>1. k \in Party /\ Equipped(p, k)
      BY <1>3 DEF OneParty
    <2>2. BackedParty(p, k)'
      BY <1>2, <1>3, <2>1, PartyGrowth
    <2> QED BY <1>2, <1>3, <2>2, ClaimsOfOne
  <1>4. ASSUME NEW e \in procs[p].queue,
               OneParty(p, [procs[p] EXCEPT !.pc = "deliver", !.id = e[1], !.sub = e[2], !.queue = @ \ {e}])
        PROVE  ClaimsTrue'
    <2>1. PICK k : k = [procs[p] EXCEPT !.pc = "deliver", !.id = e[1], !.sub = e[2], !.queue = @ \ {e}]
      OBVIOUS
    <2>2. /\ k.pc = "deliver" /\ k.id = e[1] /\ k.sub = e[2] /\ k.queue = procs[p].queue \ {e}
          /\ k.todo = <<>>
      BY <1>1, <2>1 DEF Party, Equipped
    <2>3. BackedParty(p, k)
      BY <1>1, <2>2 DEF BackedParty
    <2> QED BY <1>3, <1>4, <2>1, <2>3
  <1>5. ASSUME OneParty(p, Started(allSubs, "last", "none")) PROVE ClaimsTrue'
    <2>1. \A e \in allSubs : e[1] \in SubIds /\ e[2] = file[e[1]] /\ e[2] # Absent
      BY Listing DEF allSubs
    <2>2. BackedParty(p, Started(allSubs, "last", "none"))
      BY <2>1, StartedClaims
    <2>3. PICK k : k = Started(allSubs, "last", "none")
      OBVIOUS
    <2> QED BY <1>3, <1>5, <2>2, <2>3
  <1>6. ASSUME OneParty(p, Idle) PROVE ClaimsTrue'
    BY <1>3, <1>6, IdleParty
  <1> QED BY <1>4, <1>5, <1>6, NextStep

(* A party that has served one subscription claims what it notes. *)
LEMMA ServedClaims ==
    ASSUME TypesKept, TypesKept', ClaimsTrue, Grow, file' = file, NEW p \in Procs, NEW k, OneParty(p, k),
           procs[p].pc = "deliver", k.pc \in {"next", "read"}, k.queue = procs[p].queue, k.id = procs[p].id,
           k.sub = procs[p].sub, \A i \in DOMAIN k.todo : BackedChange(k.id, k.todo[i])'
    PROVE  ClaimsTrue'
  <1>1. PICK o : o = procs[p]
    OBVIOUS
  <1>2. o \in Party /\ Equipped(p, o) /\ BackedParty(p, o)
    BY <1>1 DEF TypesKept, ClaimsTrue
  <1>3. BackedParty(p, o)'
    BY <1>2, PartyGrowth
  <1>4. k.queue = o.queue /\ k.id = o.id /\ k.sub = o.sub /\ o.pc = "deliver"
    BY <1>1
  <1>5. BackedParty(p, k)'
    BY <1>3, <1>4 DEF BackedParty
  <1> QED BY <1>5, ClaimsOfOne

(* What a party keeps when it goes on with a list of changes. *)
LEMMA ProceedFields ==
    ASSUME TypesKept, NEW p \in Procs, NEW q \in Seq(Changes), procs[p].pc \in {"deliver", "write"}
    PROVE  LET k == Proceed(p, q)  o == procs[p] IN
           /\ k.pc \in {"next", "read"} /\ (k.pc = "next" <=> q = <<>>) /\ k.todo = q
           /\ k.queue = o.queue /\ k.id = o.id /\ k.sub = o.sub /\ k.seen = o.seen /\ k.phase = o.phase
  <1> DEFINE pc == IF q = <<>> THEN "next" ELSE "read"
  <1>1. procs[p] \in Party /\ Proceed(p, q) = [procs[p] EXCEPT !.todo = q, !.pc = pc]
    BY ProceedKept DEF TypesKept
  <1>2. pc \in {"next", "read"} /\ (pc = "next" <=> q = <<>>)
    OBVIOUS
  <1> HIDE DEF pc
  <1> QED BY <1>1, <1>2 DEF Party

(* The cursor that a callback is to write is covered by the callback. *)
LEMMA ServeClaims ==
    ASSUME TypesKept, TypesKept', ClaimsTrue, NEW p \in Procs, NEW ok \in BOOLEAN, Serve(p, ok)
    PROVE  ClaimsTrue'
  <1>1. PICK x, s : x = procs[p].sub /\ s = procs[p].id
    OBVIOUS
  <1>2. /\ procs[p] \in Party /\ procs[p].pc = "deliver" /\ BackedParty(p, procs[p])
        /\ p \in Callers /\ x \in Subscription /\ s \in SubIds
    BY <1>1, ServeStep DEF TypesKept, ClaimsTrue
  <1>3. UNCHANGED <<log, file, tried>> /\ \A t \in SubIds : covered[t] \subseteq covered'[t]
    <2>1. UNCHANGED <<log, file, tried>>
      BY DEF Serve
    <2>2. covered' = covered \/ covered' = [covered EXCEPT ![s] = @ \cup (x.cursor + 1 .. Len(log))]
      BY <1>1 DEF Serve
    <2>3. covered \in [SubIds -> SUBSET Nat] /\ s \in SubIds
      BY <1>2 DEF TypesKept
    <2>4. \A t \in SubIds : covered[t] \subseteq covered'[t]
      BY <2>2, <2>3
    <2> QED BY <2>1, <2>4
  <1>4. Grow /\ file' = file
    BY <1>3 DEF Grow, TypesKept
  <1>5. Backed(s, x)
    BY <1>1, <1>2 DEF BackedParty
  <1>6. ASSUME NEW q \in Seq(Changes), OneParty(p, Proceed(p, q)), \A i \in DOMAIN q : BackedChange(s, q[i])'
        PROVE  ClaimsTrue'
    <2>1. PICK k : k = Proceed(p, q)
      OBVIOUS
    <2>2. k.pc \in {"next", "read"} /\ k.queue = procs[p].queue /\ k.id = s /\ k.sub = procs[p].sub /\ k.todo = q
      BY <1>1, <1>2, <2>1, ProceedFields
    <2>3. \A i \in DOMAIN k.todo : BackedChange(k.id, k.todo[i])'
      BY <1>6, <2>2
    <2> QED BY <1>1, <1>2, <1>4, <1>6, <2>1, <2>2, <2>3, ServedClaims
  <1>7. \A c \in Changes : c.op \in {"delivered", "failure", "failed"} => BackedChange(s, c)'
    BY DEF BackedChange
  <1>8. <<handleDeliveryFailure(x)>> \in Seq(Changes) /\ handleDeliveryFailure(x) \in Changes
        /\ handleDeliveryFailure(x).op \in {"failure", "failed"}
    BY <1>2, FailureTyped DEF Changes
  <1>9. PICK f : f = handleDeliveryFailure(x)
    OBVIOUS
  <1>10. ASSUME x.gran = "completion", OneParty(p, Proceed(p, deliverSingleCallback(x, ok))) PROVE ClaimsTrue'
    <2>1. PICK q : q = deliverSingleCallback(x, ok)
      OBVIOUS
    <2>2. PICK c : c = [op |-> "delivered"]
      OBVIOUS
    <2>3. q = <<c>> \/ q = <<f>>
      BY <1>9, <2>1, <2>2 DEF deliverSingleCallback
    <2>4. c \in Changes /\ c.op = "delivered" /\ f \in Changes /\ f.op \in {"failure", "failed"}
      BY <1>8, <1>9, <2>2 DEF Changes
    <2>5. q \in Seq(Changes) /\ \A i \in DOMAIN q : q[i] \in Changes /\ q[i].op \in {"delivered", "failure", "failed"}
      <3>1. CASE q = <<c>>
        BY <2>4, <3>1, OneItem
      <3>2. CASE q = <<f>>
        BY <2>4, <3>2, OneItem
      <3> QED BY <2>3, <3>1, <3>2
    <2>6. \A i \in DOMAIN q : BackedChange(s, q[i])'
      BY <1>7, <2>5
    <2> QED BY <1>6, <1>10, <2>1, <2>5, <2>6
  <1>11. ASSUME OneParty(p, [procs[p] EXCEPT !.pc = "next"]) PROVE ClaimsTrue'
    <2>1. PICK k : k = [procs[p] EXCEPT !.pc = "next"]
      OBVIOUS
    <2>2. /\ k.pc \in {"next", "read"} /\ k.queue = procs[p].queue /\ k.id = procs[p].id /\ k.sub = procs[p].sub
          /\ k.todo = <<>>
      BY <1>2, <2>1 DEF Party, TypesKept, Equipped
    <2>3. \A i \in DOMAIN k.todo : BackedChange(k.id, k.todo[i])'
      BY <2>2
    <2> QED BY <1>2, <1>4, <1>11, <2>1, <2>2, <2>3, ServedClaims
  <1>12. ASSUME x.gran = "all", OneParty(p, Proceed(p, deliverAllGranularity(p, x, ok))) PROVE ClaimsTrue'
    <2>1. PICK q : q = deliverAllGranularity(p, x, ok)
      OBVIOUS
    <2>2. CASE ok /\ x.cursor # Len(log)
      <3>1. PICK c : c = [op |-> IF p = "poll" THEN "closed" ELSE "cursor", cursor |-> Len(log)]
        OBVIOUS
      <3>2. q = <<c>>
        BY <2>1, <2>2, <3>1 DEF deliverAllGranularity
      <3>3. c \in Changes /\ c.cursor = Len(log) /\ c.op \in {"cursor", "closed"}
        BY <3>1 DEF Changes, TypesKept
      <3>4. covered'[s] = covered[s] \cup (x.cursor + 1 .. Len(log))
        BY <1>1, <1>2, <1>12, <2>2 DEF Serve, TypesKept
      <3>5. x.cursor \in Nat /\ Len(log) \in Nat /\ 1 .. x.cursor \subseteq covered[s]
        BY <1>2, <1>5 DEF Subscription, TypesKept, Backed
      <3>6. 1 .. c.cursor \subseteq covered'[s]
        BY <3>3, <3>4, <3>5
      <3>7. c.cursor <= Len(log')
        BY <1>3, <3>3, <3>5
      <3>8. BackedChange(s, c)'
        BY <3>3, <3>6, <3>7 DEF BackedChange
      <3>9. q \in Seq(Changes) /\ \A i \in DOMAIN q : BackedChange(s, q[i])'
        BY <3>2, <3>3, <3>8
      <3> QED BY <1>6, <1>12, <2>1, <3>9
    <2>3. CASE ~ok
      <3>1. q = <<>> \/ q = <<f>>
        BY <1>9, <2>1, <2>3 DEF deliverAllGranularity
      <3>2. q \in Seq(Changes) /\ \A i \in DOMAIN q : q[i] \in Changes /\ q[i].op \in {"delivered", "failure", "failed"}
        <4>1. CASE q = <<>>
          BY <4>1
        <4>2. CASE q = <<f>>
          BY <1>8, <1>9, <4>2, OneItem
        <4> QED BY <3>1, <4>1, <4>2
      <3>3. \A i \in DOMAIN q : BackedChange(s, q[i])'
        BY <1>7, <3>2
      <3> QED BY <1>6, <1>12, <2>1, <3>2, <3>3
    <2>4. CASE x.cursor = Len(log)
      <3>1. procs' = [procs EXCEPT ![p].pc = "next"]
        BY <1>1, <1>12, <2>4 DEF Serve
      <3>2. [procs[p] EXCEPT !.pc = "next"] \in Party /\ Equipped(p, [procs[p] EXCEPT !.pc = "next"])
        BY <1>1, <1>2 DEF Party, Equipped, TypesKept
      <3>3. OneParty(p, [procs[p] EXCEPT !.pc = "next"])
        BY <3>1, <3>2 DEF OneParty, TypesKept
      <3> QED BY <1>11, <3>3
    <2> QED BY <2>2, <2>3, <2>4
  <1> QED BY <1>1, <1>10, <1>11, <1>12, ServeStep

(* The status to be marked is one that was tried. *)
LEMMA DeliverClaims ==
    ASSUME TypesKept, TypesKept', ClaimsTrue, NEW p \in Procs, NEW ok \in BOOLEAN, deliverOne(p, ok)
    PROVE  ClaimsTrue'
  <1>1. PICK s, to : s = procs[p].id /\ to = procs[p].seen
    OBVIOUS
  <1>2. procs[p].pc = "deliver" /\ s \in SubIds /\ to \in TRIGGER_STATUSES
    BY <1>1, DeliverStep
  <1>3. UNCHANGED <<log, file, covered>> /\ tried' = [tried EXCEPT ![s] = @ \cup {to}]
    BY <1>1 DEF deliverOne
  <1>4. Grow /\ file' = file /\ to \in tried'[s]
    BY <1>2, <1>3 DEF Grow, TypesKept
  <1>5. PICK q : q = IF ok THEN Noted(to) ELSE <<[op |-> "failedAttempt"]>>
    OBVIOUS
  <1>6. q \in Seq(Changes) /\ OneParty(p, Proceed(p, q))
    BY <1>1, <1>2, <1>5, NotedTyped, DeliverStep
  <1>7. \A i \in DOMAIN q : /\ q[i].op \in {"appendAttempt", "markStatusNotified", "delivered", "failedAttempt"}
                            /\ q[i].op = "markStatusNotified" => q[i].status = to
    BY <1>5 DEF Noted
  <1>8. \A i \in DOMAIN q : BackedChange(s, q[i])'
    BY <1>4, <1>7 DEF BackedChange
  <1>9. PICK k : k = Proceed(p, q)
    OBVIOUS
  <1>10. k.pc \in {"next", "read"} /\ k.queue = procs[p].queue /\ k.id = s /\ k.sub = procs[p].sub /\ k.todo = q
    BY <1>1, <1>2, <1>6, <1>9, ProceedFields
  <1>11. \A i \in DOMAIN k.todo : BackedChange(k.id, k.todo[i])'
    BY <1>8, <1>10
  <1> QED BY <1>1, <1>2, <1>4, <1>6, <1>9, <1>10, <1>11, ServedClaims

(* A step after which one party has just started. *)
LEMMA BeginClaims ==
    ASSUME TypesKept, TypesKept', ClaimsTrue, Grow, file' = file, NEW p \in Procs,
           NEW list, NEW phase, NEW seen, OneParty(p, Started(list, phase, seen)),
           \A e \in list : e[1] \in SubIds /\ e[2] = file[e[1]] /\ e[2] # Absent
    PROVE  ClaimsTrue'
  <1>1. PICK k : k = Started(list, phase, seen)
    OBVIOUS
  <1>2. BackedParty(p, k) /\ OneParty(p, k)
    BY <1>1, StartedClaims
  <1>3. BackedParty(p, k)'
    BY <1>2, PartyGrowth DEF OneParty
  <1> QED BY <1>2, <1>3, ClaimsOfOne

(* Every step keeps the claims true. *)
LEMMA ClaimsStep == TypesKept /\ TypesKept' /\ ClaimsTrue /\ [Next]_vars => ClaimsTrue'
  <1> SUFFICES ASSUME TypesKept, TypesKept', ClaimsTrue, [Next]_vars PROVE ClaimsTrue'
    OBVIOUS
  <1>a. ASSUME UNCHANGED <<log, covered, tried>> PROVE Grow
    BY <1>a DEF Grow, TypesKept
  <1>0. CASE UNCHANGED vars
    BY <1>0 DEF vars, ClaimsTrue, BackedFile, BackedParty, Backed, BackedChange
  <1>1. ASSUME NEW p \in Procs, ReadFile(p) \/ WriteFile(p) \/ NextSub(p) PROVE ClaimsTrue'
    BY <1>1, ReadClaims, WriteClaims, NextClaims
  <1>2. ASSUME NEW p \in Procs, NEW ok \in BOOLEAN, Serve(p, ok) \/ deliverOne(p, ok) PROVE ClaimsTrue'
    BY <1>2, ServeClaims, DeliverClaims
  <1>3. ASSUME NEW c \in Chats, Transition(c) PROVE ClaimsTrue'
    <2>1. PICK to \in Statuses :
             /\ Len(log') = Len(log) + 1
             /\ c \in Procs
             /\ \/ OneParty(c, Started(handleEvent(to), "last", to))
                \/ procs' = procs
      BY <1>3, TransitionStep
    <2>2. UNCHANGED <<file, covered, tried>>
      BY <1>3 DEF Transition, ghosts
    <2>3. Len(log) \in Nat
      BY DEF TypesKept
    <2>4. Grow
      BY <2>1, <2>2, <2>3 DEF Grow
    <2>5. CASE OneParty(c, Started(handleEvent(to), "last", to))
      BY <2>1, <2>2, <2>4, <2>5, ChatList, BeginClaims
    <2>6. CASE procs' = procs
      <3>1. procs[c] \in Party /\ Equipped(c, procs[c]) /\ BackedParty(c, procs[c]) /\ c \in Procs
        BY <2>1 DEF TypesKept, ClaimsTrue
      <3>2. PICK k : k = procs[c]
        OBVIOUS
      <3>3. BackedParty(c, k)' /\ OneParty(c, k)
        BY <2>4, <2>6, <3>1, <3>2, PartyGrowth DEF OneParty, TypesKept
      <3> QED BY <2>2, <2>4, <3>3, ClaimsOfOne
    <2> QED BY <2>1, <2>5, <2>6
  <1>4. CASE deliverAllCallbacksSafely
    <2>1. OneParty("callback", Started(completionSubs, "first", "none")) /\ "callback" \in Procs
      BY <1>4, CallbackStep, Names
    <2>2. \A e \in completionSubs : e[1] \in SubIds /\ e[2] = file[e[1]] /\ e[2] # Absent
      BY Listing DEF completionSubs
    <2>3. UNCHANGED <<log, file, covered, tried>>
      BY <1>4 DEF deliverAllCallbacksSafely, Begin, ghosts
    <2> QED BY <1>a, <2>1, <2>2, <2>3, BeginClaims
  <1>5. CASE retryPendingDeliveries
    <2>1. OneParty("poll", Started(retryCandidates, "last", "none")) /\ "poll" \in Procs
      BY <1>5, PollStep, Names
    <2>2. \A e \in retryCandidates : e[1] \in SubIds /\ e[2] = file[e[1]] /\ e[2] # Absent
      BY Listing DEF retryCandidates
    <2>3. UNCHANGED <<log, file, covered, tried>>
      BY <1>5 DEF retryPendingDeliveries, Begin, ghosts
    <2> QED BY <1>a, <2>1, <2>2, <2>3, BeginClaims
  <1>6. ASSUME NEW s \in SubIds, CoolDown(s) PROVE ClaimsTrue'
    <2>1. UNCHANGED <<log, procs, covered, tried>> /\ file[s] # Absent /\ file' = [file EXCEPT ![s].recent = FALSE]
      BY <1>6 DEF CoolDown, ghosts
    <2>2. file[s] \in Subscription /\ Backed(s, file[s])
      BY <2>1 DEF TypesKept, File, ClaimsTrue, BackedFile
    <2>3. /\ [file[s] EXCEPT !.recent = FALSE].cursor = file[s].cursor
          /\ [file[s] EXCEPT !.recent = FALSE].notified = file[s].notified
      BY <2>2 DEF Subscription
    <2>4. BackedFile(file)'
      <3> SUFFICES ASSUME NEW t \in SubIds, file'[t] # Absent PROVE Backed(t, file[t])'
        BY DEF BackedFile
      <3>1. file'[t] = IF t = s THEN [file[s] EXCEPT !.recent = FALSE] ELSE file[t]
        BY <2>1 DEF TypesKept, File
      <3>2. t # s => Backed(t, file[t])
        BY <3>1 DEF ClaimsTrue, BackedFile
      <3> QED BY <2>1, <2>2, <2>3, <3>1, <3>2 DEF Backed
    <2>5. \A p \in Procs : BackedParty(p, procs[p])'
      BY <2>1 DEF ClaimsTrue, BackedParty, BackedFile, Backed, BackedChange
    <2> QED BY <2>4, <2>5 DEF ClaimsTrue
  <1>7. ASSUME NEW s \in SubIds, aofTaskSubscribe(s) \/ aofTaskUnsubscribe(s) PROVE ClaimsTrue'
    <2>1. PICK c \in Changes :
             /\ OneParty("user", [Idle EXCEPT !.pc = "read", !.id = s, !.todo = <<c>>])
             /\ \/ c = [op |-> "create", sub |-> create("completion", "agent-callback")]
                \/ c = [op |-> "cancel"]
      BY <1>7, UserStep
    <2>2. PICK k : k = [Idle EXCEPT !.pc = "read", !.id = s, !.todo = <<c>>]
      OBVIOUS
    <2>3. k.pc = "read" /\ k.queue = {} /\ k.todo = <<c>>
      BY <2>2 DEF Idle
    <2>4. BackedParty("user", k)
      <3>1. c.op \in {"create", "cancel"}
        BY <2>1
      <3> QED BY <2>3, <3>1, Names DEF BackedParty, BackedChange
    <2>5. UNCHANGED <<log, file, covered, tried>>
      BY <1>7 DEF aofTaskSubscribe, aofTaskUnsubscribe, UserChange, ghosts
    <2>6. BackedParty("user", k)'
      BY <1>a, <2>1, <2>2, <2>4, <2>5, PartyGrowth, Names DEF OneParty
    <2> QED BY <1>a, <2>1, <2>2, <2>5, <2>6, ClaimsOfOne
  <1>8. CASE replayUnnotifiedTerminals
    <2>1. OneParty("replay", Started(replayList, "last", status)) /\ "replay" \in Procs
      BY <1>8, ReplayStep, Names
    <2>2. \A e \in replayList : e[1] \in SubIds /\ e[2] = file[e[1]] /\ e[2] # Absent
      BY ChatList DEF replayList
    <2>3. UNCHANGED <<log, file, covered, tried>>
      BY <1>8 DEF replayUnnotifiedTerminals, ghosts
    <2> QED BY <1>a, <2>1, <2>2, <2>3, BeginClaims
  <1>9. CASE Attach
    BY <1>9 DEF Attach, ghosts, ClaimsTrue, BackedFile, BackedParty, Backed, BackedChange
  <1>10. CASE Crash
    <2>1. UNCHANGED <<log, file, covered, tried>>
      BY <1>10 DEF Crash, ghosts
    <2>2. \A p \in Procs : BackedParty(p, procs[p])'
      <3>1. \A p \in Procs : procs'[p] = Idle
        BY <1>10, CrashParties
      <3> QED BY <3>1 DEF BackedParty, Idle
    <2> QED BY <2>1, <2>2 DEF ClaimsTrue, BackedFile, Backed
  <1> QED BY <1>0, <1>1, <1>2, <1>3, <1>4, <1>5, <1>6, <1>7, <1>8, <1>9, <1>10, Actions

(* ------------------------- Nobody is passed over --------------------------- *)

(* No transition between the replay's look and its end, and no crash while   *)
(* parties overlap.                                                          *)
BootsUndisturbed == \A c \in Setups : ~c.window /\ (c.overlap => c.crashes = 0)

(* Who was tried or is due stays so. *)
Lasting == \A s \in SubIds, st \in TERMINAL_STATUSES :
    st \in tried[s] \/ Due(s, st) => st \in tried'[s] \/ Due(s, st)'

(* An idle party has nothing to announce. *)
LEMMA NothingDue == \A s, st : ~DueBy(Idle, s, st)
  BY DEF DueBy, Idle

(* What is announced, or due, stays so. *)
LEMMA AnnouncedLasts ==
    ASSUME Lasting
    PROVE  \A f, st : Announced(f, st) => Announced(f, st)'
  <1> SUFFICES ASSUME NEW f, NEW st, Announced(f, st) PROVE Announced(f, st)'
    OBVIOUS
  <1>1. ASSUME st \in TERMINAL_STATUSES, NEW s \in SubIds, ChatActive(f, s)
        PROVE  st \in tried'[s] \/ Due(s, st)'
    BY <1>1 DEF Announced, Lasting
  <1> QED BY <1>1 DEF Announced, ChatActive

(* A party may drop what is due only by trying it. *)
LEMMA DuesLast ==
    ASSUME TypesKept, NEW p, NEW k, OneParty(p, k), \A s \in SubIds : tried[s] \subseteq tried'[s],
           \A s \in SubIds, st \in TERMINAL_STATUSES :
               DueBy(procs[p], s, st) => DueBy(k, s, st) \/ st \in tried'[s]
    PROVE  Lasting
  <1> SUFFICES ASSUME NEW s \in SubIds, NEW st \in TERMINAL_STATUSES, st \in tried[s] \/ Due(s, st)
               PROVE  st \in tried'[s] \/ Due(s, st)'
    BY DEF Lasting
  <1>1. CASE st \in tried[s]
    BY <1>1
  <1>2. CASE Due(s, st)
    <2>1. PICK q \in Senders : DueBy(procs[q], s, st)
      BY <1>2 DEF Due
    <2>2. q \in Procs
      BY Names
    <2>3. CASE q = p
      <3>1. procs'[q] = k
        BY <2>2, <2>3 DEF OneParty, TypesKept
      <3>2. CASE DueBy(k, s, st)
        BY <2>1, <3>1, <3>2 DEF Due, DueBy
      <3>3. CASE st \in tried'[s]
        BY <3>3
      <3> QED BY <2>1, <2>3, <3>2, <3>3
    <2>4. CASE q # p
      <3>1. procs'[q] = procs[q]
        BY <2>2, <2>4 DEF OneParty, TypesKept
      <3> QED BY <2>1, <3>1 DEF Due, DueBy
    <2> QED BY <2>3, <2>4
  <1> QED BY <1>1, <1>2

(* A step of one party while the notifier's state stays. *)
LEMMA AnnouncingOfOne ==
    ASSUME TypesKept, Announcing, Lasting, NEW p, NEW k, OneParty(p, k),
           UNCHANGED <<setup, attached, booting>>, k.pc = "write" => k.snap = file /\ k.at = status,
           attached \/ booting = "replay" => Announced(file, status)'
    PROVE  Announcing'
  <1>1. ASSUME attached \/ booting = "replay", NEW q \in Procs, procs'[q].pc = "write"
        PROVE  Announced(procs[q].snap, procs[q].at)'
    <2>1. CASE q = p
      <3>1. procs'[q] = k /\ k.snap = file /\ k.at = status
        BY <1>1, <2>1 DEF OneParty, TypesKept
      <3>2. PICK f, st : f = file /\ st = status
        OBVIOUS
      <3>3. Announced(f, st)'
        BY <1>1, <3>2, AnnouncedLasts DEF Announcing
      <3> QED BY <3>1, <3>2, <3>3 DEF Announced, ChatActive
    <2>2. CASE q # p
      <3>1. procs'[q] = procs[q] /\ procs[q].pc = "write"
        BY <1>1, <2>2 DEF OneParty, TypesKept
      <3>2. PICK f, st : f = procs[q].snap /\ st = procs[q].at
        OBVIOUS
      <3>3. Announced(f, st)'
        BY <1>1, <3>1, <3>2, AnnouncedLasts DEF Announcing
      <3> QED BY <3>1, <3>2, <3>3 DEF Announced, ChatActive
    <2> QED BY <2>1, <2>2
  <1> QED BY <1>1 DEF Announcing

(* ... and the file stays as well. *)
LEMMA AnnouncingSame ==
    ASSUME TypesKept, Announcing, NEW p, NEW k, OneParty(p, k), \A s \in SubIds : tried[s] \subseteq tried'[s],
           \A s \in SubIds, st \in TERMINAL_STATUSES :
               DueBy(procs[p], s, st) => DueBy(k, s, st) \/ st \in tried'[s],
           UNCHANGED <<setup, attached, booting, file, status>>, k.pc = "write" => k.snap = file /\ k.at = status
    PROVE  Announcing'
  <1>1. Lasting
    BY DuesLast
  <1>2. PICK f, st : f = file /\ st = status
    OBVIOUS
  <1>3. ASSUME attached \/ booting = "replay" PROVE Announced(file, status)'
    <2>1. Announced(f, st)'
      BY <1>1, <1>2, <1>3, AnnouncedLasts DEF Announcing
    <2> QED BY <1>2, <2>1 DEF Announced, ChatActive
  <1> QED BY <1>1, <1>3, AnnouncingOfOne

(* At the start the task is not finished. *)
LEMMA InitAnnouncing == Init => Announcing
  <1> SUFFICES ASSUME Init PROVE Announcing
    OBVIOUS
  <1>1. status \notin TERMINAL_STATUSES /\ \A p \in Procs : procs[p].pc = "idle"
    BY DEF Init, TERMINAL_STATUSES, Idle
  <1> QED BY <1>1 DEF Announcing, Announced, Init

(* No write makes a chat subscription active that was not. *)
LEMMA WriteAnnouncing ==
    ASSUME TypesKept, Announcing, NEW p \in Procs, WriteFile(p)
    PROVE  Announcing'
  <1>1. PICK q \in Seq(Changes) :
             /\ OneParty(p, Proceed(p, q))
             /\ Made(p) \/ file' = file
    BY WriteStep
  <1>2. PICK k : k = Proceed(p, q)
    OBVIOUS
  <1>3. procs[p].pc = "write" /\ UNCHANGED <<setup, status, attached, booting, tried>>
    BY DEF WriteFile, ghosts
  <1>4. k.pc \in {"next", "read"} /\ k.queue = procs[p].queue /\ k.seen = procs[p].seen
    BY <1>1, <1>2, <1>3, ProceedFields
  <1>5. \A s, st : DueBy(procs[p], s, st) => DueBy(k, s, st)
    BY <1>3, <1>4 DEF DueBy
  <1>6. OneParty(p, k) /\ \A s \in SubIds : tried[s] \subseteq tried'[s]
    BY <1>1, <1>2, <1>3
  <1>7. CASE file' = file
    BY <1>3, <1>4, <1>5, <1>6, <1>7, AnnouncingSame
  <1>8. CASE Made(p)
    <2>1. Lasting
      BY <1>5, <1>6, DuesLast
    <2>2. ASSUME attached \/ booting = "replay" PROVE Announced(file, status)'
      <3>1. PICK f, st, g : f = procs[p].snap /\ st = status /\ g = file'
        OBVIOUS
      <3> DEFINE c == Head(procs[p].todo)  i == procs[p].id  old == f[i]
      <3>2. /\ f \in File /\ i \in SubIds /\ c \in Changes /\ procs[p].at = st
            /\ old \in Subscription \cup {Absent} /\ (old # Absent \/ c.op = "create")
            /\ g = [f EXCEPT ![i] = Change(old, c)]
        BY <1>8, <3>1, MadeTypes
      <3>3. Announced(f, st)
        BY <1>3, <2>2, <3>1, <3>2 DEF Announcing
      <3>4. Announced(f, st)'
        BY <2>1, <3>3, AnnouncedLasts
      <3>5. ASSUME NEW t \in SubIds, ChatActive(g, t) PROVE ChatActive(f, t)
        <4>1. CASE t # i
          <5>1. g[t] = f[t]
            BY <3>2, <4>1 DEF File
          <5> QED BY <3>5, <5>1 DEF ChatActive
        <4>2. CASE t = i
          <5>1. g[t] = Change(old, c)
            BY <3>2, <4>2 DEF File
          <5>2. CASE c.op = "create"
            <6>1. Change(old, c) = create("completion", "agent-callback")
              BY <3>2, <5>2 DEF Change, Changes
            <6>2. create("completion", "agent-callback").kind = "agent-callback"
              BY DEF create
            <6> QED BY <3>5, <5>1, <6>1, <6>2 DEF ChatActive
          <5>3. CASE c.op # "create"
            <6>1. old \in Subscription /\ old # Absent
              BY <3>2, <5>3
            <6>2. /\ Change(old, c).kind = old.kind
                  /\ Change(old, c).status = CASE c.op = "cancel" -> "cancelled"
                           [] c.op \in {"delivered", "closed"} -> "delivered"
                           [] c.op = "failed" -> "failed"
                           [] OTHER -> old.status
              BY <3>2, <5>3, <6>1, ChangeOf
            <6>3. Change(old, c).status = "active" => old.status = "active"
              BY <6>2
            <6> QED BY <3>5, <4>2, <5>1, <6>1, <6>2, <6>3 DEF ChatActive
          <5> QED BY <5>2, <5>3
        <4> QED BY <4>1, <4>2
      <3>6. Announced(g, st)'
        BY <3>4, <3>5 DEF Announced, ChatActive
      <3>7. file' = g /\ status' = st
        BY <1>3, <3>1
      <3> QED BY <3>6, <3>7 DEF Announced, ChatActive
    <2> QED BY <1>3, <1>4, <1>6, <2>1, <2>2, AnnouncingOfOne
  <1> QED BY <1>1, <1>7, <1>8

(* A transition puts the subscriptions not yet told of the status on the list. *)
LEMMA TransitionAnnouncing ==
    ASSUME BootsUndisturbed, TypesKept, ClaimsTrue, Announcing, NEW c \in Chats, Transition(c)
    PROVE  Announcing'
  <1>1. PICK to \in Statuses :
             /\ status' = to /\ procs[c].pc = "idle" /\ (booting = "replay" => setup.window)
             /\ c \in Senders /\ c \in Procs
             /\ \/ attached /\ to \in TRIGGER_STATUSES /\ OneParty(c, Started(handleEvent(to), "last", to))
                \/ ~(attached /\ to \in TRIGGER_STATUSES) /\ procs' = procs
    BY TransitionStep
  <1>2. UNCHANGED <<setup, file, attached, booting, tried>>
    BY DEF Transition, ghosts
  <1>3. booting # "replay"
    BY <1>1 DEF BootsUndisturbed, TypesKept
  <1>4. procs[c] = Idle
    BY <1>1 DEF TypesKept, Equipped
  <1>5. CASE ~(attached /\ to \in TRIGGER_STATUSES) /\ procs' = procs
    <2>1. CASE ~attached
      BY <1>2, <1>3, <2>1 DEF Announcing
    <2>2. CASE attached
      <3>1. to \notin TERMINAL_STATUSES
        BY <1>5, <2>2, Names
      <3>2. Announced(file, status)'
        BY <1>1, <3>1 DEF Announced
      <3>3. \A p \in Procs : procs'[p].pc = "write" => Announced(procs[p].snap, procs[p].at)'
        BY <1>2, <1>5, <2>2 DEF Announcing, Announced, ChatActive, Due, DueBy
      <3> QED BY <1>2, <3>2, <3>3 DEF Announcing
    <2> QED BY <2>1, <2>2
  <1>6. CASE attached /\ to \in TRIGGER_STATUSES /\ OneParty(c, Started(handleEvent(to), "last", to))
    <2>1. PICK k : k = Started(handleEvent(to), "last", to)
      OBVIOUS
    <2>2. k.pc = "next" /\ k.queue = handleEvent(to) /\ k.seen = to
      BY <2>1 DEF Started, Idle
    <2>3. Lasting
      BY <1>2, <1>4, <1>6, <2>1, NothingDue, DuesLast
    <2>4. Announced(file, status)'
      <3> SUFFICES ASSUME to \in TERMINAL_STATUSES, NEW s \in SubIds, ChatActive(file, s)
                   PROVE  to \in tried'[s] \/ Due(s, to)'
        BY <1>1, <1>2 DEF Announced, ChatActive
      <3>1. CASE to \in file[s].notified
        BY <1>2, <3>1 DEF ClaimsTrue, BackedFile, Backed, ChatActive
      <3>2. CASE to \notin file[s].notified
        <4>1. <<s, file[s]>> \in handleEvent(to)
          BY <3>2, ChatList
        <4>2. procs'[c] = k
          BY <1>1, <1>6, <2>1 DEF OneParty, TypesKept
        <4>3. \E e \in k.queue : e[1] = s
          BY <2>2, <4>1
        <4> QED BY <1>1, <2>2, <4>2, <4>3 DEF Due, DueBy
      <3> QED BY <3>1, <3>2
    <2> QED BY <1>2, <1>6, <2>1, <2>2, <2>3, <2>4, AnnouncingOfOne
  <1> QED BY <1>1, <1>5, <1>6

(* So does the replay for the status it finds. *)
LEMMA ReplayAnnouncing ==
    ASSUME TypesKept, ClaimsTrue, Announcing, replayUnnotifiedTerminals
    PROVE  Announcing'
  <1>1. /\ Quiet /\ OneParty("replay", Started(replayList, "last", status)) /\ "replay" \in Senders
        /\ booting = "scan" /\ booting' = "replay" /\ UNCHANGED <<setup, status, file, attached, tried>>
    BY ReplayStep DEF replayUnnotifiedTerminals, ghosts
  <1>2. ~setup.overlap /\ \A p \in Procs : procs[p].pc = "idle"
    BY <1>1 DEF Announcing, Quiet
  <1>3. PICK k : k = Started(replayList, "last", status)
    OBVIOUS
  <1>4. k.pc = "next" /\ k.queue = replayList /\ k.seen = status
    BY <1>3 DEF Started, Idle
  <1>5. procs'["replay"] = k /\ \A p \in Procs : procs'[p].pc # "write"
    BY <1>1, <1>2, <1>3, <1>4 DEF OneParty, TypesKept
  <1>6. Announced(file, status)'
    <2> SUFFICES ASSUME status \in TERMINAL_STATUSES, NEW s \in SubIds, ChatActive(file, s)
                 PROVE  status \in tried'[s] \/ Due(s, status)'
      BY <1>1 DEF Announced, ChatActive
    <2>1. CASE status \in file[s].notified
      BY <1>1, <2>1 DEF ClaimsTrue, BackedFile, Backed, ChatActive
    <2>2. CASE status \notin file[s].notified
      <3>1. <<s, file[s]>> \in handleEvent(status) /\ replayList = handleEvent(status)
        BY <2>2, ChatList DEF replayList
      <3>2. \E e \in k.queue : e[1] = s
        BY <1>4, <3>1
      <3>3. DueBy(procs'["replay"], s, status')
        BY <1>1, <1>4, <1>5, <3>2 DEF DueBy
      <3> QED BY <1>1, <3>3 DEF Due, DueBy
    <2> QED BY <2>1, <2>2
  <1> QED BY <1>1, <1>2, <1>5, <1>6 DEF Announcing

(* Every step keeps finished tasks announced, or to be announced. *)
LEMMA AnnouncingStep ==
    ASSUME BootsUndisturbed PROVE TypesKept /\ ClaimsTrue /\ Announcing /\ [Next]_vars => Announcing'
  <1> SUFFICES ASSUME TypesKept, ClaimsTrue, Announcing, [Next]_vars PROVE Announcing'
    OBVIOUS
  <1>0. CASE UNCHANGED vars
    BY <1>0 DEF vars, Announcing, Announced, ChatActive, Due, DueBy
  <1>1. ASSUME NEW p \in Procs, ReadFile(p) PROVE Announcing'
    <2>1. PICK k : k = [procs[p] EXCEPT !.pc = "write", !.snap = file, !.at = status]
      OBVIOUS
    <2>2. procs[p] \in Party /\ procs[p].pc = "read"
      BY <1>1 DEF ReadFile, TypesKept
    <2>3. k.pc = "write" /\ k.snap = file /\ k.at = status /\ k.queue = procs[p].queue /\ k.seen = procs[p].seen
      BY <2>1, <2>2 DEF Party
    <2>4. \A s, st : DueBy(procs[p], s, st) => DueBy(k, s, st)
      BY <2>2, <2>3 DEF DueBy
    <2>5. UNCHANGED <<setup, attached, booting, file, status, tried>>
      BY <1>1 DEF ReadFile, ghosts
    <2> QED BY <1>1, <2>1, <2>3, <2>4, <2>5, ReadStep, AnnouncingSame
  <1>2. ASSUME NEW p \in Procs, WriteFile(p) PROVE Announcing'
    BY <1>2, WriteAnnouncing
  <1>3. ASSUME NEW p \in Procs, NextSub(p) PROVE Announcing'
    <2>1. procs[p] \in Party /\ Equipped(p, procs[p]) /\ procs[p].pc = "next"
      BY <1>3 DEF TypesKept, NextSub
    <2>2. UNCHANGED <<setup, attached, booting, file, status, tried>>
      BY <1>3 DEF NextSub, ghosts
    <2>3. ASSUME NEW e \in procs[p].queue,
                 OneParty(p, [procs[p] EXCEPT !.pc = "deliver", !.id = e[1], !.sub = e[2], !.queue = @ \ {e}])
          PROVE  Announcing'
      <3>1. PICK k : k = [procs[p] EXCEPT !.pc = "deliver", !.id = e[1], !.sub = e[2], !.queue = @ \ {e}]
        OBVIOUS
      <3>2. k.pc = "deliver" /\ k.id = e[1] /\ k.queue = procs[p].queue \ {e} /\ k.seen = procs[p].seen
        BY <2>1, <3>1 DEF Party
      <3>3. \A s, st : DueBy(procs[p], s, st) => DueBy(k, s, st)
        BY <2>1, <3>2 DEF DueBy
      <3> QED BY <2>2, <2>3, <3>1, <3>2, <3>3, AnnouncingSame
    <2>4. ASSUME NEW k, OneParty(p, k), k.pc # "write", procs[p].queue = {} PROVE Announcing'
      <3>1. \A s, st : ~DueBy(procs[p], s, st)
        BY <2>1, <2>4 DEF DueBy
      <3> QED BY <2>2, <2>4, <3>1, AnnouncingSame
    <2>5. Idle.pc # "write" /\ Started(allSubs, "last", "none").pc # "write"
      BY DEF Idle, Started
    <2> QED BY <1>3, <2>3, <2>4, <2>5, NextStep
  <1>4. ASSUME NEW p \in Procs, NEW ok \in BOOLEAN, Serve(p, ok) PROVE Announcing'
    <2>1. p \in Callers /\ p \notin Senders
      BY <1>4, ServeStep, Names
    <2>2. PICK k : OneParty(p, k) /\ k.pc # "write"
      <3>1. procs[p] \in Party /\ procs[p].pc = "deliver"
        BY <1>4, ServeStep DEF TypesKept
      <3>2. [procs[p] EXCEPT !.pc = "next"].pc # "write"
        BY <3>1 DEF Party
      <3>3. \A q : Proceed(p, q).pc # "write"
        BY <3>1 DEF Proceed, Party
      <3> QED BY <1>4, <3>2, <3>3, ServeStep
    <2>3. UNCHANGED <<setup, attached, booting, file, status, tried>>
      BY <1>4 DEF Serve
    <2>4. \A q \in Senders : procs'[q] = procs[q]
      BY <2>1, <2>2, Names DEF OneParty, TypesKept
    <2>5. Lasting
      BY <2>3, <2>4 DEF Lasting, Due, DueBy
    <2>6. PICK f, st : f = file /\ st = status
      OBVIOUS
    <2>7. ASSUME attached \/ booting = "replay" PROVE Announced(file, status)'
      <3>1. Announced(f, st)'
        BY <2>5, <2>6, <2>7, AnnouncedLasts DEF Announcing
      <3> QED BY <2>3, <2>6, <3>1 DEF Announced, ChatActive
    <2> QED BY <2>2, <2>3, <2>5, <2>7, AnnouncingOfOne
  <1>5. ASSUME NEW p \in Procs, NEW ok \in BOOLEAN, deliverOne(p, ok) PROVE Announcing'
    <2>1. PICK q : q = IF ok THEN Noted(procs[p].seen) ELSE <<[op |-> "failedAttempt"]>>
      OBVIOUS
    <2>2. PICK k : k = Proceed(p, q)
      OBVIOUS
    <2>3. /\ procs[p].pc = "deliver" /\ procs[p].id \in SubIds /\ procs[p].seen \in TRIGGER_STATUSES
          /\ OneParty(p, k) /\ q \in Seq(Changes)
      BY <1>5, <2>1, <2>2, DeliverStep, NotedTyped
    <2>4. k.pc # "write" /\ k.queue = procs[p].queue /\ k.seen = procs[p].seen
      BY <2>2, <2>3, ProceedFields
    <2>5. UNCHANGED <<setup, attached, booting, file, status>> /\ tried' = [tried EXCEPT ![procs[p].id] = @ \cup {procs[p].seen}]
      BY <1>5 DEF deliverOne
    <2>6. /\ \A s \in SubIds : tried[s] \subseteq tried'[s]
          /\ procs[p].seen \in tried'[procs[p].id]
      BY <2>3, <2>5 DEF TypesKept
    <2>7. \A s \in SubIds, st \in TERMINAL_STATUSES :
             DueBy(procs[p], s, st) => DueBy(k, s, st) \/ st \in tried'[s]
      BY <2>4, <2>6 DEF DueBy
    <2> QED BY <2>3, <2>4, <2>5, <2>6, <2>7, AnnouncingSame
  <1>6. ASSUME NEW c \in Chats, Transition(c) PROVE Announcing'
    BY <1>6, TransitionAnnouncing
  <1>7. ASSUME NEW p, NEW k, procs[p].pc = "idle", OneParty(p, k), k.pc # "write",
               UNCHANGED <<setup, attached, booting, file, status, tried>>
        PROVE  Announcing'
    <2>1. procs[p] = Idle
      BY <1>7 DEF OneParty, TypesKept, Equipped
    <2> QED BY <1>7, <2>1, NothingDue, AnnouncingSame
  <1>8. CASE deliverAllCallbacksSafely \/ retryPendingDeliveries
    <2>1. \A list, phase : Started(list, phase, "none").pc # "write"
      BY DEF Started, Idle
    <2>2. UNCHANGED <<setup, attached, booting, file, status, tried>>
      BY <1>8 DEF deliverAllCallbacksSafely, retryPendingDeliveries, Begin, ghosts
    <2> QED BY <1>7, <1>8, <2>1, <2>2, CallbackStep, PollStep
  <1>9. ASSUME NEW s \in SubIds, CoolDown(s) PROVE Announcing'
    <2>1. UNCHANGED <<setup, status, procs, attached, booting, tried>> /\ file[s] # Absent
          /\ file' = [file EXCEPT ![s].recent = FALSE]
      BY <1>9 DEF CoolDown, ghosts
    <2>2. file[s] \in Subscription /\ [file[s] EXCEPT !.recent = FALSE].status = file[s].status
          /\ [file[s] EXCEPT !.recent = FALSE].kind = file[s].kind
      BY <2>1 DEF TypesKept, File, Subscription
    <2>3. \A t \in SubIds : ChatActive(file, t)' => ChatActive(file, t)
      BY <2>1, <2>2 DEF ChatActive, TypesKept, File
    <2>4. \A t, st : Due(t, st)' <=> Due(t, st)
      BY <2>1 DEF Due, DueBy
    <2>5. Announced(file, status) => Announced(file, status)'
      BY <2>1, <2>3, <2>4 DEF Announced
    <2>6. \A p \in Procs : Announced(procs[p].snap, procs[p].at) => Announced(procs[p].snap, procs[p].at)'
      BY <2>1, <2>4 DEF Announced, ChatActive
    <2> QED BY <2>1, <2>5, <2>6 DEF Announcing
  <1>10. ASSUME NEW s \in SubIds, aofTaskSubscribe(s) \/ aofTaskUnsubscribe(s) PROVE Announcing'
    <2>1. PICK c \in Changes :
             /\ procs["user"].pc = "idle"
             /\ OneParty("user", [Idle EXCEPT !.pc = "read", !.id = s, !.todo = <<c>>])
      BY <1>10, UserStep
    <2>2. [Idle EXCEPT !.pc = "read", !.id = s, !.todo = <<c>>].pc # "write"
      BY DEF Idle
    <2>3. UNCHANGED <<setup, attached, booting, file, status, tried>>
      BY <1>10 DEF aofTaskSubscribe, aofTaskUnsubscribe, UserChange, ghosts
    <2> QED BY <1>7, <2>1, <2>2, <2>3
  <1>11. CASE replayUnnotifiedTerminals
    BY <1>11, ReplayAnnouncing
  <1>12. CASE Attach
    BY <1>12 DEF Attach, ghosts, Announcing, Announced, ChatActive, Due, DueBy
  <1>13. CASE Crash
    <2>1. ~setup.overlap /\ setup' = setup
      BY <1>13, SetupFields DEF Crash, BootsUndisturbed, TypesKept
    <2> QED BY <1>13, <2>1 DEF Crash, Announcing
  <1> QED BY <1>0, <1>1, <1>2, <1>3, <1>4, <1>5, <1>6, <1>8, <1>9, <1>10, <1>11, <1>12, <1>13, Actions

(* ------------------------------ One at a time ------------------------------ *)

(* Only p is at work. *)
OthersIdle(p) == \A q \in Procs : q # p => procs[q].pc = "idle"

(* Nothing is in hand of an idle party. *)
LEMMA IdleInHand == \A p, r : Current(p, Idle) /\ ~Noting(Idle, r) /\ Idle.pc = "idle"
  BY DEF Current, Noting, Idle

(* Without overlap, whoever works is alone. *)
LEMMA WorkAlone ==
    ASSUME Solo, NEW p \in Procs, procs[p].pc # "idle"
    PROVE  OthersIdle(p)
  BY DEF Solo, OthersIdle

(* Without overlap, a party starts when all are idle. *)
LEMMA QuietAlone ==
    ASSUME Alone, Quiet
    PROVE  \A p \in Procs : OthersIdle(p) /\ procs[p].pc = "idle"
  BY DEF Alone, Quiet, OthersIdle

(* What is being noted, if only p is at work. *)
LEMMA NotedByOne ==
    ASSUME TypesKept, NEW p \in Procs, OthersIdle(p), NEW s
    PROVE  /\ Delivering(s) <=> DeliveringBy(p, procs[p], s)
           /\ GivingUp(s) <=> GivingUpBy(p, procs[p], s)
           /\ \A st : Marking(s, st) <=> MarkingBy(p, procs[p], s, st)
  BY DEF OthersIdle, Delivering, DeliveringBy, GivingUp, GivingUpBy, Marking, MarkingBy, Noting

(* After a step of one party, alone. *)
LEMMA AfterOne ==
    ASSUME TypesKept, NEW p, NEW k, OthersIdle(p), OneParty(p, k)
    PROVE  /\ OthersIdle(p)' /\ procs'[p] = k /\ p \in Procs
           /\ \A q \in Procs : q # p => procs'[q] = Idle
  BY DEF OthersIdle, OneParty, TypesKept, Equipped, Idle

(* ... and what is being noted then. *)
LEMMA NotedAfterOne ==
    ASSUME TypesKept, NEW p, NEW k, OthersIdle(p), OneParty(p, k), NEW s
    PROVE  /\ Delivering(s)' <=> DeliveringBy(p, k, s)
           /\ GivingUp(s)' <=> GivingUpBy(p, k, s)
           /\ \A st : Marking(s, st)' <=> MarkingBy(p, k, s, st)
  <1>1. procs'[p] = k /\ p \in Procs /\ \A q \in Procs : q # p => procs'[q] = Idle
    BY AfterOne
  <1>2. \A q \in Procs : q # p => ~Noting(procs'[q], s)
    BY <1>1, IdleInHand
  <1> QED BY <1>1, <1>2 DEF Delivering, DeliveringBy, GivingUp, GivingUpBy, Marking, MarkingBy, Noting

(* ... and what is in hand. *)
LEMMA InHandAfterOne ==
    ASSUME TypesKept, NEW p, NEW k, OthersIdle(p), OneParty(p, k), Current(p, k)',
           k.pc \in {"read", "write"} => Errand(p, k, file'[k.id]),
           k.pc = "write" => k.snap = file' /\ k.at = status'
    PROVE  Solo' /\ InHand'
  <1>1. procs'[p] = k /\ p \in Procs /\ \A q \in Procs : q # p => procs'[q] = Idle
    BY AfterOne
  <1>2. Solo'
    BY <1>1, IdleInHand DEF Solo
  <1>3. ASSUME NEW q \in Procs
        PROVE  /\ Current(q, procs[q])'
               /\ procs'[q].pc \in {"read", "write"} => Errand(q, procs'[q], file'[procs'[q].id])
    <2>1. CASE q = p
      BY <1>1, <2>1 DEF Current
    <2>2. CASE q # p
      BY <1>1, <2>2 DEF Current, Idle
    <2> QED BY <2>1, <2>2
  <1> QED BY <1>2, <1>3 DEF InHand

(* A step that notes nothing and has nothing to note. *)
LEMMA CountedSame ==
    ASSUME TypesKept, Counted, NEW p, NEW k, OthersIdle(p), OneParty(p, k),
           UNCHANGED <<file, spawned, failed, told>>, used'.crashes = used.crashes,
           \A s \in SubIds : /\ DeliveringBy(p, procs[p], s) <=> DeliveringBy(p, k, s)
                             /\ GivingUpBy(p, procs[p], s) <=> GivingUpBy(p, k, s)
                             /\ \A st : MarkingBy(p, procs[p], s, st) <=> MarkingBy(p, k, s, st)
    PROVE  Counted'
  <1> SUFFICES ASSUME NEW s \in SubIds PROVE CountedFor(s)'
    BY DEF Counted
  <1>1. p \in Procs
    BY DEF OneParty
  <1>2. /\ Delivering(s)' <=> Delivering(s)
        /\ GivingUp(s)' <=> GivingUp(s)
        /\ \A st : Marking(s, st)' <=> Marking(s, st)
    BY <1>1, NotedByOne, NotedAfterOne
  <1>3. CountedFor(s)
    BY DEF Counted
  <1> QED BY <1>2, <1>3 DEF CountedFor, SpawnsFit, FailuresFit, MessagesFit, One

(* Nothing is being noted by a party that is elsewhere, or by a user. *)
LEMMA NothingNoted ==
    ASSUME NEW p, NEW k, k.pc \notin {"read", "write"} \/ p = "user"
    PROVE  \A s : /\ ~DeliveringBy(p, k, s) /\ ~GivingUpBy(p, k, s)
                 /\ \A st : ~MarkingBy(p, k, s, st)
  BY Names DEF DeliveringBy, GivingUpBy, MarkingBy, Noting

(* Without overlap, a read copies the file as it stays until the write. *)
LEMMA ReadAlone ==
    ASSUME TypesKept, Solo, InHand, Counted, NEW p \in Procs, ReadFile(p)
    PROVE  Solo' /\ InHand' /\ Counted'
  <1>1. PICK k : k = [procs[p] EXCEPT !.pc = "write", !.snap = file, !.at = status]
    OBVIOUS
  <1>2. procs[p] \in Party /\ procs[p].pc = "read" /\ OthersIdle(p) /\ OneParty(p, k)
    BY <1>1, ReadStep, WorkAlone DEF ReadFile, TypesKept
  <1>3. /\ k.pc = "write" /\ k.snap = file /\ k.at = status /\ k.queue = procs[p].queue
        /\ k.seen = procs[p].seen /\ k.todo = procs[p].todo /\ k.id = procs[p].id
    BY <1>1, <1>2 DEF Party
  <1>4. UNCHANGED <<file, status, spawned, failed, told, used>>
    BY DEF ReadFile, ghosts
  <1>5. Current(p, k)' /\ Errand(p, k, file'[k.id])
    <2>1. Current(p, k)'
      BY <1>2, <1>3, <1>4 DEF InHand, Current, Suits
    <2>2. Errand(p, procs[p], file[procs[p].id])
      BY <1>2 DEF InHand
    <2>3. Errand(p, k, file'[k.id])
      BY <1>3, <1>4, <2>2 DEF Errand
    <2> QED BY <2>1, <2>3
  <1>6. Solo' /\ InHand'
    BY <1>2, <1>3, <1>4, <1>5, InHandAfterOne
  <1>7. \A s \in SubIds : /\ DeliveringBy(p, procs[p], s) <=> DeliveringBy(p, k, s)
                          /\ GivingUpBy(p, procs[p], s) <=> GivingUpBy(p, k, s)
                          /\ \A st : MarkingBy(p, procs[p], s, st) <=> MarkingBy(p, k, s, st)
    BY <1>2, <1>3 DEF DeliveringBy, GivingUpBy, MarkingBy, Noting
  <1>8. Counted'
    BY <1>2, <1>4, <1>7, CountedSame
  <1> QED BY <1>6, <1>8

(* A party starts, with subscriptions that suit it. *)
LEMMA StartAlone ==
    ASSUME TypesKept, Counted, NEW p \in Procs, OthersIdle(p), procs[p].pc \in {"idle", "next"},
           NEW list, NEW phase, NEW seen, OneParty(p, Started(list, phase, seen)),
           UNCHANGED <<file, spawned, failed, told>>, used'.crashes = used.crashes,
           \A e \in list : /\ e[2] = file[e[1]] /\ e[2] # Absent /\ e[2].status = "active"
                           /\ p \in Senders => e[2].kind = "openclaw-chat" /\ seen \notin e[2].notified
                           /\ p \notin Senders => p \in Callers /\ e[2].kind = "agent-callback"
    PROVE  Solo' /\ InHand' /\ Counted'
  <1>1. PICK k : k = Started(list, phase, seen)
    OBVIOUS
  <1>2. k.pc = "next" /\ k.queue = list /\ k.seen = seen
    BY <1>1 DEF Started, Idle
  <1>3. Current(p, k)'
    BY <1>2 DEF Current, Suits
  <1>4. Solo' /\ InHand'
    BY <1>1, <1>2, <1>3, InHandAfterOne
  <1>5. Counted'
    <2>1. OneParty(p, k) /\ k.pc \notin {"read", "write"} /\ procs[p].pc \notin {"read", "write"}
      BY <1>1, <1>2
    <2>2. \A s : /\ ~DeliveringBy(p, k, s) /\ ~GivingUpBy(p, k, s)
                 /\ \A st : ~MarkingBy(p, k, s, st)
      BY <2>1, NothingNoted
    <2>3. \A s : /\ ~DeliveringBy(p, procs[p], s) /\ ~GivingUpBy(p, procs[p], s)
                 /\ \A st : ~MarkingBy(p, procs[p], s, st)
      BY <2>1, NothingNoted
    <2> QED BY <2>1, <2>2, <2>3, CountedSame
  <1> QED BY <1>4, <1>5

(* Without overlap, the next subscription is as it was listed. *)
LEMMA NextAlone ==
    ASSUME TypesKept, Solo, InHand, Counted, NEW p \in Procs, NextSub(p)
    PROVE  Solo' /\ InHand' /\ Counted'
  <1>1. procs[p] \in Party /\ procs[p].pc = "next" /\ OthersIdle(p) /\ Current(p, procs[p])
    BY WorkAlone DEF NextSub, TypesKept, InHand
  <1>2. UNCHANGED <<file, status, spawned, failed, told, used>>
    BY DEF NextSub, ghosts
  <1>3. ASSUME NEW k, OneParty(p, k), k.pc \notin {"read", "write"}, Current(p, k)'
        PROVE  Solo' /\ InHand' /\ Counted'
    <2>1. Solo' /\ InHand'
      BY <1>1, <1>3, InHandAfterOne
    <2>2. \A s : /\ ~DeliveringBy(p, k, s) /\ ~GivingUpBy(p, k, s)
                 /\ \A st : ~MarkingBy(p, k, s, st)
      BY <1>3, NothingNoted
    <2>3. \A s : /\ ~DeliveringBy(p, procs[p], s) /\ ~GivingUpBy(p, procs[p], s)
                 /\ \A st : ~MarkingBy(p, procs[p], s, st)
      BY <1>1, NothingNoted
    <2>4. Counted'
      BY <1>1, <1>2, <1>3, <2>2, <2>3, CountedSame
    <2> QED BY <2>1, <2>4
  <1>4. ASSUME NEW e \in procs[p].queue,
               OneParty(p, [procs[p] EXCEPT !.pc = "deliver", !.id = e[1], !.sub = e[2], !.queue = @ \ {e}])
        PROVE  Solo' /\ InHand' /\ Counted'
    <2>1. PICK k : k = [procs[p] EXCEPT !.pc = "deliver", !.id = e[1], !.sub = e[2], !.queue = @ \ {e}]
      OBVIOUS
    <2>2. /\ k.pc = "deliver" /\ k.id = e[1] /\ k.sub = e[2] /\ k.queue = procs[p].queue \ {e}
          /\ k.seen = procs[p].seen
      BY <1>1, <2>1 DEF Party
    <2>3. \A d \in procs[p].queue : d[2] = file[d[1]] /\ Suits(p, k, d[2]) /\ d = <<d[1], d[2]>>
      BY <1>1, <2>2 DEF Current, Suits, Party
    <2>4. \A d \in k.queue : d[1] # k.id
      BY <2>2, <2>3
    <2>5. Current(p, k)'
      BY <1>2, <2>2, <2>3, <2>4 DEF Current
    <2> QED BY <1>3, <1>4, <2>1, <2>2, <2>5
  <1>5. ASSUME p = "callback", OneParty(p, Started(allSubs, "last", "none"))
        PROVE  Solo' /\ InHand' /\ Counted'
    <2>1. \A e \in allSubs : /\ e[2] = file[e[1]] /\ e[2] # Absent /\ e[2].status = "active"
                             /\ e[2].kind = "agent-callback"
      <3> DEFINE ids == {s \in Active(file) : file[s].gran = "all" /\ resolveDeliveryKind(file[s]) = "agent-callback"}
      <3>1. ids \in SUBSET Active(file) /\ allSubs = Listed(ids)
        BY DEF allSubs
      <3>2. \A s \in ids : file[s].kind = "agent-callback"
        BY DEF resolveDeliveryKind
      <3> HIDE DEF ids
      <3> QED BY <3>1, <3>2, Listing
    <2>2. p \in Callers /\ p \notin Senders
      BY <1>5, Names
    <2> QED BY <1>1, <1>2, <1>5, <2>1, <2>2, StartAlone
  <1>6. ASSUME OneParty(p, Idle) PROVE Solo' /\ InHand' /\ Counted'
    <2>1. PICK k : k = Idle
      OBVIOUS
    <2>2. Current(p, k)' /\ k.pc = "idle"
      BY <2>1 DEF Current, Idle
    <2> QED BY <1>3, <1>6, <2>1, <2>2
  <1> QED BY <1>4, <1>5, <1>6, NextStep

(* A step of one party that notes something about its subscription only. *)
LEMMA CountedAtOne ==
    ASSUME TypesKept, Counted, NEW p, NEW k, OthersIdle(p), OneParty(p, k),
           NEW s \in SubIds, k.id = s, procs[p].id = s, used'.crashes = used.crashes,
           \A t \in SubIds : t # s => /\ file'[t] = file[t] /\ spawned'[t] = spawned[t]
                                      /\ failed'[t] = failed[t] /\ told'[t] = told[t],
           SpawnsFit(file'[s], spawned'[s], used.crashes, DeliveringBy(p, k, s)),
           FailuresFit(file'[s], failed'[s], used.crashes, GivingUpBy(p, k, s)),
           \A st \in TRIGGER_STATUSES :
               MessagesFit(file'[s], told'[s][st], used.crashes, st, MarkingBy(p, k, s, st))
    PROVE  Counted'
  <1>1. p \in Procs
    BY DEF OneParty
  <1>2. ASSUME NEW t \in SubIds, t # s PROVE CountedFor(t)'
    <2>1. /\ ~Delivering(t) /\ ~Delivering(t)' /\ ~GivingUp(t) /\ ~GivingUp(t)'
          /\ \A st : ~Marking(t, st) /\ ~Marking(t, st)'
      <3>1. ~Noting(procs[p], t) /\ ~Noting(k, t)
        BY <1>2 DEF Noting
      <3> QED BY <1>1, <3>1, NotedByOne, NotedAfterOne DEF DeliveringBy, GivingUpBy, MarkingBy
    <2>2. CountedFor(t)
      BY DEF Counted
    <2> QED BY <1>2, <2>1, <2>2 DEF CountedFor, SpawnsFit, FailuresFit, MessagesFit, One
  <1>3. CountedFor(s)'
    <2>1. /\ Delivering(s)' <=> DeliveringBy(p, k, s)
          /\ GivingUp(s)' <=> GivingUpBy(p, k, s)
          /\ \A st : Marking(s, st)' <=> MarkingBy(p, k, s, st)
      BY NotedAfterOne
    <2> QED BY <2>1 DEF CountedFor, SpawnsFit, FailuresFit, MessagesFit, One
  <1> QED BY <1>2, <1>3 DEF Counted

(* What fits one subscription, if only p is at work. *)
LEMMA FitsOne ==
    ASSUME TypesKept, Counted, NEW p \in Procs, OthersIdle(p), NEW s \in SubIds
    PROVE  /\ SpawnsFit(file[s], spawned[s], used.crashes, DeliveringBy(p, procs[p], s))
           /\ FailuresFit(file[s], failed[s], used.crashes, GivingUpBy(p, procs[p], s))
           /\ \A st \in TRIGGER_STATUSES :
                  MessagesFit(file[s], told[s][st], used.crashes, st, MarkingBy(p, procs[p], s, st))
           /\ spawned[s] \in Nat /\ failed[s] \in Nat /\ used.crashes \in Nat
           /\ \A st \in TRIGGER_STATUSES : told[s][st] \in Nat
  <1>1. CountedFor(s)
    BY DEF Counted
  <1>2. /\ Delivering(s) <=> DeliveringBy(p, procs[p], s)
        /\ GivingUp(s) <=> GivingUpBy(p, procs[p], s)
        /\ \A st : Marking(s, st) <=> MarkingBy(p, procs[p], s, st)
    BY NotedByOne
  <1>3. /\ spawned[s] \in Nat /\ failed[s] \in Nat /\ used.crashes \in Nat
        /\ \A st \in TRIGGER_STATUSES : told[s][st] \in Nat
    BY DEF TypesKept
  <1> QED BY <1>1, <1>2, <1>3 DEF CountedFor, SpawnsFit, FailuresFit, MessagesFit, One

(* After a delivery the party goes on with q. *)
LEMMA GoneOn ==
    ASSUME TypesKept, InHand, NEW p \in Procs, OthersIdle(p), NEW q \in Seq(Changes), procs[p].pc = "deliver",
           NEW k, k = Proceed(p, q), OneParty(p, k), file' = file,
           q # <<>> => Errand(p, k, file[k.id])
    PROVE  Solo' /\ InHand'
  <1>1. /\ k.pc \in {"next", "read"} /\ (k.pc = "next" <=> q = <<>>) /\ k.todo = q
        /\ k.queue = procs[p].queue /\ k.id = procs[p].id /\ k.seen = procs[p].seen
    BY ProceedFields
  <1>2. Current(p, procs[p])
    BY DEF InHand
  <1>3. Current(p, k)'
    BY <1>1, <1>2 DEF Current, Suits
  <1> QED BY <1>1, <1>3, InHandAfterOne

(* A callback is counted, and is then to be noted. *)
LEMMA ServeAlone ==
    ASSUME TypesKept, Solo, InHand, Counted, NEW p \in Procs, NEW ok \in BOOLEAN, Serve(p, ok)
    PROVE  Solo' /\ InHand' /\ Counted'
  <1>1. PICK r, s : r = procs[p].sub /\ s = procs[p].id
    OBVIOUS
  <1>2. /\ p \in Callers /\ p \notin Senders /\ procs[p].pc = "deliver" /\ r \in Subscription
        /\ s \in SubIds /\ OthersIdle(p)
    BY <1>1, ServeStep, Names, WorkAlone
  <1>3. r = file[s] /\ r # Absent /\ r.status = "active" /\ r.kind = "agent-callback"
    BY <1>1, <1>2, IdsAssumption DEF InHand, Current, Suits
  <1>4. UNCHANGED <<file, told>> /\ used'.crashes = used.crashes
    BY ServeCounts DEF Serve
  <1>5. PICK f : f = handleDeliveryFailure(r)
    OBVIOUS
  <1>6. /\ <<f>> \in Seq(Changes) /\ r.attempts \in Nat
        /\ \/ f = [op |-> "failed", attempts |-> r.attempts + 1] /\ r.attempts + 1 >= MAX_DELIVERY_ATTEMPTS
           \/ f = [op |-> "failure", attempts |-> r.attempts + 1] /\ r.attempts + 1 < MAX_DELIVERY_ATTEMPTS
    <2>1. <<f>> \in Seq(Changes) /\ r.attempts \in Nat
      BY <1>2, <1>5, FailureTyped DEF Subscription
    <2>2. CASE r.attempts + 1 >= MAX_DELIVERY_ATTEMPTS
      BY <1>5, <2>1, <2>2 DEF handleDeliveryFailure
    <2>3. CASE ~(r.attempts + 1 >= MAX_DELIVERY_ATTEMPTS)
      BY <1>5, <2>1, <2>3 DEF handleDeliveryFailure, MAX_DELIVERY_ATTEMPTS
    <2> QED BY <2>1, <2>2, <2>3
  <1>7. /\ SpawnsFit(r, spawned[s], used.crashes, FALSE) /\ FailuresFit(r, failed[s], used.crashes, FALSE)
        /\ \A st \in TRIGGER_STATUSES : MessagesFit(r, told[s][st], used.crashes, st, FALSE)
        /\ spawned[s] \in Nat /\ failed[s] \in Nat /\ used.crashes \in Nat
    <2>1. /\ ~DeliveringBy(p, procs[p], s) /\ ~GivingUpBy(p, procs[p], s)
          /\ \A st : ~MarkingBy(p, procs[p], s, st)
      BY <1>2, NothingNoted
    <2> QED BY <1>2, <1>3, <2>1, FitsOne DEF SpawnsFit, FailuresFit, MessagesFit, One
  <1>8. \A t \in SubIds : t # s => spawned'[t] = spawned[t] /\ failed'[t] = failed[t]
    BY <1>1, <1>2 DEF Serve, TypesKept
  <1>9. /\ spawned' = spawned \/ spawned' = [spawned EXCEPT ![s] = @ + 1]
        /\ failed' = failed \/ failed' = [failed EXCEPT ![s] = @ + 1]
    BY <1>1 DEF Serve
  <1>10. ASSUME NEW k, OneParty(p, k), k.id = s,
                SpawnsFit(r, spawned'[s], used.crashes, DeliveringBy(p, k, s)),
                FailuresFit(r, failed'[s], used.crashes, GivingUpBy(p, k, s))
         PROVE  Counted'
    <2>1. \A st : ~MarkingBy(p, k, s, st)
      BY <1>2 DEF MarkingBy
    <2>2. \A st \in TRIGGER_STATUSES :
             MessagesFit(file'[s], told'[s][st], used.crashes, st, MarkingBy(p, k, s, st))
      BY <1>3, <1>4, <1>7, <2>1 DEF MessagesFit, One
    <2> QED BY <1>1, <1>2, <1>3, <1>4, <1>8, <1>10, <2>2, CountedAtOne
  <1>11. ASSUME r.gran = "completion", OneParty(p, Proceed(p, deliverSingleCallback(r, ok)))
         PROVE  Solo' /\ InHand' /\ Counted'
    <2>1. PICK q : q = deliverSingleCallback(r, ok)
      OBVIOUS
    <2>2. PICK k : k = Proceed(p, q)
      OBVIOUS
    <2>3. q = IF ok THEN <<Ops("delivered")>> ELSE <<f>>
      BY <1>5, <2>1 DEF deliverSingleCallback, Ops
    <2>4. q \in Seq(Changes) /\ q # <<>>
      <3>1. Ops("delivered") \in Changes
        BY DEF Changes, Ops
      <3>2. <<Ops("delivered")>> \in Seq(Changes) /\ <<Ops("delivered")>> # <<>> /\ <<f>> # <<>>
        BY <3>1, OneItem
      <3> QED BY <1>6, <2>3, <3>2
    <2>5. k.pc = "read" /\ k.id = s /\ k.todo = q
      BY <1>1, <1>2, <2>2, <2>4, ProceedFields
    <2>6. Errand(p, k, r)
      BY <1>2, <1>3, <1>6, <2>3, <2>5 DEF Errand
    <2>7. Solo' /\ InHand'
      BY <1>2, <1>3, <1>4, <1>11, <2>1, <2>2, <2>4, <2>5, <2>6, GoneOn
    <2>8. CASE ok
      <3>1. spawned' = [spawned EXCEPT ![s] = @ + 1] /\ failed' = failed
        BY <1>1, <1>11, <2>8 DEF Serve
      <3>2. spawned'[s] = spawned[s] + 1 /\ failed'[s] = failed[s]
        BY <1>2, <3>1 DEF TypesKept
      <3>3. k.todo[1].op = "delivered"
        BY <2>3, <2>5, <2>8 DEF Ops
      <3>4. DeliveringBy(p, k, s) /\ ~GivingUpBy(p, k, s)
        BY <1>2, <2>5, <3>3 DEF DeliveringBy, GivingUpBy, Noting
      <3>5. SpawnsFit(r, spawned'[s], used.crashes, DeliveringBy(p, k, s))
        BY <1>3, <1>7, <3>2, <3>4 DEF SpawnsFit, One
      <3>6. FailuresFit(r, failed'[s], used.crashes, GivingUpBy(p, k, s))
        BY <1>7, <3>2, <3>4 DEF FailuresFit, One
      <3> QED BY <1>10, <1>11, <2>1, <2>2, <2>5, <2>7, <3>5, <3>6
    <2>9. CASE ~ok
      <3>1. failed' = [failed EXCEPT ![s] = @ + 1] /\ spawned' = spawned
        BY <1>1, <1>11, <2>9 DEF Serve
      <3>2. failed'[s] = failed[s] + 1 /\ spawned'[s] = spawned[s]
        BY <1>2, <3>1 DEF TypesKept
      <3>3. k.todo[1] = f
        BY <2>3, <2>5, <2>9
      <3>4. f.op \in {"failure", "failed"}
        BY <1>6
      <3>5. GivingUpBy(p, k, s) /\ ~DeliveringBy(p, k, s)
        BY <1>2, <2>5, <3>3, <3>4 DEF DeliveringBy, GivingUpBy, Noting
      <3>6. SpawnsFit(r, spawned'[s], used.crashes, DeliveringBy(p, k, s))
        BY <1>7, <3>2, <3>5 DEF SpawnsFit, One
      <3>7. FailuresFit(r, failed'[s], used.crashes, GivingUpBy(p, k, s))
        BY <1>3, <1>6, <1>7, <3>2, <3>5 DEF FailuresFit, One
      <3> QED BY <1>10, <1>11, <2>1, <2>2, <2>5, <2>7, <3>6, <3>7
    <2> QED BY <2>8, <2>9
  <1>12. ASSUME r.gran = "all", NEW k PROVE /\ SpawnsFit(r, spawned'[s], used.crashes, DeliveringBy(p, k, s))
                                            /\ FailuresFit(r, failed'[s], used.crashes, GivingUpBy(p, k, s))
    BY <1>3, <1>7, <1>12 DEF SpawnsFit, FailuresFit
  <1>13. ASSUME r.gran = "all", OneParty(p, [procs[p] EXCEPT !.pc = "next"])
         PROVE  Solo' /\ InHand' /\ Counted'
    <2>1. PICK k : k = [procs[p] EXCEPT !.pc = "next"]
      OBVIOUS
    <2>2. k.pc = "next" /\ k.id = s /\ k.queue = procs[p].queue /\ k.seen = procs[p].seen
      BY <1>1, <2>1 DEF TypesKept, Party
    <2>3. Current(p, k)'
      BY <1>4, <2>2 DEF InHand, Current, Suits
    <2>4. Solo' /\ InHand'
      BY <1>2, <1>13, <2>1, <2>2, <2>3, InHandAfterOne
    <2> QED BY <1>10, <1>12, <1>13, <2>1, <2>2, <2>4
  <1>14. ASSUME r.gran = "all", OneParty(p, Proceed(p, deliverAllGranularity(p, r, ok)))
         PROVE  Solo' /\ InHand' /\ Counted'
    <2>1. PICK q : q = deliverAllGranularity(p, r, ok)
      OBVIOUS
    <2>2. PICK k : k = Proceed(p, q)
      OBVIOUS
    <2>3. q = <<>> \/ q = <<f>> \/ \E c : q = <<c>> /\ c.op \in {"cursor", "closed"} /\ c \in Changes
      <3>1. [op |-> IF p = "poll" THEN "closed" ELSE "cursor", cursor |-> Len(log)] \in Changes
        BY DEF Changes, TypesKept
      <3> QED BY <1>5, <2>1, <3>1 DEF deliverAllGranularity
    <2>4. q \in Seq(Changes)
      <3>1. CASE q = <<>>
        BY <3>1
      <3>2. CASE q = <<f>>
        BY <1>6, <3>2
      <3>3. ASSUME NEW c, q = <<c>>, c \in Changes PROVE q \in Seq(Changes)
        BY <3>3, OneItem
      <3> QED BY <2>3, <3>1, <3>2, <3>3
    <2>5. k.pc \in {"next", "read"} /\ k.id = s /\ k.todo = q
      BY <1>1, <1>2, <2>2, <2>4, ProceedFields
    <2>6. q # <<>> => Errand(p, k, r)
      <3>1. CASE q = <<f>>
        BY <1>2, <1>3, <1>6, <2>5, <3>1 DEF Errand
      <3>2. ASSUME NEW c, q = <<c>>, c.op \in {"cursor", "closed"} PROVE Errand(p, k, r)
        BY <1>2, <1>3, <1>14, <2>5, <3>2 DEF Errand
      <3> QED BY <2>3, <3>1, <3>2
    <2>7. Solo' /\ InHand'
      BY <1>2, <1>3, <1>4, <1>14, <2>1, <2>2, <2>4, <2>5, <2>6, GoneOn
    <2> QED BY <1>10, <1>12, <1>14, <2>1, <2>2, <2>5, <2>7
  <1> QED BY <1>1, <1>11, <1>13, <1>14, ServeStep

(* A message is counted, and its status is then to be marked. *)
LEMMA DeliverAlone ==
    ASSUME TypesKept, Solo, InHand, Counted, NEW p \in Procs, NEW ok \in BOOLEAN, deliverOne(p, ok)
    PROVE  Solo' /\ InHand' /\ Counted'
  <1>1. PICK r, s, to : r = procs[p].sub /\ s = procs[p].id /\ to = procs[p].seen
    OBVIOUS
  <1>2. /\ p \in Senders /\ p \notin Callers /\ procs[p].pc = "deliver" /\ s \in SubIds
        /\ to \in TRIGGER_STATUSES /\ OthersIdle(p)
    BY <1>1, DeliverStep, Names, WorkAlone
  <1>3. r = file[s] /\ r # Absent /\ r.status = "active" /\ r.kind = "openclaw-chat" /\ to \notin r.notified
    BY <1>1, <1>2 DEF InHand, Current, Suits
  <1>4. UNCHANGED <<file, spawned, failed>> /\ used'.crashes = used.crashes
    <2>1. used \in [fails : Nat, crashes : Nat] /\ (used' = used \/ used' = [used EXCEPT !.fails = @ + 1])
      BY DEF TypesKept, deliverOne, Failing
    <2> QED BY <2>1, Uses DEF deliverOne
  <1>5. PICK q : q = IF ok THEN Noted(to) ELSE <<[op |-> "failedAttempt"]>>
    OBVIOUS
  <1>6. PICK k : k = Proceed(p, q)
    OBVIOUS
  <1>7. q \in Seq(Changes) /\ q # <<>> /\ OneParty(p, k)
    <2>1. Noted(to) # <<>> /\ <<[op |-> "failedAttempt"]>> # <<>>
      BY DEF Noted
    <2> QED BY <1>1, <1>2, <1>5, <1>6, <2>1, NotedTyped, DeliverStep
  <1>8. k.pc = "read" /\ k.id = s /\ k.todo = q /\ k.seen = to
    BY <1>1, <1>2, <1>6, <1>7, ProceedFields
  <1>9. Errand(p, k, r)
    <2>1. Noted(to) \in {<<Ops("appendAttempt"), Marked(to), Ops("delivered")>>, <<Ops("appendAttempt"), Marked(to)>>}
      BY DEF Noted, Ops, Marked
    <2>2. q = Noted(to) \/ q = <<Ops("failedAttempt")>>
      BY <1>5 DEF Ops
    <2> QED BY <1>2, <1>3, <1>8, <2>1, <2>2 DEF Errand
  <1>10. Solo' /\ InHand'
    BY <1>2, <1>3, <1>4, <1>6, <1>7, <1>8, <1>9, GoneOn
  <1>11. /\ SpawnsFit(r, spawned[s], used.crashes, FALSE) /\ FailuresFit(r, failed[s], used.crashes, FALSE)
         /\ \A st \in TRIGGER_STATUSES : MessagesFit(r, told[s][st], used.crashes, st, FALSE)
         /\ used.crashes \in Nat /\ \A st \in TRIGGER_STATUSES : told[s][st] \in Nat
    <2>1. /\ ~DeliveringBy(p, procs[p], s) /\ ~GivingUpBy(p, procs[p], s)
          /\ \A st : ~MarkingBy(p, procs[p], s, st)
      BY <1>2, NothingNoted
    <2> QED BY <1>2, <1>3, <2>1, FitsOne DEF SpawnsFit, FailuresFit, MessagesFit, One
  <1>12. /\ SpawnsFit(r, spawned[s], used.crashes, DeliveringBy(p, k, s))
         /\ FailuresFit(r, failed[s], used.crashes, GivingUpBy(p, k, s))
    <2>1. ~DeliveringBy(p, k, s) /\ ~GivingUpBy(p, k, s)
      BY <1>2 DEF DeliveringBy, GivingUpBy
    <2> QED BY <1>11, <2>1 DEF SpawnsFit, FailuresFit, One
  <1>13. \A t \in SubIds : t # s => told'[t] = told[t]
    BY <1>1, <1>2 DEF deliverOne, TypesKept
  <1>14. ASSUME NEW st \in TRIGGER_STATUSES
         PROVE  MessagesFit(r, told'[s][st], used.crashes, st, MarkingBy(p, k, s, st))
    <2>1. CASE ok /\ st = to
      <3>1. told'[s][to] = told[s][to] + 1
        BY <1>1, <1>2, <2>1 DEF deliverOne, TypesKept
      <3>2. 2 \in DOMAIN k.todo /\ k.todo[2] = Marked(to)
        BY <1>5, <1>8, <2>1 DEF Noted, Marked
      <3>3. MarkingBy(p, k, s, to)
        BY <1>2, <1>8, <3>2 DEF MarkingBy, Noting
      <3>4. told[s][to] <= used.crashes
        BY <1>3, <1>11, <2>1 DEF MessagesFit, One
      <3> QED BY <1>11, <2>1, <3>1, <3>3, <3>4 DEF MessagesFit, One
    <2>2. CASE ~(ok /\ st = to)
      <3>1. told'[s][st] = told[s][st]
        BY <1>1, <1>2, <2>2 DEF deliverOne, TypesKept
      <3> QED BY <1>11, <3>1 DEF MessagesFit, One
    <2> QED BY <2>1, <2>2
  <1>15. Counted'
    BY <1>1, <1>2, <1>3, <1>4, <1>7, <1>8, <1>12, <1>13, <1>14, CountedAtOne
  <1> QED BY <1>10, <1>15

(* What a party's errand can be, and how it goes on. *)
LEMMA CallerErrand ==
    ASSUME NEW p \in Callers, NEW k, NEW r, Errand(p, k, r)
    PROVE  /\ r # Absent /\ r.status = "active" /\ r.kind = "agent-callback" /\ Len(k.todo) = 1
           /\ LET c == k.todo[1] IN
              \/ c.op = "delivered"
              \/ c.op = "failure" /\ c.attempts = r.attempts + 1 /\ r.attempts + 1 < MAX_DELIVERY_ATTEMPTS
              \/ c.op = "failed" /\ c.attempts = r.attempts + 1 /\ r.attempts + 1 >= MAX_DELIVERY_ATTEMPTS
              \/ c.op \in {"cursor", "closed"} /\ r.gran = "all"
  <1>1. PICK d, f, g : /\ d = Ops("delivered") /\ f = [op |-> "failure", attempts |-> r.attempts + 1]
                       /\ g = [op |-> "failed", attempts |-> r.attempts + 1]
    OBVIOUS
  <1>2. /\ r # Absent /\ r.status = "active" /\ r.kind = "agent-callback"
        /\ \/ k.todo = <<d>>
           \/ k.todo = <<f>> /\ r.attempts + 1 < MAX_DELIVERY_ATTEMPTS
           \/ k.todo = <<g>> /\ r.attempts + 1 >= MAX_DELIVERY_ATTEMPTS
           \/ r.gran = "all" /\ Len(k.todo) = 1 /\ k.todo[1].op \in {"cursor", "closed"}
    BY <1>1, Names DEF Errand
  <1>3. /\ d.op = "delivered" /\ f.op = "failure" /\ f.attempts = r.attempts + 1
        /\ g.op = "failed" /\ g.attempts = r.attempts + 1
    BY <1>1 DEF Ops
  <1>4. CASE k.todo = <<d>>
    BY <1>2, <1>3, <1>4
  <1>5. CASE k.todo = <<f>> /\ r.attempts + 1 < MAX_DELIVERY_ATTEMPTS
    BY <1>2, <1>3, <1>5
  <1>6. CASE k.todo = <<g>> /\ r.attempts + 1 >= MAX_DELIVERY_ATTEMPTS
    BY <1>2, <1>3, <1>6
  <1>7. CASE r.gran = "all" /\ Len(k.todo) = 1 /\ k.todo[1].op \in {"cursor", "closed"}
    BY <1>2, <1>7
  <1> QED BY <1>2, <1>4, <1>5, <1>6, <1>7

(* ... of a user. *)
LEMMA UserErrand ==
    ASSUME NEW k, NEW r, Errand("user", k, r)
    PROVE  /\ Len(k.todo) = 1
           /\ \/ r = Absent /\ k.todo[1].op = "create" /\ k.todo[1].sub = create("completion", "agent-callback")
              \/ r # Absent /\ k.todo[1].op = "cancel"
  <1>1. PICK a, b : /\ a = [op |-> "create", sub |-> create("completion", "agent-callback")] /\ b = Ops("cancel")
    OBVIOUS
  <1>2. \/ r = Absent /\ k.todo = <<a>>
        \/ r # Absent /\ k.todo = <<b>>
    <2>1. "user" \notin Callers /\ "user" \notin Senders
      BY Names
    <2> QED BY <1>1, <2>1 DEF Errand
  <1>3. a.op = "create" /\ a.sub = create("completion", "agent-callback") /\ b.op = "cancel"
    BY <1>1 DEF Ops
  <1> QED BY <1>2, <1>3

(* ... of the chat notifier. *)
LEMMA SenderErrand ==
    ASSUME NEW p \in Senders, NEW k, NEW r, Errand(p, k, r), k.todo \in Seq(Changes)
    PROVE  /\ r # Absent /\ r.status = "active" /\ r.kind = "openclaw-chat" /\ k.seen \in TRIGGER_STATUSES
           /\ k.todo[1].op \in {"appendAttempt", "markStatusNotified", "delivered", "failedAttempt"}
           /\ Tail(k.todo) # <<>> =>
                 /\ k.todo[1].op \in {"appendAttempt", "markStatusNotified"}
                 /\ \A n, j : /\ n # Absent /\ n.status = "active" /\ n.kind = r.kind
                              /\ j.seen = k.seen /\ j.todo = Tail(k.todo)
                             => Errand(p, j, n)
  <1>1. PICK a, m, d, f : a = Ops("appendAttempt") /\ m = Marked(k.seen) /\ d = Ops("delivered") /\ f = Ops("failedAttempt")
    OBVIOUS
  <1>2. /\ r # Absent /\ r.status = "active" /\ r.kind = "openclaw-chat" /\ k.seen \in TRIGGER_STATUSES
        /\ k.todo \in {<<a, m, d>>, <<a, m>>, <<m, d>>, <<m>>, <<d>>, <<f>>}
    BY <1>1, Names DEF Errand
  <1>3. a.op = "appendAttempt" /\ m.op = "markStatusNotified" /\ d.op = "delivered" /\ f.op = "failedAttempt"
    BY <1>1 DEF Ops, Marked
  <1>4. /\ k.todo[1] \in {a, m, d, f}
        /\ \/ Tail(k.todo) = <<>>
           \/ Tail(k.todo) \in {<<m, d>>, <<m>>, <<d>>} /\ k.todo[1] \in {a, m}
    <2>1. CASE k.todo = <<a, m, d>>
      BY <2>1
    <2>2. CASE k.todo = <<a, m>>
      BY <2>2
    <2>3. CASE k.todo = <<m, d>>
      BY <2>3
    <2>4. CASE k.todo = <<m>>
      BY <2>4
    <2>5. CASE k.todo = <<d>>
      BY <2>5
    <2>6. CASE k.todo = <<f>>
      BY <2>6
    <2> QED BY <1>2, <2>1, <2>2, <2>3, <2>4, <2>5, <2>6
  <1>5. ASSUME NEW n, NEW j, Tail(k.todo) # <<>>, n # Absent, n.status = "active", n.kind = r.kind,
               j.seen = k.seen, j.todo = Tail(k.todo)
        PROVE  Errand(p, j, n)
    BY <1>1, <1>2, <1>4, <1>5 DEF Errand
  <1> QED BY <1>2, <1>3, <1>4, <1>5

(* The write notes in the file what was counted. *)
LEMMA WriteAlone ==
    ASSUME TypesKept, Solo, InHand, Counted, NEW p \in Procs, WriteFile(p)
    PROVE  Solo' /\ InHand' /\ Counted'
  <1>1. PICK r, s, c, o : o = procs[p] /\ s = o.id /\ r = file[s] /\ c = Head(o.todo)
    OBVIOUS
  <1>2. /\ o.pc = "write" /\ o \in Party /\ s \in SubIds /\ o.snap = file /\ o.at = status
        /\ OthersIdle(p) /\ Errand(p, o, r) /\ o.todo \in Seq(Changes) /\ o.todo # <<>> /\ c \in Changes
        /\ c = o.todo[1] /\ r \in Subscription \cup {Absent}
    <2>1. /\ o.pc = "write" /\ o \in Party /\ s \in SubIds /\ o.todo \in Seq(Changes) /\ o.todo # <<>>
          /\ r \in Subscription \cup {Absent}
      BY <1>1 DEF TypesKept, WriteFile, Equipped, Party, File
    <2>2. c \in Changes /\ c = o.todo[1]
      BY <1>1, <2>1, TailOf
    <2>3. o.snap = file /\ o.at = status /\ Errand(p, o, r)
      BY <1>1, <2>1 DEF Solo, InHand
    <2> QED BY <1>1, <2>1, <2>2, <2>3, WorkAlone
  <1>3. \/ r # Absent /\ c.op # "create"
        \/ p = "user" /\ r = Absent /\ c.op = "create" /\ c.sub = create("completion", "agent-callback")
    BY <1>2, CallerErrand, SenderErrand, UserErrand, Names
  <1>4. PICK q \in Seq(Changes) : OneParty(p, Proceed(p, q)) /\ Made(p) /\ q = Tail(o.todo)
    BY <1>1, <1>2, <1>3, WriteStep
  <1>5. PICK n, k : n = Change(r, c) /\ k = Proceed(p, q)
    OBVIOUS
  <1>6. file' = [file EXCEPT ![s] = n] /\ n \in Subscription /\ n # Absent
    BY <1>1, <1>2, <1>4, <1>5, MadeTypes, IdsAssumption
  <1>7. file'[s] = n /\ \A t \in SubIds : t # s => file'[t] = file[t]
    BY <1>2, <1>6 DEF TypesKept, File
  <1>8. /\ k.pc \in {"next", "read"} /\ (k.pc = "next" <=> q = <<>>) /\ k.todo = q
        /\ k.queue = o.queue /\ k.id = s /\ k.seen = o.seen
    BY <1>1, <1>2, <1>4, <1>5, ProceedFields
  <1>9. UNCHANGED <<spawned, failed, told, used>>
    BY DEF WriteFile, ghosts
  <1>10. Current(p, k)'
    <2>1. \A e \in o.queue : e[2] = file[e[1]] /\ Suits(p, o, e[2]) /\ e[1] # s
      BY <1>1, <1>2 DEF InHand, Current
    <2>2. \A e \in o.queue : e[1] \in SubIds
      BY <1>2 DEF Party
    <2>3. \A e \in k.queue : e[2] = file'[e[1]] /\ Suits(p, k, e[2]) /\ e[1] # s
      BY <1>7, <1>8, <2>1, <2>2 DEF Suits
    <2> QED BY <1>8, <2>3 DEF Current
  <1>11. ASSUME q # <<>>
         PROVE  p \in Senders /\ Errand(p, k, n)
    <2>1. p \in Senders
      <3>1. Len(o.todo) # 1
        BY <1>2, <1>4, <1>11
      <3> QED BY <1>2, <3>1, CallerErrand, UserErrand, Names
    <2>2. /\ r # Absent /\ r.status = "active" /\ c.op \in {"appendAttempt", "markStatusNotified"}
          /\ \A x, j : x # Absent /\ x.status = "active" /\ x.kind = r.kind /\ j.seen = o.seen /\ j.todo = q
                          => Errand(p, j, x)
      BY <1>2, <1>4, <1>11, <2>1, SenderErrand
    <2>3. n.kind = r.kind /\ n.status = "active"
      <3>1. r \in Subscription /\ c.op # "create"
        BY <1>2, <1>3, <2>2
      <3> QED BY <1>2, <1>5, <2>2, <3>1, ChangeOf
    <2> QED BY <1>6, <1>8, <2>1, <2>2, <2>3
  <1>12. Solo' /\ InHand'
    BY <1>2, <1>4, <1>5, <1>7, <1>8, <1>10, <1>11, InHandAfterOne
  <1>13. /\ SpawnsFit(r, spawned[s], used.crashes, DeliveringBy(p, o, s))
         /\ FailuresFit(r, failed[s], used.crashes, GivingUpBy(p, o, s))
         /\ \A st \in TRIGGER_STATUSES : MessagesFit(r, told[s][st], used.crashes, st, MarkingBy(p, o, s, st))
         /\ spawned[s] \in Nat /\ failed[s] \in Nat /\ used.crashes \in Nat
         /\ \A st \in TRIGGER_STATUSES : told[s][st] \in Nat
    BY <1>1, <1>2, FitsOne
  <1>14. ASSUME /\ SpawnsFit(n, spawned[s], used.crashes, DeliveringBy(p, k, s))
                /\ FailuresFit(n, failed[s], used.crashes, GivingUpBy(p, k, s))
                /\ \A st \in TRIGGER_STATUSES : MessagesFit(n, told[s][st], used.crashes, st, MarkingBy(p, k, s, st))
         PROVE  Solo' /\ InHand' /\ Counted'
    BY <1>1, <1>2, <1>4, <1>5, <1>7, <1>8, <1>9, <1>12, <1>14, CountedAtOne
  <1>15. CASE p \in Callers
    <2>1. q = <<>> /\ p \notin Senders
      BY <1>11, <1>15, Names
    <2>2. /\ ~DeliveringBy(p, k, s) /\ ~GivingUpBy(p, k, s)
          /\ \A st : ~MarkingBy(p, k, s, st) /\ ~MarkingBy(p, o, s, st)
      BY <1>8, <2>1 DEF DeliveringBy, GivingUpBy, MarkingBy, Noting
    <2>3. r \in Subscription /\ r.status = "active" /\ r.kind = "agent-callback" /\ r.attempts \in Nat
      <3>1. r # Absent /\ r.status = "active" /\ r.kind = "agent-callback"
        BY <1>2, <1>15, CallerErrand
      <3> QED BY <1>2, <3>1 DEF Subscription
    <2>4. /\ DeliveringBy(p, o, s) <=> c.op = "delivered"
          /\ GivingUpBy(p, o, s) <=> c.op \in {"failure", "failed"}
      BY <1>1, <1>2, <1>15 DEF DeliveringBy, GivingUpBy, Noting
    <2>5. /\ n.gran = r.gran /\ n.kind = r.kind
          /\ n.status = CASE c.op = "cancel" -> "cancelled"
                          [] c.op \in {"delivered", "closed"} -> "delivered"
                          [] c.op = "failed" -> "failed"
                          [] OTHER -> r.status
          /\ n.attempts = CASE c.op \in {"failure", "failed"} -> c.attempts
                            [] c.op \in {"appendAttempt", "failedAttempt"} -> r.attempts + 1
                            [] OTHER -> r.attempts
          /\ n.notified = IF c.op = "markStatusNotified" THEN r.notified \cup {c.status} ELSE r.notified
      <3>1. c.op # "create"
        BY <1>3, <1>15, <2>3, Names
      <3> QED BY <1>2, <1>5, <2>3, <3>1, ChangeOf
    <2>6. \/ c.op = "delivered"
          \/ c.op = "failure" /\ c.attempts = r.attempts + 1 /\ r.attempts + 1 < MAX_DELIVERY_ATTEMPTS
          \/ c.op = "failed" /\ c.attempts = r.attempts + 1 /\ r.attempts + 1 >= MAX_DELIVERY_ATTEMPTS
          \/ c.op \in {"cursor", "closed"} /\ r.gran = "all"
      BY <1>2, <1>15, CallerErrand
    <2>7. n.notified = r.notified
      BY <2>5, <2>6
    <2>8. \A st \in TRIGGER_STATUSES : MessagesFit(n, told[s][st], used.crashes, st, MarkingBy(p, k, s, st))
      BY <1>3, <1>6, <1>13, <1>15, <2>2, <2>3, <2>7 DEF MessagesFit, One
    <2>9. CASE c.op = "delivered"
      <3>1. n.status = "delivered" /\ n.attempts = r.attempts
        BY <2>5, <2>9
      <3>2. SpawnsFit(n, spawned[s], used.crashes, DeliveringBy(p, k, s))
        BY <1>6, <1>13, <2>2, <2>3, <2>4, <2>5, <2>9, <3>1, IdsAssumption DEF SpawnsFit, One
      <3>3. FailuresFit(n, failed[s], used.crashes, GivingUpBy(p, k, s))
        BY <1>6, <1>13, <2>2, <2>3, <2>4, <2>5, <2>9, <3>1, IdsAssumption DEF FailuresFit, One
      <3> QED BY <1>14, <2>8, <3>2, <3>3
    <2>10. CASE /\ c.op \in {"failure", "failed"} /\ c.attempts = r.attempts + 1
                /\ IF c.op = "failure" THEN r.attempts + 1 < MAX_DELIVERY_ATTEMPTS
                                       ELSE r.attempts + 1 >= MAX_DELIVERY_ATTEMPTS
      <3>1. n.status = (IF c.op = "failed" THEN "failed" ELSE "active") /\ n.attempts = r.attempts + 1
        BY <2>3, <2>5, <2>10
      <3>2. r # Absent /\ n.gran = r.gran /\ n.kind = r.kind /\ c.op # "delivered"
        BY <2>3, <2>5, <2>10, IdsAssumption
      <3>3. SpawnsFit(n, spawned[s], used.crashes, DeliveringBy(p, k, s))
        <4>1. ~DeliveringBy(p, o, s) /\ ~DeliveringBy(p, k, s)
          BY <2>2, <2>4, <3>2
        <4>2. SpawnsFit(r, spawned[s], used.crashes, DeliveringBy(p, o, s)) /\ used.crashes \in Nat
          BY <1>13
        <4>3. n.gran = "completion" => spawned[s] <= used.crashes
          BY <2>3, <3>2, <4>1, <4>2 DEF SpawnsFit, One
        <4> QED BY <1>6, <1>13, <4>3 DEF SpawnsFit, One
      <3>4. /\ r.attempts < MAX_DELIVERY_ATTEMPTS
            /\ r.gran = "completion" => r.attempts + 1 <= failed[s] /\ failed[s] <= r.attempts + used.crashes + 1
        <4>1. GivingUpBy(p, o, s)
          BY <2>4, <2>10
        <4>2. /\ FailuresFit(r, failed[s], used.crashes, GivingUpBy(p, o, s))
              /\ used.crashes \in Nat /\ failed[s] \in Nat
          BY <1>13
        <4> QED BY <2>3, <3>2, <4>1, <4>2 DEF FailuresFit, One
      <3>5. FailuresFit(n, failed[s], used.crashes, GivingUpBy(p, k, s))
        BY <1>6, <1>13, <2>2, <2>3, <2>10, <3>1, <3>2, <3>4 DEF FailuresFit, One, MAX_DELIVERY_ATTEMPTS
      <3> QED BY <1>14, <2>8, <3>3, <3>5
    <2>11. CASE c.op \in {"cursor", "closed"} /\ r.gran = "all"
      <3>1. n.status \in {"active", "delivered"} /\ n.attempts = r.attempts
        BY <2>3, <2>5, <2>11
      <3>2. SpawnsFit(n, spawned[s], used.crashes, DeliveringBy(p, k, s))
        BY <1>6, <2>5, <2>11 DEF SpawnsFit
      <3>3. FailuresFit(n, failed[s], used.crashes, GivingUpBy(p, k, s))
        BY <1>6, <1>13, <2>2, <2>3, <2>4, <2>5, <2>11, <3>1, IdsAssumption DEF FailuresFit, One
      <3> QED BY <1>14, <2>8, <3>2, <3>3
    <2> QED BY <2>6, <2>9, <2>10, <2>11
  <1>16. CASE p \in Senders
    <2>1. p \notin Callers /\ p # "user"
      BY <1>16, Names
    <2>2. /\ ~DeliveringBy(p, k, s) /\ ~GivingUpBy(p, k, s)
          /\ ~DeliveringBy(p, o, s) /\ ~GivingUpBy(p, o, s)
      BY <2>1 DEF DeliveringBy, GivingUpBy
    <2>3. r \in Subscription /\ r.kind = "openclaw-chat" /\ c.op # "create"
          /\ c.op \in {"appendAttempt", "markStatusNotified", "delivered", "failedAttempt"}
      BY <1>2, <1>16, SenderErrand
    <2>4. /\ n.gran = r.gran /\ n.kind = r.kind
          /\ n.status = CASE c.op = "cancel" -> "cancelled"
                          [] c.op \in {"delivered", "closed"} -> "delivered"
                          [] c.op = "failed" -> "failed"
                          [] OTHER -> r.status
          /\ n.notified = IF c.op = "markStatusNotified" THEN r.notified \cup {c.status} ELSE r.notified
      BY <1>2, <1>5, <2>3, ChangeOf
    <2>5. n.status \in {r.status, "delivered"}
      BY <2>3, <2>4
    <2>6. SpawnsFit(n, spawned[s], used.crashes, DeliveringBy(p, k, s))
      BY <1>6, <1>13, <2>2, <2>3, <2>4, <2>5, IdsAssumption DEF SpawnsFit, One
    <2>7. FailuresFit(n, failed[s], used.crashes, GivingUpBy(p, k, s))
      BY <1>6, <1>13, <2>2, <2>3, <2>4, <2>5, IdsAssumption DEF FailuresFit, One
    <2>8. ASSUME NEW st \in TRIGGER_STATUSES
          PROVE  MessagesFit(n, told[s][st], used.crashes, st, MarkingBy(p, k, s, st))
      <3>1. ASSUME MarkingBy(p, o, s, st) PROVE st \in n.notified \/ MarkingBy(p, k, s, st)
        <4>1. PICK i \in DOMAIN o.todo : o.todo[i] = Marked(st)
          BY <3>1 DEF MarkingBy
        <4>2. CASE i = 1
          <5>1. c.op = "markStatusNotified" /\ c.status = st
            BY <1>2, <4>1, <4>2 DEF Marked
          <5> QED BY <2>4, <5>1
        <4>3. CASE i # 1
          <5>1. i - 1 \in DOMAIN q /\ q[i - 1] = Marked(st)
            BY <1>2, <1>4, <4>1, <4>3
          <5>2. q # <<>>
            BY <5>1
          <5> QED BY <1>8, <1>16, <5>1, <5>2 DEF MarkingBy, Noting
        <4> QED BY <4>2, <4>3
      <3>2. r.notified \subseteq n.notified
        BY <2>4
      <3> QED BY <1>3, <1>6, <1>13, <2>1, <3>1, <3>2 DEF MessagesFit, One
    <2> QED BY <1>14, <2>6, <2>7, <2>8
  <1>17. CASE p = "user"
    <2>1. /\ ~DeliveringBy(p, k, s) /\ ~GivingUpBy(p, k, s)
          /\ ~DeliveringBy(p, o, s) /\ ~GivingUpBy(p, o, s)
          /\ \A st : ~MarkingBy(p, k, s, st) /\ ~MarkingBy(p, o, s, st)
      BY <1>17, NothingNoted
    <2>2. CASE r = Absent
      <3>1. n = create("completion", "agent-callback")
        BY <1>3, <1>5, <2>2 DEF Change
      <3>2. /\ n.gran = "completion" /\ n.kind = "agent-callback" /\ n.status = "active"
            /\ n.attempts = 0 /\ n.notified = {}
        BY <3>1 DEF create
      <3>3. SpawnsFit(n, spawned[s], used.crashes, DeliveringBy(p, k, s))
        BY <1>13, <2>1, <2>2, <3>2 DEF SpawnsFit, One
      <3>4. FailuresFit(n, failed[s], used.crashes, GivingUpBy(p, k, s))
        BY <1>6, <1>13, <2>1, <2>2, <3>2 DEF FailuresFit, One, MAX_DELIVERY_ATTEMPTS
      <3>5. \A st \in TRIGGER_STATUSES : MessagesFit(n, told[s][st], used.crashes, st, MarkingBy(p, k, s, st))
        BY <1>13, <2>1, <2>2, <3>2 DEF MessagesFit, One
      <3> QED BY <1>14, <3>3, <3>4, <3>5
    <2>3. CASE r # Absent
      <3>1. r \in Subscription /\ c.op = "cancel"
        BY <1>2, <1>17, <2>3, UserErrand
      <3>2. /\ n.gran = r.gran /\ n.kind = r.kind /\ n.status = "cancelled" /\ n.attempts = r.attempts
            /\ n.notified = r.notified
        BY <1>2, <1>5, <3>1, ChangeOf
      <3>3. SpawnsFit(n, spawned[s], used.crashes, DeliveringBy(p, k, s))
        BY <1>6, <1>13, <2>1, <2>3, <3>2 DEF SpawnsFit, One
      <3>4. FailuresFit(n, failed[s], used.crashes, GivingUpBy(p, k, s))
        BY <1>6, <1>13, <2>1, <2>3, <3>2 DEF FailuresFit, One
      <3>5. \A st \in TRIGGER_STATUSES : MessagesFit(n, told[s][st], used.crashes, st, MarkingBy(p, k, s, st))
        BY <1>6, <1>13, <2>1, <2>3, <3>2 DEF MessagesFit, One
      <3> QED BY <1>14, <3>3, <3>4, <3>5
    <2> QED BY <2>2, <2>3
  <1> QED BY <1>15, <1>16, <1>17, Names

(* With everyone idle nothing is in hand and nothing is to be noted. *)
LEMMA AllIdle ==
    ASSUME \A p \in Procs : procs[p] = Idle
    PROVE  Solo /\ InHand /\ \A s : ~Delivering(s) /\ ~GivingUp(s) /\ \A st : ~Marking(s, st)
  <1>1. Solo /\ InHand
    BY DEF Solo, InHand, Current, Idle
  <1>2. \A s : \A p \in Procs : ~Noting(procs[p], s)
    BY DEF Noting, Idle
  <1> QED BY <1>1, <1>2 DEF Delivering, DeliveringBy, GivingUp, GivingUpBy, Marking, MarkingBy

(* ... in the next state. *)
LEMMA AllIdleNext ==
    ASSUME \A p \in Procs : procs'[p] = Idle
    PROVE  Solo' /\ InHand' /\ \A s : ~Delivering(s)' /\ ~GivingUp(s)' /\ \A st : ~Marking(s, st)'
  <1>1. Solo' /\ InHand'
    BY DEF Solo, InHand, Current, Idle
  <1>2. \A s : \A p \in Procs : ~Noting(procs'[p], s)
    BY DEF Noting, Idle
  <1> QED BY <1>1, <1>2 DEF Delivering, DeliveringBy, GivingUp, GivingUpBy, Marking, MarkingBy

(* At the start nothing was delivered. *)
LEMMA InitAlone == Init => AloneKept
  <1> SUFFICES ASSUME Init PROVE Solo /\ InHand /\ Counted
    BY DEF AloneKept
  <1>1. /\ Solo /\ InHand /\ \A s : ~Delivering(s) /\ ~GivingUp(s) /\ \A st : ~Marking(s, st)
    BY AllIdle DEF Init
  <1>2. ASSUME NEW s \in SubIds PROVE CountedFor(s)
    <2>1. spawned[s] = 0 /\ failed[s] = 0 /\ used.crashes = 0 /\ \A st \in TRIGGER_STATUSES : told[s][st] = 0
      BY DEF Init
    <2>2. file[s] \in Fresh \cup {Absent}
      BY SubscriptionsFresh DEF Init
    <2>3. file[s] # Absent => file[s].attempts = 0 /\ file[s].status = "active"
      BY <2>2 DEF Fresh, create
    <2> QED BY <1>1, <2>1, <2>3 DEF CountedFor, SpawnsFit, FailuresFit, MessagesFit, One, MAX_DELIVERY_ATTEMPTS
  <1> QED BY <1>1, <1>2 DEF Counted

(* A transition counts nothing. *)
LEMMA TransitionAlone ==
    ASSUME TypesKept, Alone, Solo, InHand, Counted, NEW c \in Chats, Transition(c)
    PROVE  Solo' /\ InHand' /\ Counted'
  <1>1. /\ \A p \in Procs : OthersIdle(p) /\ procs[p].pc = "idle" /\ procs[p] = Idle
        /\ UNCHANGED <<file, spawned, failed, told, used>>
    BY DEF Transition, Alone, OthersIdle, ghosts, TypesKept, Equipped
  <1>2. PICK to \in Statuses :
           /\ c \in Senders /\ c \in Procs
           /\ \/ OneParty(c, Started(handleEvent(to), "last", to))
              \/ procs' = procs
    BY TransitionStep
  <1>3. CASE OneParty(c, Started(handleEvent(to), "last", to))
    BY <1>1, <1>2, <1>3, ChatList, StartAlone
  <1>4. CASE procs' = procs
    <2>1. \A p \in Procs : procs'[p] = Idle
      BY <1>1, <1>4
    <2>2. /\ Solo' /\ InHand'
          /\ \A s : ~Delivering(s)' /\ ~GivingUp(s)' /\ \A st : ~Marking(s, st)'
      BY <2>1, AllIdleNext
    <2>3. \A s : ~Delivering(s) /\ ~GivingUp(s) /\ \A st : ~Marking(s, st)
      BY <1>1, AllIdle
    <2>4. ASSUME NEW s \in SubIds PROVE CountedFor(s)'
      <3>1. CountedFor(s)
        BY DEF Counted
      <3> QED BY <1>1, <2>2, <2>3, <3>1 DEF CountedFor, SpawnsFit, FailuresFit, MessagesFit, One
    <2> QED BY <2>2, <2>4 DEF Counted
  <1> QED BY <1>2, <1>3, <1>4

(* Time counts nothing. *)
LEMMA CoolAlone ==
    ASSUME TypesKept, Alone, Solo, InHand, Counted, NEW s \in SubIds, CoolDown(s)
    PROVE  Solo' /\ InHand' /\ Counted'
  <1>1. /\ \A p \in Procs : procs[p] = Idle /\ procs'[p] = Idle
        /\ UNCHANGED <<spawned, failed, told, used>>
    BY QuietAlone DEF CoolDown, ghosts, TypesKept, Equipped
  <1>2. \A t : ~Delivering(t) /\ ~GivingUp(t) /\ \A st : ~Marking(t, st)
    BY <1>1, AllIdle
  <1>3. /\ Solo' /\ InHand'
        /\ \A t : ~Delivering(t)' /\ ~GivingUp(t)' /\ \A st : ~Marking(t, st)'
    <2>1. \A p \in Procs : procs'[p] = Idle
      BY <1>1
    <2> QED BY <2>1, AllIdleNext
  <1>4. ASSUME NEW t \in SubIds PROVE CountedFor(t)'
    <2>1. file[s] \in Subscription /\ file' = [file EXCEPT ![s].recent = FALSE] /\ file[s] # Absent
      BY DEF CoolDown, TypesKept, File
    <2>2. \/ file'[t] = file[t]
          \/ t = s /\ file'[t] = [file[s] EXCEPT !.recent = FALSE]
      BY <2>1 DEF TypesKept, File
    <2>3. LET n == [file[s] EXCEPT !.recent = FALSE] IN
          /\ n # Absent /\ n.gran = file[s].gran /\ n.kind = file[s].kind /\ n.status = file[s].status
          /\ n.attempts = file[s].attempts /\ n.notified = file[s].notified
      BY <2>1, IdsAssumption DEF Subscription
    <2>4. CountedFor(t)
      BY DEF Counted
    <2>5. CASE file'[t] = file[t]
      BY <1>1, <1>2, <1>3, <2>4, <2>5 DEF CountedFor, SpawnsFit, FailuresFit, MessagesFit, One
    <2>6. CASE t = s /\ file'[t] = [file[s] EXCEPT !.recent = FALSE]
      BY <1>1, <1>2, <1>3, <2>1, <2>3, <2>4, <2>6 DEF CountedFor, SpawnsFit, FailuresFit, MessagesFit, One
    <2> QED BY <2>2, <2>5, <2>6
  <1> QED BY <1>3, <1>4 DEF Counted

(* A crash leaves at most one delivery of each kind counted and not noted. *)
LEMMA CrashAlone ==
    ASSUME TypesKept, Counted, Crash
    PROVE  Solo' /\ InHand' /\ Counted'
  <1>1. /\ Solo' /\ InHand'
        /\ \A s : ~Delivering(s)' /\ ~GivingUp(s)' /\ \A st : ~Marking(s, st)'
    <2>1. \A p \in Procs : procs'[p] = Idle
      BY CrashParties
    <2> QED BY <2>1, AllIdleNext
  <1>2. UNCHANGED <<file, spawned, failed, told>> /\ used.crashes \in Nat /\ used'.crashes = used.crashes + 1
    BY Uses DEF Crash, ghosts, TypesKept
  <1>3. ASSUME NEW s \in SubIds PROVE CountedFor(s)'
    <2>1. CountedFor(s)
      BY DEF Counted
    <2>2. /\ spawned[s] \in Nat /\ failed[s] \in Nat /\ \A st \in TRIGGER_STATUSES : told[s][st] \in Nat
          /\ file[s] # Absent => file[s].attempts \in Nat
      BY DEF TypesKept, File, Subscription
    <2>3. SpawnsFit(file'[s], spawned'[s], used'.crashes, FALSE)
      BY <1>2, <2>1, <2>2 DEF CountedFor, SpawnsFit, One
    <2>4. FailuresFit(file'[s], failed'[s], used'.crashes, FALSE)
      BY <1>2, <2>1, <2>2 DEF CountedFor, FailuresFit, One
    <2>5. \A st \in TRIGGER_STATUSES : MessagesFit(file'[s], told'[s][st], used'.crashes, st, FALSE)
      BY <1>2, <2>1, <2>2 DEF CountedFor, MessagesFit, One
    <2> QED BY <1>1, <2>3, <2>4, <2>5 DEF CountedFor, SpawnsFit, FailuresFit, MessagesFit, One
  <1> QED BY <1>1, <1>3 DEF Counted

(* A user starts. *)
LEMMA UserAlone ==
    ASSUME TypesKept, Alone, Counted, NEW s \in SubIds, aofTaskSubscribe(s) \/ aofTaskUnsubscribe(s)
    PROVE  Solo' /\ InHand' /\ Counted'
  <1>1. PICK c \in Changes :
           /\ Quiet /\ procs["user"].pc = "idle"
           /\ OneParty("user", [Idle EXCEPT !.pc = "read", !.id = s, !.todo = <<c>>])
           /\ \/ c = [op |-> "create", sub |-> create("completion", "agent-callback")] /\ file[s] = Absent
              \/ c = [op |-> "cancel"] /\ file[s] # Absent
    BY UserStep
  <1>2. PICK k : k = [Idle EXCEPT !.pc = "read", !.id = s, !.todo = <<c>>]
    OBVIOUS
  <1>3. k.pc = "read" /\ k.id = s /\ k.todo = <<c>> /\ k.queue = {}
    BY <1>2 DEF Idle
  <1>4. OthersIdle("user") /\ "user" \in Procs
    BY <1>1, QuietAlone, Names
  <1>5. UNCHANGED <<file, spawned, failed, told, used>>
    BY DEF aofTaskSubscribe, aofTaskUnsubscribe, UserChange, ghosts
  <1>6. Current("user", k)' /\ Errand("user", k, file'[k.id])
    BY <1>1, <1>3, <1>5 DEF Current, Errand, Ops
  <1>7. Solo' /\ InHand'
    BY <1>1, <1>2, <1>3, <1>4, <1>6, InHandAfterOne
  <1>8. \A t : /\ ~DeliveringBy("user", k, t) /\ ~GivingUpBy("user", k, t)
               /\ \A st : ~MarkingBy("user", k, t, st)
    BY NothingNoted
  <1>9. \A t : /\ ~DeliveringBy("user", procs["user"], t) /\ ~GivingUpBy("user", procs["user"], t)
               /\ \A st : ~MarkingBy("user", procs["user"], t, st)
    BY NothingNoted
  <1>10. Counted'
    BY <1>1, <1>2, <1>4, <1>5, <1>8, <1>9, CountedSame
  <1> QED BY <1>7, <1>10

(* A delivery, a scan or the replay starts, with the active subscriptions. *)
LEMMA BeginAlone ==
    ASSUME TypesKept, Alone, Counted,
           deliverAllCallbacksSafely \/ retryPendingDeliveries \/ replayUnnotifiedTerminals
    PROVE  Solo' /\ InHand' /\ Counted'
  <1>1. UNCHANGED <<file, spawned, failed, told, used>>
    BY DEF deliverAllCallbacksSafely, retryPendingDeliveries, replayUnnotifiedTerminals, Begin, ghosts
  <1>2. ASSUME NEW p \in Callers, Quiet, NEW list, NEW phase, OneParty(p, Started(list, phase, "none")),
               NEW ids \in SUBSET Active(file), list = Listed(ids) \/ list = {},
               \A s \in ids : file[s].kind = "agent-callback"
        PROVE  Solo' /\ InHand' /\ Counted'
    <2>1. \A e \in list : e[2] = file[e[1]] /\ e[2] # Absent /\ e[2].status = "active" /\ e[2].kind = "agent-callback"
      BY <1>2, Listing
    <2>2. p \in Procs /\ p \notin Senders /\ OthersIdle(p) /\ procs[p].pc = "idle"
      BY <1>2, QuietAlone, Names
    <2> QED BY <1>1, <1>2, <2>1, <2>2, StartAlone
  <1>3. CASE deliverAllCallbacksSafely
    <2> DEFINE ids == {s \in Active(file) :
                 file[s].gran = "completion" /\ resolveDeliveryKind(file[s]) = "agent-callback"}
    <2>1. ids \in SUBSET Active(file) /\ (completionSubs = Listed(ids) \/ completionSubs = {})
          /\ \A s \in ids : file[s].kind = "agent-callback"
      BY DEF completionSubs, resolveDeliveryKind
    <2>2. "callback" \in Callers
      BY DEF Callers
    <2> HIDE DEF ids
    <2> QED BY <1>2, <1>3, <2>1, <2>2, CallbackStep
  <1>4. CASE retryPendingDeliveries
    <2> DEFINE ids == {s \in Active(file) : /\ file[s].attempts < MAX_DELIVERY_ATTEMPTS /\ ~file[s].recent
                                            /\ resolveDeliveryKind(file[s]) = "agent-callback"}
    <2>1. ids \in SUBSET Active(file) /\ retryCandidates = Listed(ids)
          /\ \A s \in ids : file[s].kind = "agent-callback"
      BY DEF retryCandidates, resolveDeliveryKind
    <2>2. "poll" \in Callers
      BY DEF Callers
    <2> HIDE DEF ids
    <2> QED BY <1>2, <1>4, <2>1, <2>2, PollStep
  <1>5. CASE replayUnnotifiedTerminals
    <2>1. Quiet /\ OneParty("replay", Started(replayList, "last", status)) /\ "replay" \in Senders
      BY <1>5, ReplayStep
    <2>2. "replay" \in Procs /\ OthersIdle("replay") /\ procs["replay"].pc = "idle"
      BY <2>1, QuietAlone, Names
    <2>3. \A e \in replayList : /\ e[2] = file[e[1]] /\ e[2] # Absent /\ e[2].status = "active"
                                /\ e[2].kind = "openclaw-chat" /\ status \notin e[2].notified
      BY ChatList DEF replayList
    <2> QED BY <1>1, <2>1, <2>2, <2>3, StartAlone
  <1> QED BY <1>3, <1>4, <1>5

(* What one party at a time delivers is counted, whatever happens. *)
LEMMA AloneStep == TypesKept /\ AloneKept /\ [Next]_vars => AloneKept'
  <1> SUFFICES ASSUME TypesKept, AloneKept, [Next]_vars, Alone PROVE Solo' /\ InHand' /\ Counted'
    <2>1. ASSUME [Next]_vars PROVE setup' = setup
      BY <2>1, Actions DEF vars, ReadFile, WriteFile, NextSub, Serve, deliverOne, Transition,
         deliverAllCallbacksSafely, retryPendingDeliveries, Begin, CoolDown, aofTaskSubscribe,
         aofTaskUnsubscribe, UserChange, replayUnnotifiedTerminals, Attach, Crash
    <2> QED BY <2>1 DEF AloneKept, Alone
  <1>1. Solo /\ InHand /\ Counted
    BY DEF AloneKept
  <1>2. ASSUME UNCHANGED <<status, file, procs, spawned, failed, told, used>> PROVE Solo' /\ InHand' /\ Counted'
    <2>1. Solo' /\ InHand'
      BY <1>1, <1>2 DEF Solo, InHand, Current
    <2>2. \A s : /\ Delivering(s)' <=> Delivering(s)
                 /\ GivingUp(s)' <=> GivingUp(s)
                 /\ \A st : Marking(s, st)' <=> Marking(s, st)
      BY <1>2 DEF Delivering, GivingUp, Marking
    <2>3. ASSUME NEW s \in SubIds PROVE CountedFor(s)'
      <3>1. CountedFor(s)
        BY <1>1 DEF Counted
      <3> QED BY <1>2, <2>2, <3>1 DEF CountedFor, SpawnsFit, FailuresFit, MessagesFit, One
    <2> QED BY <2>1, <2>3 DEF Counted
  <1>3. CASE UNCHANGED vars \/ Attach
    BY <1>2, <1>3 DEF vars, Attach, ghosts
  <1> QED BY <1>1, <1>3, ReadAlone, WriteAlone, NextAlone, ServeAlone, DeliverAlone, TransitionAlone,
             BeginAlone, CoolAlone, UserAlone, CrashAlone, Actions

(* --------------------------------- Results -------------------------------- *)

(* Cancelled subscriptions are in nobody's hands except their user's. *)
LEMMA WriteKeepsCancelled ==
    ASSUME TypesKept, Solo, InHand, NEW p \in Procs, WriteFile(p),
           NEW s \in SubIds, file[s] # Absent, file[s].status = "cancelled"
    PROVE  file'[s].status = "cancelled"
  <1>1. PICK r, c, o : o = procs[p] /\ r = file[o.id] /\ c = o.todo[1]
    OBVIOUS
  <1>2. /\ o \in Party /\ o.id \in SubIds /\ o.todo \in Seq(Changes) /\ o.todo # <<>>
        /\ o.snap = file /\ Errand(p, o, r) /\ Head(o.todo) = c /\ c \in Changes
    <2>1. o.pc = "write" /\ o \in Party /\ o.id \in SubIds /\ o.todo \in Seq(Changes) /\ o.todo # <<>>
      BY <1>1 DEF TypesKept, WriteFile, Equipped, Party
    <2>2. o.snap = file /\ Errand(p, o, r)
      BY <1>1, <2>1 DEF Solo, InHand
    <2> QED BY <1>1, <2>1, <2>2, TailOf
  <1>3. CASE Made(p) /\ o.id = s
    <2>1. p = "user" /\ c.op = "cancel"
      BY <1>1, <1>2, <1>3, CallerErrand, SenderErrand, UserErrand, Names
    <2>2. r \in Subscription
      BY <1>1, <1>3 DEF TypesKept, File
    <2>3. file'[s] = Change(r, c)
      <3>1. file' = [file EXCEPT ![s] = Change(r, c)]
        BY <1>1, <1>2, <1>3 DEF Made
      <3> QED BY <3>1 DEF TypesKept, File
    <2>4. c \in Changes /\ c.op # "create"
      BY <1>2, <2>1
    <2>5. Change(r, c).status = "cancelled"
      BY <2>1, <2>2, <2>4, ChangeOf
    <2> QED BY <2>3, <2>5
  <1>4. CASE Made(p) /\ o.id # s
    BY <1>1, <1>2, <1>4 DEF Made, TypesKept, File
  <1>5. CASE file' = file
    BY <1>5
  <1> QED BY <1>3, <1>4, <1>5, WriteStep

(* No step revives a cancelled subscription. *)
LEMMA CancelKept == TypesKept /\ AloneKept /\ [Next]_vars => CancelStep
  <1> SUFFICES ASSUME TypesKept, AloneKept, [Next]_vars, Alone, NEW s \in SubIds,
                      file[s] # Absent, file[s].status = "cancelled"
               PROVE  file'[s].status = "cancelled"
    BY DEF CancelStep
  <1>1. Solo /\ InHand
    BY DEF AloneKept
  <1>2. ASSUME NEW t \in SubIds, CoolDown(t) PROVE file'[s].status = "cancelled"
    <2>1. file' = [file EXCEPT ![t].recent = FALSE] /\ file[s] \in Subscription
      BY <1>2 DEF CoolDown, TypesKept, File
    <2> QED BY <2>1 DEF TypesKept, File, Subscription
  <1>3. CASE file' = file
    BY <1>3
  <1>4. file' = file \/ (\E p \in Procs : WriteFile(p)) \/ \E t \in SubIds : CoolDown(t)
    BY Actions DEF vars, ReadFile, NextSub, Serve, deliverOne, Transition, deliverAllCallbacksSafely,
       retryPendingDeliveries, Begin, aofTaskSubscribe, aofTaskUnsubscribe, UserChange,
       replayUnnotifiedTerminals, Attach, Crash, ghosts
  <1> QED BY <1>1, <1>2, <1>3, <1>4, WriteKeepsCancelled

(* What a subscriber is told, as far as one state shows it. *)
LEMMA CountsImply ==
    ASSUME TypesKept, ClaimsTrue, AloneKept
    PROVE  TypeOK /\ CalledOnce /\ ToldOnce /\ GivesUpAfterThree /\ NoGap
  <1>1. TypeOK /\ NoGap
    BY DEF TypesKept, ClaimsTrue, BackedFile, Backed, TypeOK, NoGap, File
  <1>2. ASSUME Alone, NEW s \in SubIds
        PROVE  /\ file[s] # Absent /\ file[s].gran = "completion" => spawned[s] <= 1 + used.crashes
               /\ \A st \in TRIGGER_STATUSES : told[s][st] <= 1 + used.crashes
               /\ file[s] # Absent /\ file[s].gran = "completion" =>
                     /\ failed[s] <= MAX_DELIVERY_ATTEMPTS + used.crashes
                     /\ file[s].status = "failed" => failed[s] >= MAX_DELIVERY_ATTEMPTS
    <2>1. InHand /\ CountedFor(s)
      BY <1>2 DEF AloneKept, Counted
    <2>2. /\ spawned[s] \in Nat /\ failed[s] \in Nat /\ used.crashes \in Nat
          /\ \A st \in TRIGGER_STATUSES : told[s][st] \in Nat
          /\ file[s] # Absent => file[s].attempts \in Nat /\ file[s].kind \in {"agent-callback", "openclaw-chat"}
      BY DEF TypesKept, File, Subscription
    <2>3. file[s] # Absent /\ file[s].gran = "completion" => spawned[s] <= 1 + used.crashes
      BY <2>1, <2>2 DEF CountedFor, SpawnsFit, One
    <2>4. \A st \in TRIGGER_STATUSES : told[s][st] <= 1 + used.crashes
      BY <2>1, <2>2 DEF CountedFor, MessagesFit, One
    <2>5. GivingUp(s) => file[s] # Absent /\ file[s].status = "active"
      <3> SUFFICES ASSUME GivingUp(s) PROVE file[s] # Absent /\ file[s].status = "active"
        OBVIOUS
      <3>1. PICK p \in Procs : GivingUpBy(p, procs[p], s)
        BY DEF GivingUp
      <3>2. p \in Callers /\ Errand(p, procs[p], file[s])
        BY <2>1, <3>1 DEF GivingUpBy, Noting, InHand
      <3> QED BY <3>2, CallerErrand
    <2>6. ASSUME file[s] # Absent, file[s].gran = "completion"
          PROVE  /\ failed[s] <= MAX_DELIVERY_ATTEMPTS + used.crashes
                 /\ file[s].status = "failed" => failed[s] >= MAX_DELIVERY_ATTEMPTS
      <3>1. CASE file[s].kind = "openclaw-chat"
        BY <2>1, <2>2, <2>6, <3>1 DEF CountedFor, FailuresFit, MAX_DELIVERY_ATTEMPTS
      <3>2. CASE file[s].kind = "agent-callback"
        BY <2>1, <2>2, <2>5, <2>6, <3>2 DEF CountedFor, FailuresFit, MAX_DELIVERY_ATTEMPTS, One
      <3> QED BY <2>2, <2>6, <3>1, <3>2
    <2> QED BY <2>3, <2>4, <2>6
  <1> QED BY <1>1, <1>2 DEF CalledOnce, ToldOnce, GivesUpAfterThree

(* The notifier, with nothing left to do, has announced the status. *)
LEMMA AnnouncingImplies ==
    ASSUME TypesKept, Announcing
    PROVE  ReplayComplete
  <1> SUFFICES ASSUME attached, \A p \in Procs : procs[p].pc = "idle", status \in TERMINAL_STATUSES,
                      NEW s \in Active(file), file[s].kind = "openclaw-chat"
               PROVE  status \in tried[s]
    BY DEF ReplayComplete
  <1>1. \A p \in Procs : procs[p] = Idle
    BY DEF TypesKept, Equipped
  <1>2. ~Due(s, status)
    BY <1>1, NothingDue, Names DEF Due
  <1>3. s \in SubIds /\ ChatActive(file, s)
    BY DEF Active, ChatActive
  <1> QED BY <1>2, <1>3 DEF Announcing, Announced

(* Whatever the subscriptions, handlers, failures and crashes: the file      *)
(* keeps its shape, no transition is skipped for a subscriber to all of      *)
(* them, and, unless parties overlap, a subscriber is called once, told of   *)
(* each status once and given up after three failures, crashes apart         *)
(* (deliverSingleCallback, deliverAllGranularity, deliverOne).               *)
THEOREM CallsCounted == Spec => [](TypeOK /\ CalledOnce /\ ToldOnce /\ GivesUpAfterThree /\ NoGap)
  <1>1. Init => TypesKept /\ ClaimsTrue /\ AloneKept
    BY InitTypes, InitClaims, InitAlone
  <1>2. TypesKept /\ ClaimsTrue /\ AloneKept /\ [Next]_vars => (TypesKept /\ ClaimsTrue /\ AloneKept)'
    BY TypesStep, ClaimsStep, AloneStep
  <1>3. TypesKept /\ ClaimsTrue /\ AloneKept => TypeOK /\ CalledOnce /\ ToldOnce /\ GivesUpAfterThree /\ NoGap
    BY CountsImply
  <1> QED BY <1>1, <1>2, <1>3, PTL DEF Spec

(* Nothing revives a cancelled subscription, unless parties overlap          *)
(* (SubscriptionStore.cancel).                                               *)
THEOREM CancelsStick == Spec => CancelSticks
  <1>1. Init => TypesKept /\ AloneKept
    BY InitTypes, InitAlone
  <1>2. TypesKept /\ AloneKept /\ [Next]_vars => (TypesKept /\ AloneKept)'
    BY TypesStep, AloneStep
  <1>3. TypesKept /\ AloneKept /\ [Next]_vars => [CancelStep]_vars
    BY CancelKept
  <1> QED BY <1>1, <1>2, <1>3, PTL DEF Spec, CancelSticks

(* If no task moves while a booting daemon replays, the notifier moreover    *)
(* has tried to tell every active chat subscriber of a finished task, over   *)
(* crashes between transition and message (replayUnnotifiedTerminals).       *)
THEOREM SubscribersHear ==
    ASSUME BootsUndisturbed PROVE Spec => []HeardInOrder
  <1>1. Init => TypesKept /\ ClaimsTrue /\ Announcing /\ AloneKept
    BY InitTypes, InitClaims, InitAnnouncing, InitAlone
  <1>2. TypesKept /\ ClaimsTrue /\ Announcing /\ AloneKept /\ [Next]_vars
          => (TypesKept /\ ClaimsTrue /\ Announcing /\ AloneKept)'
    BY TypesStep, ClaimsStep, AnnouncingStep, AloneStep
  <1>3. TypesKept /\ ClaimsTrue /\ Announcing /\ AloneKept => HeardInOrder
    BY CountsImply, AnnouncingImplies DEF HeardInOrder
  <1> QED BY <1>1, <1>2, <1>3, PTL DEF Spec
=============================================================================
