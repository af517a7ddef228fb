----------------------------- MODULE StormBatcher -----------------------------
(* The storm batcher: notifications of a window are collected by event type,    *)
(* then sent one by one, or as one line when there are too many.                *)
EXTENDS Naturals, Sequences, FiniteSets, Functions

CONSTANTS
    Messages,    \* messages, each enqueued once
    TypeOf,      \* their event types
    Critical,    \* those sent at once
    Threshold,
    Setups       \* records: failures

VARIABLES
    setup,
    fresh,      \* messages not yet enqueued
    pending,    \* the Map: by event type, messages in order
    timer,      \* the flush timer is set
    flushes,    \* flushes under way: the groups they have still to send
    heard,      \* messages whose own text or whose storm line was sent
    storms,     \* sizes of the storm lines sent
    lost,       \* sends that failed: the messages in them
    stopped

vars == <<setup, fresh, pending, timer, flushes, heard, storms, lost, stopped>>
EventTypes == {TypeOf[m] : m \in Messages}

Init ==
    /\ setup \in Setups /\ fresh = Messages /\ pending = [e \in EventTypes |-> <<>>]
    /\ timer = FALSE /\ flushes = {} /\ heard = {} /\ storms = {} /\ lost = {} /\ stopped = FALSE

(* safeSend: a failure is written to the console. *)
safeSend(ms) ==
    \/ heard' = heard \cup ms /\ UNCHANGED lost
    \/ Cardinality(lost) < setup.failures /\ lost' = lost \cup ms /\ UNCHANGED heard

enqueue(m) ==
    /\ ~stopped /\ m \in fresh /\ fresh' = fresh \ {m}
    /\ IF m \in Critical
         THEN safeSend({m}) /\ UNCHANGED <<pending, timer>>
         ELSE /\ pending' = [pending EXCEPT ![TypeOf[m]] = Append(@, m)]
              /\ timer' = TRUE /\ UNCHANGED <<heard, lost>>
    /\ UNCHANGED <<setup, flushes, storms, stopped>>

Groups == {[type |-> e, left |-> pending[e], size |-> Len(pending[e])] :
              e \in {x \in EventTypes : pending[x] # <<>>}}
(* Mutation of TakeAll: the Map is emptied when the sending is over. *)
TakeAllLate == /\ flushes' = flushes \cup (IF Groups = {} THEN {} ELSE {Groups})
               /\ timer' = FALSE /\ UNCHANGED pending
(* The groups are taken and the Map cleared before the first send, so what      *)
(* comes meanwhile waits for a timer of its own.                                *)
TakeAll ==
    /\ flushes' = flushes \cup (IF Groups = {} THEN {} ELSE {Groups})
    /\ pending' = [e \in EventTypes |-> <<>>] /\ timer' = FALSE
flush ==
    /\ timer /\ TakeAll /\ UNCHANGED <<setup, fresh, heard, storms, lost, stopped>>
stop ==
    /\ ~stopped /\ stopped' = TRUE /\ TakeAll
    /\ UNCHANGED <<setup, fresh, heard, storms, lost>>

(* The next send of a flush: a storm line, or a message. *)
Without(gs, g, left) == (gs \ {g}) \cup (IF left = <<>> THEN {} ELSE {[g EXCEPT !.left = left]})
FlushStep(gs, g) ==
    /\ gs \in flushes /\ g \in gs
    /\ IF g.size > Threshold
         THEN /\ safeSend(Range(g.left)) /\ storms' = storms \cup {g.size}
              /\ flushes' = (flushes \ {gs}) \cup ({Without(gs, g, <<>>)} \ {{}})
         ELSE /\ safeSend({Head(g.left)}) /\ UNCHANGED storms
              /\ flushes' = (flushes \ {gs}) \cup ({Without(gs, g, Tail(g.left))} \ {{}})
    /\ UNCHANGED <<setup, fresh, pending, timer, stopped>>

Next ==
    \/ (\E m \in Messages : enqueue(m)) \/ flush \/ stop
    \/ \E gs \in flushes : \E g \in gs : FlushStep(gs, g)
Fairness == WF_vars(flush) /\ WF_vars(\E gs \in flushes : \E g \in gs : FlushStep(gs, g))
Spec == Init /\ [][Next]_vars /\ Fairness

(* No message is forgotten between two flushes, nor by a stop: what was         *)
(* enqueued is waiting under a running timer, in a flush, or sent, and in one   *)
(* of these places only (StormBatcher).                                         *)
Waiting == UNION {Range(pending[e]) : e \in EventTypes}
Leaving == UNION {UNION {Range(g.left) : g \in gs} : gs \in flushes}
NoneForgotten ==
    /\ Messages = fresh \cup Waiting \cup Leaving \cup heard \cup lost
    /\ Waiting \cap (Leaving \cup heard \cup lost) = {} /\ Leaving \cap heard = {}
    /\ Waiting # {} => timer
=============================================================================
