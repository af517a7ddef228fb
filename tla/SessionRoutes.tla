---------------------------- MODULE SessionRoutes ----------------------------
(* Where the answer to a dispatch goes: the plugin notes the route of every      *)
(* message of a session, joins it with the tool call that dispatches a task and  *)
(* puts the result into the call's parameters when the call is executed.         *)
EXTENDS Naturals, Sequences, SequencesExt

CONSTANTS
    Talkers,    \* the chats: a session key each, a session id for each of their lives
    None,
    Setups      \* records: messages, dispatches, ends, compactions (how many of each),
                \* names (what a hook's context holds: key, id or both), maxRoutes, maxCalls

VARIABLES
    setup, budget,
    routes,       \* bySessionKey and bySessionId, each in the order of its keys
    byToolCallId,
    dispatches,   \* the calls between before_tool_call and after_tool_call, and done
    life,         \* how often the session of a chat has ended
    talked        \* the target of the chat's last message, in this life since a compaction

vars == <<setup, budget, routes, byToolCallId, dispatches, life, talked>>

Init ==
    /\ setup \in Setups
    /\ budget = [k \in {"messages", "dispatches", "ends", "compactions"} |-> setup[k]]
    /\ routes = [n \in {"key", "id"} |-> <<>>] /\ byToolCallId = <<>> /\ dispatches = <<>>
    /\ life = [s \in Talkers |-> 0] /\ talked = [s \in Talkers |-> None]

Spend(k) == budget[k] > 0 /\ budget' = [budget EXCEPT ![k] = @ - 1]

Entry(m, k) == SelectLastInSeq(m, LAMBDA e : e.key = k)
(* Map.delete: a key is there once at most. *)
Without(m, k) == LET i == Entry(m, k) IN IF i = 0 THEN m ELSE RemoveAt(m, i)
(* storeRecipient: a Map keeps the place of a key that is set again; beyond the   *)
(* limit the first key goes.                                                      *)
storeRecipient(m, k, r, max) ==
    LET i == Entry(m, k)
        set == IF i = 0 THEN Append(m, [key |-> k, recipient |-> r])
               ELSE [m EXCEPT ![i].recipient = r]
    IN IF Len(set) > max THEN Tail(set) ELSE set
getRecipient(m, k) == LET i == Entry(m, k) IN IF i = 0 THEN None ELSE m[i].recipient

(* extractRecipient: what the context of a hook says of the session.              *)
NameOf(s, n) == IF n = "key" THEN s ELSE <<s, life[s]>>
extractRecipient(s, target) ==
    [key |-> IF "key" \in setup.names THEN NameOf(s, "key") ELSE None,
     id |-> IF "id" \in setup.names THEN NameOf(s, "id") ELSE None, target |-> target]
mergeRecipients(p, f) == IF f = None \/ p.target # None THEN p ELSE [p EXCEPT !.target = f.target]

captureMessageRoute(s, target) ==
    /\ Spend("messages")
    /\ routes' = [n \in DOMAIN routes |->
           IF n \in setup.names
           THEN storeRecipient(routes[n], NameOf(s, n), extractRecipient(s, target), setup.maxRoutes)
           ELSE routes[n]]
    /\ talked' = [talked EXCEPT ![s] = target]
    /\ UNCHANGED <<setup, byToolCallId, dispatches, life>>

(* The key finds the route when there is one, else the id.                        *)
Fallback(s) ==
    LET n == IF "key" \in setup.names THEN "key" ELSE "id" IN getRecipient(routes[n], NameOf(s, n))
captureToolCall(s, target) ==
    LET c == Len(dispatches) + 1
        said == IF target = None THEN talked[s] ELSE target IN
    /\ Spend("dispatches")
    /\ byToolCallId' = storeRecipient(byToolCallId, c,
           mergeRecipients(extractRecipient(s, target), Fallback(s)), setup.maxCalls)
    /\ dispatches' = Append(dispatches, [chat |-> s, life |-> life[s], said |-> said, pc |-> "called",
           kept |-> TRUE, raw |-> None, delivery |-> None])
    /\ UNCHANGED <<setup, routes, life, talked>>

(* execute: mergeDispatchNotificationRecipient consumes what was captured. The    *)
(* caller leaves the delivery to it, declines it or names a target of its own.    *)
Delivery(captured, raw) ==
    IF raw = "declined" \/ (raw = "auto" /\ captured = None) THEN None
    ELSE [from |-> captured, target |-> IF raw = "own" THEN <<raw>> ELSE captured.target]
execute(c, raw) ==
    /\ dispatches[c].pc = "called"
    /\ dispatches' = [dispatches EXCEPT ![c].pc = "executed", ![c].raw = raw,
           ![c].delivery = Delivery(getRecipient(byToolCallId, c), raw)]
    /\ byToolCallId' = Without(byToolCallId, c)
    /\ UNCHANGED <<setup, budget, routes, life, talked>>
(* after_tool_call, also of a call that was never executed.                       *)
clearToolCall(c) ==
    /\ dispatches[c].pc # "over" /\ dispatches' = [dispatches EXCEPT ![c].pc = "over"]
    /\ byToolCallId' = Without(byToolCallId, c)
    /\ UNCHANGED <<setup, budget, routes, life, talked>>

(* session_end: the next message of the chat has a new session id.                *)
clearSessionRoute(s) ==
    /\ Spend("ends")
    /\ routes' = [n \in DOMAIN routes |->
           IF n \in setup.names THEN Without(routes[n], NameOf(s, n)) ELSE routes[n]]
    /\ life' = [life EXCEPT ![s] = @ + 1] /\ talked' = [talked EXCEPT ![s] = None]
    /\ UNCHANGED <<setup, byToolCallId, dispatches>>
(* before_compaction of any session.                                              *)
clearAll ==
    /\ Spend("compactions")
    /\ routes' = [n \in DOMAIN routes |-> <<>>] /\ byToolCallId' = <<>>
    /\ talked' = [s \in Talkers |-> None]
    /\ dispatches' = [c \in DOMAIN dispatches |-> [dispatches[c] EXCEPT !.kept = FALSE]]
    /\ UNCHANGED <<setup, life>>

(* A target is a thread of the chat: every message may come from a new one.       *)
Target(s) == <<s, budget.messages + budget.dispatches>>
Next ==
    \/ \E s \in Talkers :
           \/ \E t \in {None, Target(s)} : captureMessageRoute(s, t) \/ captureToolCall(s, t)
           \/ clearSessionRoute(s)
    \/ clearAll
    \/ \E c \in DOMAIN dispatches :
           clearToolCall(c) \/ \E raw \in {"auto", "declined", "own"} : execute(c, raw)

(* The answer to a dispatch goes to the session that made it, to the place it     *)
(* spoke from last in this life, however the hooks of other sessions fall between *)
(* (OpenClawToolInvocationContextStore, mergeDispatchNotificationRecipient): a    *)
(* route the caller left to the plugin is its own or none, and with room for all  *)
(* and no compaction in between it is there.                                      *)
AnswersOf(d) == d.pc # "called" /\ d.delivery # None /\ d.raw = "auto"
RouteTrue ==
    \A c \in DOMAIN dispatches :
        LET d == dispatches[c]
            room == setup.maxRoutes >= setup.messages /\ setup.maxCalls >= setup.dispatches IN
        /\ AnswersOf(d) =>
              /\ d.delivery.from.key \in {None, d.chat}
              /\ d.delivery.from.id \in {None, <<d.chat, d.life>>}
              /\ d.delivery.target \in {None, d.said}
              /\ room => d.delivery.target = d.said
        /\ d.pc = "executed" /\ d.raw = "auto" /\ room /\ d.kept => d.delivery # None
==============================================================================
