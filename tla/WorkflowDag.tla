---------------------------- MODULE WorkflowDag ----------------------------
(* The workflow engine as pure operators: validation and initial state       *)
(* (schemas/workflow-dag.ts) and evaluateDAG (dispatch/dag-evaluator.ts).    *)
(* A definition is a sequence of hops in definition order, a hop is named by *)
(* its position, and a state is a function from hops to hop states.  The     *)
(* condition language is in HopConditions.                                   *)
EXTENDS Integers, Sequences, FiniteSets, FiniteSetsExt

CONSTANTS NoNote,                   \* no result, or one without notes
          ConditionHolds(_, _, _),  \* of a condition, the hops' states and the tags
          ConditionValid(_, _)      \* of a condition and the hops

DEFAULT_MAX_REJECTIONS == 3

NoCondition == [op |-> "none"]
NoHop == 0

HopStatus == {"pending", "ready", "dispatched", "complete", "failed", "skipped"}
Terminal == {"complete", "failed", "skipped"}
NonSuccess == {"failed", "skipped"}

(* run is the session recorded as correlationId, 0 when there is none. *)
HopState(status) ==
    [status |-> status, rejectionCount |-> 0, escalated |-> FALSE, run |-> 0, note |-> NoNote]

Hops(def) == DOMAIN def
IsRoot(def, h) == def[h].dependsOn = {}
Downstream(def, hs) == {h \in Hops(def) : def[h].dependsOn \cap hs # {}}

(* ------------------------------ Validation ------------------------------ *)

(* Kahn's algorithm: the hops whose in-degree has dropped to zero after n    *)
(* rounds of the queue.  An edge to a hop that does not exist is not counted. *)
Processed(def) ==
    LET round[n \in 0 .. Len(def)] ==
          IF n = 0 THEN {}
          ELSE {h \in Hops(def) : def[h].dependsOn \cap Hops(def) \subseteq round[n - 1]}
    IN  round[Len(def)]

(* The breadth-first search from the roots. *)
Reached(def) ==
    LET round[n \in 0 .. Len(def)] ==
          IF n = 0 THEN {h \in Hops(def) : IsRoot(def, h)}
          ELSE round[n - 1] \cup Downstream(def, round[n - 1])
    IN  round[Len(def)]

(* TRUE when validateDAG returns no error.  Hop ids are positions, so they  *)
(* are unique; the format of a timeout is not modelled.                     *)
validateDAG(def) ==
    /\ \A h \in Hops(def) : def[h].dependsOn \subseteq Hops(def)
    /\ \E h \in Hops(def) : IsRoot(def, h)
    /\ Processed(def) = Hops(def)
    /\ Reached(def) = Hops(def)
    /\ \A h \in Hops(def) :
          def[h].condition # NoCondition => ConditionValid(def[h].condition, Hops(def))

initializeWorkflowState(def) ==
    [h \in Hops(def) |-> HopState(IF IsRoot(def, h) THEN "ready" ELSE "pending")]

(* ------------------------------ Evaluation ------------------------------ *)

With(s, hs, status) == [h \in DOMAIN s |-> IF h \in hs THEN [s[h] EXCEPT !.status = status] ELSE s[h]]
Having(s, statuses) == {h \in DOMAIN s : s[h].status \in statuses}

(* Pending hops downstream of start all of whose predecessors are skipped or *)
(* failed, those skipped by this cascade included.                           *)
cascadeSkips(def, s, start) ==
    LET round[n \in 0 .. Len(def)] ==
          IF n = 0 THEN {start}
          ELSE LET gone == round[n - 1] IN
               gone \cup {h \in Downstream(def, gone) :
                            /\ s[h].status = "pending"
                            /\ def[h].dependsOn \subseteq gone \cup Having(s, NonSuccess)}
    IN  With(s, round[Len(def)] \ {start}, "skipped")

(* In definition order: a hop skipped here counts as terminal for the hops  *)
(* defined after it, not for those before it.  No cascade.                   *)
evaluateNewlyEligibleConditions(def, s, tags) ==
    LET after[n \in 0 .. Len(def)] ==
          IF n = 0 THEN s
          ELSE LET cur == after[n - 1] IN
               IF /\ cur[n].status = "pending"
                  /\ def[n].condition # NoCondition
                  /\ def[n].dependsOn \subseteq Having(cur, Terminal)
                  /\ ~ConditionHolds(def[n].condition, cur, tags)
               THEN With(cur, {n}, "skipped")
               ELSE cur
    IN  after[Len(def)]

(* Mutation of JoinSatisfied: an AND-join is satisfied by one predecessor. *)
JoinSatisfiedByOne(def, s, h) ==
    def[h].dependsOn \cap Having(s, {"complete", "skipped"}) # {}

JoinSatisfied(def, s, h) ==
    IF def[h].joinType = "any"
    THEN def[h].dependsOn \cap Having(s, {"complete"}) # {}
    ELSE def[h].dependsOn \subseteq Having(s, {"complete", "skipped"})

determineReadyHops(def, s) ==
    {h \in Having(s, {"pending"}) : ~IsRoot(def, h) /\ JoinSatisfied(def, s, h)}

checkDAGCompletion(s) ==
    IF Having(s, Terminal) # DOMAIN s THEN "running"
    ELSE IF Having(s, {"failed"}) # {} THEN "failed" ELSE "complete"

(* Only the rejected hop keeps a rejection count. *)
Reset(s, h, status, rejected, count) ==
    [HopState(status) EXCEPT !.rejectionCount = IF h = rejected THEN count ELSE 0]

resetAllHopsForOrigin(def, s, rejected, count) ==
    [h \in DOMAIN s |-> Reset(s, h, initializeWorkflowState(def)[h].status, rejected, count)]

(* resetSet is walked with the rejected hop first; a dependency inside it is *)
(* never satisfied, so the order does not matter.                            *)
resetPredecessorHops(def, s, rejected, count) ==
    LET resetSet == {rejected} \cup def[rejected].dependsOn
        Settled(h) == def[h].dependsOn \subseteq Having(s, {"complete", "skipped"}) \ resetSet
    IN  [h \in DOMAIN s |->
            IF h \notin resetSet THEN s[h]
            ELSE Reset(s, h, IF Settled(h) THEN "ready" ELSE "pending", rejected, count)]

RejectHop(def, s, h) ==
    LET count == s[h].rejectionCount + 1
        broken == [s EXCEPT ![h] = [@ EXCEPT !.status = "failed", !.rejectionCount = count]]
    IN  IF count >= DEFAULT_MAX_REJECTIONS THEN cascadeSkips(def, broken, h)
        ELSE IF def[h].rejectionStrategy = "origin" THEN resetAllHopsForOrigin(def, s, h, count)
        ELSE resetPredecessorHops(def, s, h, count)

(* Of the readyHops array only the first is ever used.  The hops that the    *)
(* join makes ready come before those of a reset, in definition order.       *)
FirstOf(found, reset) ==
    CASE found # {} -> Min(found)
      [] found = {} /\ reset # {} -> Min(reset)
      [] OTHER -> NoHop

Evaluated(new, next) == [hops |-> new, next |-> next, dagStatus |-> checkDAGCompletion(new)]

(* evaluateDAG: the new state, the first hop to dispatch and the verdict.    *)
(* After a rejection, pending hops whose join is satisfied are reported as   *)
(* ready but keep their status.                                              *)
evaluateDAG(def, s, h, outcome, note, tags) ==
    IF outcome = "rejected"
    THEN LET new == RejectHop(def, s, h)
         IN  Evaluated(new, FirstOf(determineReadyHops(def, new), Having(new, {"ready"})))
    ELSE LET primary == [s EXCEPT ![h] = [@ EXCEPT !.status = outcome, !.note = note]]
             cascaded == IF outcome = "complete" THEN primary
                         ELSE cascadeSkips(def, primary, h)
             conditioned == evaluateNewlyEligibleConditions(def, cascaded, tags)
             found == determineReadyHops(def, conditioned)
         IN  Evaluated(With(conditioned, found, "ready"), FirstOf(found, {}))
=============================================================================
