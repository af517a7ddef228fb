---------------------------- MODULE MCWorkflow ----------------------------
(* Instances of Workflow for TLC.                                           *)
EXTENDS Workflow

CONSTANTS e1, e2

Conditions == INSTANCE HopConditions
Holds(e, hops, tags) == Conditions!evaluateCondition(e, hops, tags)
Valid(e, hops) == Conditions!validCondition(e, hops)

Plain == [dependsOn |-> {}, joinType |-> "all", autoAdvance |-> TRUE, condition |-> NoCondition,
          canReject |-> FALSE, rejectionStrategy |-> "origin", timeout |-> FALSE, escalateTo |-> FALSE]
After(deps) == [Plain EXCEPT !.dependsOn = deps]
Reviewing(hop) == [hop EXCEPT !.canReject = TRUE]
Timed(hop) == [hop EXCEPT !.timeout = TRUE, !.escalateTo = TRUE]
If(hop, c) == [hop EXCEPT !.condition = c]
AnyOf(deps) == [After(deps) EXCEPT !.joinType = "any"]
Held(hop) == [hop EXCEPT !.autoAdvance = FALSE]

NoteAbove(h, n) == [op |-> "and", conditions |->
                      {[op |-> "gt", hop |-> h, value |-> n], [op |-> "not", condition |-> [op |-> "false"]]}]
Ended(h) == [op |-> "or", conditions |->
                      {[op |-> "hop_status", hop |-> h, value |-> "failed"],
                       [op |-> "has_tag", value |-> "urgent"],
                       [op |-> "in", hop |-> h, value |-> {2}]}]

Bounds(r, e, s, u, x, c) ==
    [reports |-> r, ends |-> e, spawns |-> s, resumes |-> u, exits |-> x, crashes |-> c]

Case(def, outcomes, notes, overlap, bounds) ==
    [def |-> def, outcomes |-> outcomes, notes |-> notes, tags |-> {"routine"},
     overlap |-> overlap, bounds |-> bounds]

ReviewLoop == <<Plain, Reviewing(After({1}))>>
DeepLoop == <<Plain, [Reviewing(After({1})) EXCEPT !.rejectionStrategy = "predecessors"]>>
Diamond == <<Plain, After({1}), If(After({1}), NoteAbove(1, 1)), Held(After({2, 3}))>>
Race == <<Plain, Plain, AnyOf({1, 2}), If(After({2}), Ended(2))>>
Escalating == <<Timed(Plain), After({1})>>

Cases ==
    {Case(ReviewLoop, {"done", "needs_review"}, {1}, FALSE, Bounds(2, 8, 9, 2, 1, 0)),
     Case(DeepLoop, {"done", "needs_review"}, {1}, FALSE, Bounds(2, 8, 9, 2, 1, 0)),
     Case(Diamond, {"done", "blocked"}, {1, 2}, FALSE, Bounds(3, 5, 5, 3, 1, 0)),
     Case(Race, {"done", "blocked"}, {1, 2}, FALSE, Bounds(3, 5, 5, 3, 1, 0)),
     Case(Escalating, {"done"}, {1}, TRUE, Bounds(1, 1, 3, 1, 2, 1)),
     Case(ReviewLoop, {"done", "needs_review"}, {1}, TRUE, Bounds(2, 3, 3, 2, 1, 0))}

(* Every way to wire three hops, the ones that refer to a hop that does not  *)
(* exist included, without running any of them.                              *)
Wirings == {Case(<<After(a), After(b), After(c)>>, {"done"}, {1}, FALSE,
                 Bounds(0, 0, 0, 0, 0, 0)) :
              a \in SUBSET (1 .. 4), b \in SUBSET (1 .. 4), c \in SUBSET (1 .. 4)}

AllCases == Cases \cup Wirings
=============================================================================
