--------------------------- MODULE HopConditions ---------------------------
(* The condition language of workflow hops: evaluation                       *)
(* (dispatch/dag-condition-evaluator.ts) and the complexity limits of        *)
(* schemas/workflow-dag.ts.  An expression is a record whose op names the    *)
(* operator; a field is the note in the result of a hop, the only result     *)
(* field the transition handler ever stores.                                 *)
EXTENDS Integers, FiniteSets, FiniteSetsExt

CONSTANT NoNote          \* undefined: the hop has no result, or one without notes

MAX_CONDITION_DEPTH == 5
MAX_CONDITION_NODES == 50

Logical == {"and", "or"}
Ordering == {"gt", "gte", "lt", "lte"}

(* getField on "hops.<h>.result.notes".  A missing hop resolves to undefined. *)
getField(hops, h) == IF h \in DOMAIN hops THEN hops[h].note ELSE NoNote

(* A JavaScript comparison with a value that is no number is false. *)
Compare(op, field, value) ==
    /\ field # NoNote
    /\ field \in Int
    /\ CASE op = "gt"  -> field > value
         [] op = "gte" -> field >= value
         [] op = "lt"  -> field < value
         [] OTHER      -> field <= value

RECURSIVE evaluateCondition(_, _, _)
evaluateCondition(e, hops, tags) ==
    CASE e.op = "eq"         -> getField(hops, e.hop) = e.value
      [] e.op = "neq"        -> getField(hops, e.hop) # e.value
      [] e.op \in Ordering   -> Compare(e.op, getField(hops, e.hop), e.value)
      [] e.op = "in"         -> getField(hops, e.hop) \in e.value \ {NoNote}
      [] e.op = "has_tag"    -> e.value \in tags
      [] e.op = "hop_status" -> e.hop \in DOMAIN hops /\ hops[e.hop].status = e.value
      [] e.op = "and"        -> \A c \in e.conditions : evaluateCondition(c, hops, tags)
      [] e.op = "or"         -> \E c \in e.conditions : evaluateCondition(c, hops, tags)
      [] e.op = "not"        -> ~evaluateCondition(e.condition, hops, tags)
      [] OTHER               -> e.op = "true"

Children(e) == CASE e.op \in Logical -> e.conditions
                 [] e.op = "not"     -> {e.condition}
                 [] OTHER            -> {}

RECURSIVE Depth(_), Nodes(_), collectHopReferences(_)
Depth(e) == IF Children(e) = {} THEN 0 ELSE 1 + Max({Depth(c) : c \in Children(e)})
Nodes(e) == 1 + FoldSet(LAMBDA c, n : n + Nodes(c), 0, Children(e))

TooComplex(e) == Depth(e) > MAX_CONDITION_DEPTH \/ Nodes(e) > MAX_CONDITION_NODES

collectHopReferences(e) ==
    IF Children(e) # {} THEN UNION {collectHopReferences(c) : c \in Children(e)}
    ELSE IF e.op \in Ordering \cup {"eq", "neq", "in", "hop_status"} THEN {e.hop} ELSE {}

(* What validateDAG asks of a condition in a workflow with these hops. *)
validCondition(e, hops) == ~TooComplex(e) /\ collectHopReferences(e) \subseteq hops
=============================================================================
