----------------------------- MODULE MemoryTiers ------------------------------
(* The three tiers of memory documents: events appended to rotating log files   *)
(* (cold), documents aggregated from them (warm), and documents promoted under  *)
(* a size limit (hot).                                                          *)
EXTENDS Naturals, FiniteSets, Sequences, Functions

CONSTANTS
    Events,      \* events 1..n, logged in this order
    RuleOf,      \* the aggregation rule an event matches
    MaxFile,     \* maxFileSizeBytes, in events
    WarmLimit,   \* the 150 KB of a warm document, in events
    HotLimit,    \* HOT_SIZE_LIMIT, in events
    Setups       \* records: writers, aggregators, promoters, runs, promotions

VARIABLES
    setup,
    files,     \* cold/logs: the files in the order they were made, as sets of events
    counted,   \* currentLogSize
    appends,   \* appends under way: event and file
    warm,      \* warm documents, by rule: the events they show
    agg,       \* aggregations: step, files to read, events read, rules to write, events there at the start
    hot,       \* hot documents, by rule: the events they show
    promo,     \* promotions under way: the document and the content read
    budget

vars == <<setup, files, counted, appends, warm, agg, hot, promo, budget>>

Rules == {RuleOf[e] : e \in Events}
Logged == UNION Range(files)
Of(rule, es) == {e \in es : RuleOf[e] = rule}
NoAgg == [at |-> "idle", unread |-> {}, seen |-> {}, todo |-> {}, start |-> {}]
(* The size of the hot tier: no event is in two documents. *)
Total == Cardinality(UNION {hot[r] : r \in Rules})

Init ==
    /\ setup \in Setups /\ files = <<>> /\ counted = 0 /\ appends = {}
    /\ warm = [r \in Rules |-> {}] /\ agg = [a \in 1..setup.aggregators |-> NoAgg]
    /\ hot = [r \in Rules |-> {}] /\ promo = {}
    /\ budget = [runs |-> setup.runs, promotions |-> setup.promotions]

Spend(kind) == budget[kind] > 0 /\ budget' = [budget EXCEPT ![kind] = @ - 1]

(* ----------------------------------- Cold ----------------------------------- *)

NeedsFile == files = <<>> \/ counted + 1 > MaxFile

(* The file is chosen, a new one when the line does not fit, ... *)
logEvent(e) ==
    /\ e = Cardinality(Logged) + Cardinality(appends) + 1
    /\ Cardinality(appends) < setup.writers
    /\ IF NeedsFile THEN files' = Append(files, {}) /\ counted' = 0 ELSE UNCHANGED <<files, counted>>
    /\ appends' = appends \cup {[event |-> e, file |-> Len(files')]}
    /\ UNCHANGED <<setup, warm, agg, hot, promo, budget>>
(* ... and when the append is done the size of the file current by then grows.  *)
Appended(x) ==
    /\ x \in appends /\ appends' = appends \ {x}
    /\ files' = [files EXCEPT ![x.file] = @ \cup {x.event}] /\ counted' = counted + 1
    /\ UNCHANGED <<setup, warm, agg, hot, promo, budget>>

(* ----------------------------------- Warm ----------------------------------- *)

(* Mutation of ColdFiles: only the newest file. *)
ColdFilesNewest == {Len(files)} \ {0}
ColdFiles == DOMAIN files

(* `aof memory aggregate`: the directory is listed, the files read one by one.  *)
aggregate(a) ==
    /\ agg[a].at = "idle" /\ Spend("runs")
    /\ agg' = [agg EXCEPT ![a] = [NoAgg EXCEPT !.at = "read", !.unread = ColdFiles, !.start = Logged]]
    /\ UNCHANGED <<setup, files, counted, appends, warm, hot, promo>>
loadColdEvents(a) ==
    /\ agg[a].at = "read"
    /\ \E i \in agg[a].unread :
           /\ \A j \in agg[a].unread : i <= j
           /\ agg' = [agg EXCEPT ![a].unread = @ \ {i}, ![a].seen = @ \cup files[i]]
    /\ UNCHANGED <<setup, files, counted, appends, warm, hot, promo, budget>>
Loaded(a) ==
    /\ agg[a].at = "read" /\ agg[a].unread = {}
    /\ agg' = [agg EXCEPT ![a].at = "write", ![a].todo = Rules]
    /\ UNCHANGED <<setup, files, counted, appends, warm, hot, promo, budget>>
(* A rule without events and a document beyond the limit are left as they are.  *)
AggregateRule(a, r) ==
    LET content == Of(r, agg[a].seen)
    IN  /\ agg[a].at = "write" /\ r \in agg[a].todo
        /\ warm' = IF content = {} \/ Cardinality(content) > WarmLimit THEN warm
                   ELSE [warm EXCEPT ![r] = content]
        /\ agg' = [agg EXCEPT ![a].todo = @ \ {r}, ![a].at = IF agg[a].todo = {r} THEN "idle" ELSE @]
        /\ UNCHANGED <<setup, files, counted, appends, hot, promo, budget>>

(* ------------------------------------ Hot ----------------------------------- *)

(* What the document replaces is taken off. *)
Fits(r, content) == Total - Cardinality(hot[r]) + Cardinality(content) <= HotLimit

(* `aof memory promote --approve`: the sizes are read and compared, ... *)
promote(r) ==
    /\ Cardinality(promo) < setup.promoters /\ Spend("promotions") /\ warm[r] # {}
    /\ promo' = IF Fits(r, warm[r]) THEN promo \cup {[doc |-> r, content |-> warm[r]]} ELSE promo
    /\ UNCHANGED <<setup, files, counted, appends, warm, agg, hot>>
(* ... then the content read is written, and the promotion logged. *)
Promoted(x) ==
    /\ x \in promo /\ promo' = promo \ {x} /\ hot' = [hot EXCEPT ![x.doc] = x.content]
    /\ UNCHANGED <<setup, files, counted, appends, warm, agg, budget>>

Next ==
    \/ (\E e \in Events : logEvent(e)) \/ (\E x \in appends : Appended(x))
    \/ \E a \in DOMAIN agg : aggregate(a) \/ loadColdEvents(a) \/ Loaded(a) \/ \E r \in Rules : AggregateRule(a, r)
    \/ (\E r \in Rules : promote(r)) \/ (\E x \in promo : Promoted(x))
Spec == Init /\ [][Next]_vars

(* -------------------------------- Properties --------------------------------- *)

(* A log file grows beyond its limit by no more than the appends that were      *)
(* under way next to the last one that fitted, although the size of a finished  *)
(* append is added to whichever file is current by then (ColdTier.logEvent).    *)
FileBounded == \A i \in DOMAIN files : Cardinality(files[i]) <= MaxFile + setup.writers - 1

(* After an aggregation every event that was there when it began is shown,      *)
(* whichever file it is in and whatever is logged meanwhile, unless the         *)
(* document would be too large - with one aggregation at a time                 *)
(* (WarmAggregator.aggregate).                                                  *)
WarmComplete ==
    setup.aggregators = 1 =>
        (agg[1].at = "idle" => \A r \in Rules :
            Of(r, agg[1].start) \subseteq warm[r] \/ Cardinality(Of(r, Logged)) > WarmLimit)

(* The hot tier stays within its limit, replacements included, with one         *)
(* promotion at a time (HotPromotion.promote).                                  *)
HotBounded == setup.promoters = 1 => Total <= HotLimit
=============================================================================
