--------------------------- MODULE WorkflowProofs ---------------------------
(* Workflow for every definition, every meaning of its conditions and any    *)
(* number of events.  Three arguments are put together.                      *)
(*   Recursion.  Validation, cascades and conditions are recursive functions *)
(* over 0..n; what they compute is proved by induction, which here is the    *)
(* least element of the set of exceptions (Least, Induct, Recursion).        *)
(*   One evaluation (Evaluates).  evaluateDAG takes the hop out, puts none   *)
(* out, hands on a hop whose join is satisfied, keeps every join that holds, *)
(* leaves no hop pending behind failures, and counts rejections.             *)
(*   The handlers (IInv).  Any handler's save is well formed.  Without       *)
(* overlap one runs at a time, so the object it saves is the task            *)
(* (HandlersFresh); then one hop is out at most (OneOut), what runs may run  *)
(* (OrderKept), a verdict finds no hop that can move (VerdictFinal), and a   *)
(* sole reviewer's count is the number of its rejections (Counted).          *)
EXTENDS Workflow, FiniteSetTheorems, WellFoundedInduction, TLAPS

(* -------------------------------- Induction ------------------------------- *)

(* A set of natural numbers has a least element. *)
LEMMA Least ==
    ASSUME NEW T, T \subseteq Nat, T # {}
    PROVE  \E m \in T : \A k \in T : m <= k
<1> DEFINE R == {ss \in Nat \X Nat : ss[1] < ss[2]}
<1>1. IsWellFoundedOn(R, Nat)
    BY NatLessThanWellFounded DEF OpToRel
<1>2. \A x, y \in Nat : y < x => <<y, x>> \in R
    OBVIOUS
<1> HIDE DEF R
<1>3. PICK x \in T : \A y \in T : ~(<<y, x>> \in R)
    BY <1>1, WFMin
<1>4. \A y \in T : ~(y < x) /\ y \in Nat /\ x \in Nat
    BY <1>2, <1>3
<1>5. \A y \in T : x <= y
    BY <1>4
<1> QED
    BY <1>5

(* Induction up to N: a set of numbers that has no smallest exception. *)
LEMMA Induct ==
    ASSUME NEW N \in Nat, NEW G, 0 \in G, \A n \in 1..N : n - 1 \in G => n \in G
    PROVE  \A n \in 0..N : n \in G
<1> SUFFICES ASSUME (0..N) \ G # {} PROVE FALSE
    OBVIOUS
<1>1. PICK m \in (0..N) \ G : \A k \in (0..N) \ G : m <= k
  <2> DEFINE T == (0..N) \ G
  <2>1. T \subseteq Nat /\ T # {}
      OBVIOUS
  <2> HIDE DEF T
  <2>2. \E m \in T : \A k \in T : m <= k
      BY <2>1, Least
  <2> QED
      BY <2>2 DEF T
<1>2. m # 0 /\ m \in 1..N
    BY <1>1
<1>3. m - 1 \in G
    BY <1>1, <1>2
<1> QED
    BY <1>1, <1>2, <1>3

(* A function on 0..N exists that begins with b and goes on by step. *)
IsStep(step, S, N) == N \in Nat /\ step \in [1..N -> [S -> S]]
Follows(f, S, N, b, step) ==
    f \in [0..N -> S] /\ f[0] = b /\ \A n \in 1..N : f[n] = step[n][f[n - 1]]

(* Recursion exists: applying step again and again from b stays in S. *)
LEMMA Recursion ==
    ASSUME NEW S, NEW N, NEW b \in S, NEW step, IsStep(step, S, N)
    PROVE  \E f : Follows(f, S, N, b, step)
<1> USE DEF IsStep
<1> DEFINE Good(n) == \E f \in [0..n -> S] : f[0] = b /\ \A k \in 1..n : f[k] = step[k][f[k - 1]]
           G == {n \in 0..N : Good(n)}
<1>1. Good(0)
  <2>1. [k \in 0..0 |-> b] \in [0..0 -> S] /\ 1..0 = {} /\ 0 \in 0..0
      OBVIOUS
  <2> QED
      BY <2>1
<1>2. ASSUME NEW n \in 1..N, Good(n - 1) PROVE Good(n)
  <2>1. PICK f \in [0..(n - 1) -> S] : f[0] = b /\ \A k \in 1..(n - 1) : f[k] = step[k][f[k - 1]]
      BY <1>2
  <2> DEFINE last == step[n][f[n - 1]]
             g == [k \in 0..n |-> IF k = n THEN last ELSE f[k]]
  <2>2. f[n - 1] \in S /\ step[n] \in [S -> S]
      OBVIOUS
  <2>3. last \in S
      BY <2>2
  <2> HIDE DEF last
  <2>4. g \in [0..n -> S]
      BY <2>3
  <2>5. \A k \in 0..(n - 1) : g[k] = f[k]
      OBVIOUS
  <2>6. g[n] = last
      OBVIOUS
  <2> HIDE DEF g
  <2>7. g[0] = b
      BY <2>1, <2>5
  <2>8. ASSUME NEW k \in 1..n PROVE g[k] = step[k][g[k - 1]]
    <3>1. g[k - 1] = f[k - 1]
        BY <2>5
    <3>2. CASE k = n
        BY <3>1, <3>2, <2>6 DEF last
    <3>3. CASE k \in 1..(n - 1)
        BY <3>1, <3>3, <2>1, <2>5
    <3> QED
        BY <3>2, <3>3
  <2> QED
      BY <2>4, <2>7, <2>8
<1> HIDE DEF Good
<1>3. \A n \in 0..N : n \in G
  <2>1. 0 \in G /\ \A n \in 1..N : n - 1 \in G => n \in G
      BY <1>1, <1>2
  <2> HIDE DEF G
  <2> QED
      BY <2>1, Induct
<1>4. Good(N)
    BY <1>3
<1> QED
    BY <1>4 DEF Good, Follows

(* ------------------------------- Definitions ------------------------------ *)

IsDefinition(def) == Len(def) \in Nat /\ DOMAIN def = 1..Len(def)

(* The rounds of Kahn's algorithm, as a function of their number. *)
LEMMA ProcessedRounds ==
    ASSUME NEW def, IsDefinition(def)
    PROVE  \E f \in [0..Len(def) -> SUBSET Hops(def)] :
               /\ Processed(def) = f[Len(def)] /\ f[0] = {}
               /\ \A n \in 1..Len(def) : f[n] = {h \in Hops(def) : def[h].dependsOn \cap Hops(def) \subseteq f[n - 1]}
<1> DEFINE N == Len(def)
           S == SUBSET Hops(def)
           F(x) == {h \in Hops(def) : def[h].dependsOn \cap Hops(def) \subseteq x}
           step == [n \in 1..N |-> [x \in S |-> F(x)]]
           round == CHOOSE f : f = [n \in 0..N |-> IF n = 0 THEN {} ELSE F(f[n - 1])]
<1>1. Processed(def) = round[N]
    BY DEF Processed
<1>2. N \in Nat /\ {} \in S /\ step \in [1..N -> [S -> S]]
    BY DEF IsDefinition
<1> HIDE DEF N
<1>3. PICK f \in [0..N -> S] : f[0] = {} /\ \A n \in 1..N : f[n] = step[n][f[n - 1]]
  <2>1. IsStep(step, S, N)
      BY <1>2 DEF IsStep
  <2> HIDE DEF step, S
  <2>2. \E f : Follows(f, S, N, {}, step)
      BY <1>2, <2>1, Recursion
  <2> QED
      BY <2>2 DEF Follows
<1>4. \A n \in 1..N : f[n - 1] \in S /\ f[n] = F(f[n - 1])
  <2> SUFFICES ASSUME NEW n \in 1..N PROVE f[n - 1] \in S /\ f[n] = F(f[n - 1])
      OBVIOUS
  <2>1. n - 1 \in 0..N
      BY <1>2
  <2>2. f[n - 1] \in S
      BY <2>1, <1>3
  <2>3. f[n] = step[n][f[n - 1]]
      BY <1>3
  <2> QED
      BY <2>2, <2>3
<1> HIDE DEF F, S
<1>5. f = [n \in 0..N |-> IF n = 0 THEN {} ELSE F(f[n - 1])]
  <2>1. \A n \in 0..N : f[n] = IF n = 0 THEN {} ELSE F(f[n - 1])
      BY <1>2, <1>3, <1>4
  <2> QED
      BY <2>1
<1>6. round = [n \in 0..N |-> IF n = 0 THEN {} ELSE F(round[n - 1])]
    BY <1>5
<1>7. round \in [0..N -> S] /\ round[0] = {} /\ \A n \in 1..N : round[n] = F(round[n - 1])
  <2> HIDE DEF round
  <2>1. round[0] = {} /\ \A n \in 1..N : round[n] = F(round[n - 1])
      BY <1>2, <1>6
  <2>2. \A n \in 0..N : round[n] \in S
    <3> DEFINE G == {n \in 0..N : round[n] \in S}
    <3>1. 0 \in G /\ \A n \in 1..N : n - 1 \in G => n \in G
        BY <1>2, <2>1 DEF F, S
    <3> HIDE DEF G
    <3>2. \A n \in 0..N : n \in G
        BY <1>2, <3>1, Induct
    <3> QED
        BY <3>2 DEF G
  <2> QED
      BY <1>6, <2>1, <2>2
<1> QED
    BY <1>1, <1>7 DEF N, F, S

(* A definition that passes validation has an order of its hops, in which    *)
(* the predecessors of a hop come before it.                                 *)
LEMMA ValidationOrders ==
    ASSUME NEW def, IsDefinition(def), validateDAG(def)
    PROVE  \E f \in [0..Len(def) -> SUBSET Hops(def)] :
             LET Before(p, g) == \E n \in 0..Len(def) : p \in f[n] /\ g \notin f[n]
             IN  /\ \A g \in Hops(def) : \A p \in def[g].dependsOn : Before(p, g)
                 /\ \A p, g, h \in Hops(def) : Before(p, g) /\ Before(g, h) => Before(p, h)
<1> DEFINE N == Len(def)
<1>1. PICK f \in [0..N -> SUBSET Hops(def)] :
          /\ Processed(def) = f[N] /\ f[0] = {}
          /\ \A n \in 1..N : f[n] = {h \in Hops(def) : def[h].dependsOn \cap Hops(def) \subseteq f[n - 1]}
    BY ProcessedRounds
<1>2. N \in Nat /\ f[N] = Hops(def) /\ \A h \in Hops(def) : def[h].dependsOn \subseteq Hops(def)
    BY <1>1 DEF validateDAG, IsDefinition
<1> HIDE DEF N
<1>3. \A n \in 1..N : f[n - 1] \subseteq f[n]
  <2> DEFINE G == {n \in 0..N : n \in 1..N => f[n - 1] \subseteq f[n]}
  <2>1. 0 \in G
      BY <1>2
  <2>2. ASSUME NEW n \in 1..N, n - 1 \in G PROVE n \in G
    <3>1. CASE n = 1
        BY <3>1, <1>1, <1>2
    <3>2. CASE n # 1
      <4>1. n - 1 \in 1..N /\ f[(n - 1) - 1] \subseteq f[n - 1]
          BY <3>2, <2>2, <1>2
      <4>2. /\ f[n] = {h \in Hops(def) : def[h].dependsOn \cap Hops(def) \subseteq f[n - 1]}
            /\ f[n - 1] = {h \in Hops(def) : def[h].dependsOn \cap Hops(def) \subseteq f[(n - 1) - 1]}
          BY <4>1, <1>1
      <4>3. f[n - 1] \subseteq f[n]
          BY <4>1, <4>2
      <4> QED
          BY <4>3, <1>2
    <3> QED
        BY <3>1, <3>2
  <2> HIDE DEF G
  <2>3. \A n \in 0..N : n \in G
      BY <2>1, <2>2, <1>2, Induct
  <2> QED
      BY <2>3, <1>2 DEF G
<1>4. ASSUME NEW m \in 0..N, NEW n \in 0..N, m <= n PROVE f[m] \subseteq f[n]
  <2> DEFINE G == {k \in 0..N : m <= k => f[m] \subseteq f[k]}
  <2>1. 0 \in G
      BY <1>2
  <2>2. ASSUME NEW k \in 1..N, k - 1 \in G PROVE k \in G
    <3>1. CASE m <= k - 1
        BY <3>1, <2>2, <1>2, <1>3
    <3>2. CASE ~(m <= k - 1)
      <4>1. m <= k => m = k
          BY <3>2, <1>2
      <4> QED
          BY <4>1, <1>2
    <3> QED
        BY <3>1, <3>2
  <2> HIDE DEF G
  <2>3. \A k \in 0..N : k \in G
      BY <2>1, <2>2, <1>2, Induct
  <2> QED
      BY <2>3, <1>4 DEF G
<1> DEFINE Before(p, g) == \E n \in 0..N : p \in f[n] /\ g \notin f[n]
<1>5. ASSUME NEW g \in Hops(def), NEW p \in def[g].dependsOn PROVE Before(p, g)
  <2> DEFINE T == {n \in 0..N : g \in f[n]}
  <2>1. T \subseteq Nat /\ N \in T
      BY <1>2
  <2> HIDE DEF T
  <2>2. PICK n \in T : \A k \in T : n <= k
      BY <2>1, Least
  <2>3. n \in 0..N /\ g \in f[n] /\ n # 0
      BY <2>2, <1>1 DEF T
  <2>4. n \in 1..N /\ n - 1 \in 0..N /\ n - 1 \notin T
      BY <2>2, <2>3, <1>2
  <2>5. g \notin f[n - 1]
      BY <2>4 DEF T
  <2>6. p \in f[n - 1]
    <3>1. f[n] = {h \in Hops(def) : def[h].dependsOn \cap Hops(def) \subseteq f[n - 1]}
        BY <2>4, <1>1
    <3> QED
        BY <3>1, <2>3, <1>2
  <2> QED
      BY <2>4, <2>5, <2>6
<1>6. ASSUME NEW p \in Hops(def), NEW g \in Hops(def), NEW h \in Hops(def), Before(p, g), Before(g, h)
      PROVE  Before(p, h)
  <2>1. PICK m \in 0..N : p \in f[m] /\ g \notin f[m]
      BY <1>6
  <2>2. PICK n \in 0..N : g \in f[n] /\ h \notin f[n]
      BY <1>6
  <2>3. ~(n <= m)
      BY <2>1, <2>2, <1>4
  <2>4. m <= n
      BY <2>3, <1>2
  <2> QED
      BY <2>1, <2>2, <2>4, <1>4
<1> QED
    BY <1>5, <1>6 DEF N

(* A definition that passes validation has no cycle: going back from a hop,  *)
(* whatever the number of edges, never leads to that hop (validateDAG).      *)
LEMMA ValidatedAcyclic ==
    ASSUME IsDefinition(Def), validateDAG(Def)
    PROVE  ValidatedIsAcyclic
<1> SUFFICES ASSUME NEW h \in Hops(Def)
             PROVE  LET before[n \in 0 .. Len(Def)] ==
                          IF n = 0 THEN Def[h].dependsOn
                          ELSE before[n - 1] \cup UNION {Def[g].dependsOn : g \in before[n - 1]}
                    IN  h \notin before[Len(Def)]
    BY DEF ValidatedIsAcyclic
<1> DEFINE N == Len(Def)
           F(x) == x \cup UNION {Def[g].dependsOn : g \in x}
           before == CHOOSE f : f = [n \in 0..N |-> IF n = 0 THEN Def[h].dependsOn ELSE F(f[n - 1])]
<1> SUFFICES h \notin before[N]
    OBVIOUS
<1>1. PICK r \in [0..N -> SUBSET Hops(Def)] :
        LET Before(p, g) == \E n \in 0..N : p \in r[n] /\ g \notin r[n]
        IN  /\ \A g \in Hops(Def) : \A p \in Def[g].dependsOn : Before(p, g)
            /\ \A p, g, k \in Hops(Def) : Before(p, g) /\ Before(g, k) => Before(p, k)
    BY ValidationOrders
<1> DEFINE Before(p, g) == \E n \in 0..N : p \in r[n] /\ g \notin r[n]
           S == SUBSET {p \in Hops(Def) : Before(p, h)}
           step == [n \in 1..N |-> [x \in S |-> F(x)]]
<1>2. /\ N \in Nat /\ \A g \in Hops(Def) : Def[g].dependsOn \subseteq Hops(Def)
      /\ \A g \in Hops(Def) : \A p \in Def[g].dependsOn : Before(p, g)
      /\ \A p, g, k \in Hops(Def) : Before(p, g) /\ Before(g, k) => Before(p, k)
    BY <1>1 DEF validateDAG, IsDefinition
<1> HIDE DEF N, Before
<1>3. Def[h].dependsOn \in S
    BY <1>2
<1>4. \A x \in S : F(x) \in S
  <2> SUFFICES ASSUME NEW x \in S, NEW g \in x, NEW p \in Def[g].dependsOn
               PROVE  p \in Hops(Def) /\ Before(p, h)
      OBVIOUS
  <2> QED
      BY <1>2
<1>5. IsStep(step, S, N)
    BY <1>2, <1>4 DEF IsStep
<1> HIDE DEF F, S
<1>6. PICK f : Follows(f, S, N, Def[h].dependsOn, step)
  <2> HIDE DEF step
  <2> QED
      BY <1>3, <1>5, Recursion
<1>7. f = [n \in 0..N |-> IF n = 0 THEN Def[h].dependsOn ELSE F(f[n - 1])]
  <2>1. f \in [0..N -> S] /\ f[0] = Def[h].dependsOn
      BY <1>6 DEF Follows
  <2>2. ASSUME NEW n \in 1..N PROVE f[n] = F(f[n - 1])
    <3>1. n - 1 \in 0..N /\ f[n] = step[n][f[n - 1]]
        BY <1>2, <1>6 DEF Follows
    <3> QED
        BY <2>1, <3>1
  <2>3. \A n \in 0..N : f[n] = IF n = 0 THEN Def[h].dependsOn ELSE F(f[n - 1])
      BY <1>2, <2>1, <2>2
  <2> QED
      BY <2>1, <2>3
<1>8. before = [n \in 0..N |-> IF n = 0 THEN Def[h].dependsOn ELSE F(before[n - 1])]
    BY <1>7
<1>9. \A n \in 0..N : before[n] \in S
  <2> HIDE DEF before
  <2> DEFINE G == {n \in 0..N : before[n] \in S}
  <2>1. 0 \in G
      BY <1>2, <1>3, <1>8
  <2>2. ASSUME NEW n \in 1..N, n - 1 \in G PROVE n \in G
    <3>1. before[n] = F(before[n - 1])
        BY <1>2, <1>8
    <3> QED
        BY <3>1, <2>2, <1>4
  <2> HIDE DEF G
  <2>3. \A n \in 0..N : n \in G
      BY <1>2, <2>1, <2>2, Induct
  <2> QED
      BY <2>3 DEF G
<1>10. before[N] \subseteq {p \in Hops(Def) : Before(p, h)}
    BY <1>2, <1>9 DEF S
<1> QED
    BY <1>10 DEF Before

(* ------------------------------- Evaluation ------------------------------- *)

HopRecords(R, Notes) ==
    [status : HopStatus, rejectionCount : Nat, escalated : BOOLEAN, run : 0..R, note : Notes \cup {NoNote}]
States(def, R, Notes) == [Hops(def) -> HopRecords(R, Notes)]

(* Some pending hops of s are skipped in t. *)
SkippedFrom(s, t) ==
    \A h \in DOMAIN s :
        t[h] = s[h] \/ (s[h].status = "pending" /\ t[h] = [s[h] EXCEPT !.status = "skipped"])

(* With changes the status of the hops given, and nothing else. *)
LEMMA WithTyped ==
    ASSUME NEW def, NEW R, NEW Notes, NEW s \in States(def, R, Notes), NEW hs, NEW status \in HopStatus
    PROVE  /\ With(s, hs, status) \in States(def, R, Notes)
           /\ \A h \in Hops(def) : With(s, hs, status)[h] = IF h \in hs THEN [s[h] EXCEPT !.status = status] ELSE s[h]
<1>1. \A r \in HopRecords(R, Notes) : [r EXCEPT !.status = status] \in HopRecords(R, Notes)
    BY DEF HopRecords
<1>2. DOMAIN s = Hops(def) /\ \A h \in Hops(def) : s[h] \in HopRecords(R, Notes)
    BY DEF States
<1> QED
    BY <1>1, <1>2 DEF With, States

(* cascadeSkips only skips pending hops, and skips the direct successors of  *)
(* start that have no other predecessor left.                                *)
LEMMA CascadeSkips ==
    ASSUME NEW def, IsDefinition(def), NEW R, NEW Notes, NEW s \in States(def, R, Notes), NEW start \in Hops(def)
    PROVE  /\ cascadeSkips(def, s, start) \in States(def, R, Notes)
           /\ SkippedFrom(s, cascadeSkips(def, s, start))
           /\ \A g \in Hops(def) \ {start} :
                  s[g].status = "pending" /\ start \in def[g].dependsOn
                  /\ def[g].dependsOn \subseteq {start} \cup Having(s, NonSuccess)
                      => cascadeSkips(def, s, start)[g].status = "skipped"
<1> DEFINE N == Len(def)
           Falls(g, x) == s[g].status = "pending" /\ def[g].dependsOn \subseteq x \cup Having(s, NonSuccess)
           F(x) == x \cup {g \in Downstream(def, x) : /\ s[g].status = "pending"
                                                      /\ def[g].dependsOn \subseteq x \cup Having(s, NonSuccess)}
           S == {x \in SUBSET Hops(def) : start \in x /\ \A g \in x \ {start} : s[g].status = "pending"}
           step == [n \in 1..N |-> [x \in S |-> F(x)]]
           round == CHOOSE f : f = [n \in 0..N |-> IF n = 0 THEN {start} ELSE F(f[n - 1])]
<1>1. cascadeSkips(def, s, start) = With(s, round[N] \ {start}, "skipped")
    BY DEF cascadeSkips
<1>2. N \in Nat /\ 1 \in 0..N /\ {start} \in S
    BY DEF IsDefinition, Hops
<1>3. \A x \in S : F(x) \in S
    BY DEF Downstream
<1>4. IsStep(step, S, N)
    BY <1>2, <1>3 DEF IsStep
<1>5. \A x \in SUBSET Hops(def) : x \subseteq F(x)
    OBVIOUS
<1> HIDE DEF N, F, S
<1>6. PICK f : Follows(f, S, N, {start}, step)
  <2> HIDE DEF step
  <2> QED
      BY <1>2, <1>4, Recursion
<1>7. f = [n \in 0..N |-> IF n = 0 THEN {start} ELSE F(f[n - 1])]
  <2>1. f \in [0..N -> S] /\ f[0] = {start}
      BY <1>6 DEF Follows
  <2>2. ASSUME NEW n \in 1..N PROVE f[n] = F(f[n - 1])
    <3>1. n - 1 \in 0..N /\ f[n] = step[n][f[n - 1]]
        BY <1>2, <1>6 DEF Follows
    <3> QED
        BY <2>1, <3>1
  <2>3. \A n \in 0..N : f[n] = IF n = 0 THEN {start} ELSE F(f[n - 1])
      BY <1>2, <2>1, <2>2
  <2> QED
      BY <2>1, <2>3
<1>8. round = [n \in 0..N |-> IF n = 0 THEN {start} ELSE F(round[n - 1])]
    BY <1>7
<1> HIDE DEF round
<1>9. \A n \in 0..N : round[n] \in S /\ (n # 0 => F({start}) \subseteq round[n])
  <2> DEFINE G == {n \in 0..N : round[n] \in S /\ (n # 0 => F({start}) \subseteq round[n])}
  <2>1. 0 \in G
      BY <1>2, <1>8
  <2>2. ASSUME NEW n \in 1..N, n - 1 \in G PROVE n \in G
    <3>1. round[n] = F(round[n - 1]) /\ round[n - 1] \in S
        BY <1>2, <1>8, <2>2
    <3>2. CASE n = 1
      <4>1. round[0] = {start}
          BY <1>2, <1>8
      <4> QED
          BY <1>3, <3>1, <3>2, <4>1
    <3>3. CASE n # 1
      <4>1. F({start}) \subseteq round[n - 1]
          BY <1>2, <2>2, <3>3
      <4>2. round[n - 1] \subseteq F(round[n - 1])
          BY <1>5, <3>1 DEF S
      <4> QED
          BY <1>3, <3>1, <4>1, <4>2
    <3> QED
        BY <3>2, <3>3
  <2> HIDE DEF G
  <2>3. \A n \in 0..N : n \in G
      BY <1>2, <2>1, <2>2, Induct
  <2> QED
      BY <2>3 DEF G
<1> DEFINE gone == round[N] \ {start}
<1>10. /\ \A g \in gone : g \in Hops(def) /\ s[g].status = "pending"
       /\ F({start}) \ {start} \subseteq gone
    BY <1>2, <1>9 DEF S
<1> HIDE DEF gone
<1>11. /\ With(s, gone, "skipped") \in States(def, R, Notes)
       /\ \A h \in Hops(def) : With(s, gone, "skipped")[h] = IF h \in gone THEN [s[h] EXCEPT !.status = "skipped"] ELSE s[h]
  <2>1. "skipped" \in HopStatus
      BY DEF HopStatus
  <2> QED
      BY <2>1, WithTyped
<1>12. SkippedFrom(s, With(s, gone, "skipped"))
    BY <1>10, <1>11 DEF SkippedFrom, States
<1>13. ASSUME NEW g \in Hops(def) \ {start}, s[g].status = "pending", start \in def[g].dependsOn,
              def[g].dependsOn \subseteq {start} \cup Having(s, NonSuccess)
       PROVE  With(s, gone, "skipped")[g].status = "skipped"
  <2>1. g \in F({start})
      BY <1>13 DEF F, Downstream
  <2>2. g \in gone
      BY <1>10, <2>1
  <2>3. s[g] \in HopRecords(R, Notes)
      BY DEF States
  <2> QED
      BY <1>11, <2>2, <2>3 DEF HopRecords
<1> QED
    BY <1>1, <1>11, <1>12, <1>13 DEF gone

(* Conditions only skip pending hops. *)
LEMMA ConditionsSkip ==
    ASSUME NEW def, IsDefinition(def), NEW R, NEW Notes, NEW s \in States(def, R, Notes), NEW tags
    PROVE  /\ evaluateNewlyEligibleConditions(def, s, tags) \in States(def, R, Notes)
           /\ SkippedFrom(s, evaluateNewlyEligibleConditions(def, s, tags))
<1> DEFINE N == Len(def)
           F(n, cur) == IF /\ cur[n].status = "pending"
                           /\ def[n].condition # NoCondition
                           /\ def[n].dependsOn \subseteq Having(cur, Terminal)
                           /\ ~ConditionHolds(def[n].condition, cur, tags)
                        THEN With(cur, {n}, "skipped")
                        ELSE cur
           S == {x \in States(def, R, Notes) : SkippedFrom(s, x)}
           step == [n \in 1..N |-> [x \in S |-> F(n, x)]]
           after == CHOOSE f : f = [n \in 0..N |-> IF n = 0 THEN s ELSE F(n, f[n - 1])]
<1>1. evaluateNewlyEligibleConditions(def, s, tags) = after[N]
    BY DEF evaluateNewlyEligibleConditions
<1>2. N \in Nat /\ Hops(def) = 1..N /\ s \in S
    BY DEF IsDefinition, SkippedFrom, Hops
<1>3. ASSUME NEW n \in 1..N, NEW x \in S PROVE F(n, x) \in S
  <2>1. CASE F(n, x) = x
      BY <2>1
  <2>2. CASE x[n].status = "pending" /\ F(n, x) = With(x, {n}, "skipped")
    <3>1. "skipped" \in HopStatus /\ DOMAIN s = Hops(def)
        BY DEF HopStatus, States
    <3>2. /\ F(n, x) \in States(def, R, Notes)
          /\ \A h \in Hops(def) : F(n, x)[h] = IF h = n THEN [x[h] EXCEPT !.status = "skipped"] ELSE x[h]
      <4>1. x \in States(def, R, Notes)
          OBVIOUS
      <4> HIDE DEF F, S
      <4> DEFINE only == {n}
      <4> HIDE DEF only
      <4>2. /\ With(x, only, "skipped") \in States(def, R, Notes)
            /\ \A h \in Hops(def) : With(x, only, "skipped")[h] =
                   IF h \in only THEN [x[h] EXCEPT !.status = "skipped"] ELSE x[h]
          BY <3>1, <4>1, WithTyped
      <4> QED
          BY <2>2, <4>2 DEF only
    <3> HIDE DEF F
    <3>3. s[n] \in HopRecords(R, Notes) /\ x[n] \in HopRecords(R, Notes) /\ n \in Hops(def)
        BY <1>2 DEF States
    <3>4. x[n] = s[n]
      <4>1. x[n] = s[n] \/ x[n] = [s[n] EXCEPT !.status = "skipped"]
          BY <3>1, <3>3 DEF SkippedFrom
      <4> QED
          BY <2>2, <3>3, <4>1 DEF HopRecords
    <3>5. SkippedFrom(s, F(n, x))
        BY <2>2, <3>1, <3>2, <3>3, <3>4 DEF SkippedFrom
    <3> QED
        BY <3>2, <3>5
  <2> QED
      BY <2>1, <2>2
<1>4. IsStep(step, S, N)
    BY <1>2, <1>3 DEF IsStep
<1> HIDE DEF N, F, S
<1>6. PICK f : Follows(f, S, N, s, step)
  <2> HIDE DEF step
  <2> QED
      BY <1>2, <1>4, Recursion
<1>7. f \in [0..N -> S] /\ f = [n \in 0..N |-> IF n = 0 THEN s ELSE F(n, f[n - 1])]
  <2>1. f \in [0..N -> S] /\ f[0] = s
      BY <1>6 DEF Follows
  <2>2. ASSUME NEW n \in 1..N PROVE f[n] = F(n, f[n - 1])
    <3>1. n - 1 \in 0..N /\ f[n] = step[n][f[n - 1]]
        BY <1>2, <1>6 DEF Follows
    <3> QED
        BY <2>1, <3>1
  <2>3. \A n \in 0..N : f[n] = IF n = 0 THEN s ELSE F(n, f[n - 1])
      BY <1>2, <2>1, <2>2
  <2> QED
      BY <2>1, <2>3
<1>8. after = [n \in 0..N |-> IF n = 0 THEN s ELSE F(n, after[n - 1])]
    BY <1>7
<1> HIDE DEF after
<1>9. \A n \in 0..N : after[n] \in S
  <2> DEFINE G == {n \in 0..N : after[n] \in S}
  <2>1. 0 \in G
      BY <1>2, <1>8
  <2>2. ASSUME NEW n \in 1..N, n - 1 \in G PROVE n \in G
    <3>1. after[n] = F(n, after[n - 1])
        BY <1>2, <1>8
    <3> QED
        BY <3>1, <2>2, <1>3
  <2> HIDE DEF G
  <2>3. \A n \in 0..N : n \in G
      BY <1>2, <2>1, <2>2, Induct
  <2> QED
      BY <2>3 DEF G
<1>10. after[N] \in S
    BY <1>2, <1>9
<1> QED
    BY <1>1, <1>10 DEF S

Joined(def, s, h) == IsRoot(def, h) \/ JoinSatisfied(def, s, h)

(* What is ready or at work may be. *)
JoinsHold(def, s) == \A h \in Hops(def) : s[h].status \in {"ready", "dispatched"} => Joined(def, s, h)

NoneAbandoned(def, s) ==
    \A h \in Hops(def) : s[h].status = "pending" => ~(def[h].dependsOn \subseteq Having(s, {"failed"}))

Startable(s, h) == s[h].status \in {"pending", "ready"}

(* A join that is satisfied stays so while hops complete or are skipped. *)
LEMMA JoinMonotone ==
    ASSUME NEW def, NEW s, NEW t, NEW h,
           Having(s, {"complete"}) \subseteq Having(t, {"complete"}),
           Having(s, {"complete", "skipped"}) \subseteq Having(t, {"complete", "skipped"}),
           Joined(def, s, h)
    PROVE  Joined(def, t, h)
BY DEF Joined, JoinSatisfied

(* The hop that an evaluation hands on is one of those it found. *)
LEMMA FirstIsReady ==
    ASSUME NEW def, IsDefinition(def), NEW A \in SUBSET Hops(def), NEW B \in SUBSET Hops(def)
    PROVE  FirstOf(A, B) = NoHop \/ FirstOf(A, B) \in A \cup B
<1>1. \A T \in SUBSET Hops(def) : T # {} => Min(T) \in T
  <2> SUFFICES ASSUME NEW T \in SUBSET Hops(def), T # {} PROVE Min(T) \in T
      OBVIOUS
  <2>1. T \subseteq Nat
      BY DEF Hops, IsDefinition
  <2>2. \E m \in T : \A k \in T : m <= k
      BY <2>1, Least
  <2> QED
      BY <2>2 DEF Min
<1>2. CASE A # {}
    BY <1>1, <1>2 DEF FirstOf
<1>3. CASE A = {} /\ B # {}
    BY <1>1, <1>3 DEF FirstOf
<1>4. CASE A = {} /\ B = {}
    BY <1>4 DEF FirstOf
<1> QED
    BY <1>2, <1>3, <1>4

(* A hop h that was out becomes r, and pending hops are skipped. *)
Ends(def, s, h, r, t) ==
    /\ t[h] = r
    /\ \A g \in Hops(def) \ {h} :
         t[g] = s[g] \/ (s[g].status = "pending" /\ t[g] = [s[g] EXCEPT !.status = "skipped"])

Ending(def, R, Notes, s, h, r, t) ==
    /\ s \in States(def, R, Notes) /\ t \in States(def, R, Notes) /\ h \in Hops(def)
    /\ s[h].status = "dispatched" /\ r.status \in {"complete", "failed"}
    /\ Ends(def, s, h, r, t)

(* What follows from a hop's end: joins that held still hold, failures stay. *)
LEMMA EndsFacts ==
    ASSUME NEW def, NEW R, NEW Notes, NEW s, NEW t, NEW h, NEW r, Ending(def, R, Notes, s, h, r, t)
    PROVE  /\ \A g \in Hops(def) : t[g].status = "dispatched" => g # h /\ s[g].status = "dispatched"
           /\ \A g \in Hops(def) : t[g].status \in {"pending", "ready"} => t[g] = s[g]
           /\ \A g \in Hops(def) : s[g].status = "failed" => t[g].status = "failed"
           /\ \A g \in Hops(def) \ {h} : t[g].rejectionCount = s[g].rejectionCount
           /\ \A g \in Hops(def) \ {h} : t[g].status = "failed" => s[g].status = "failed"
           /\ JoinsHold(def, s) => JoinsHold(def, t)
<1> USE DEF Ending
<1>1. /\ DOMAIN s = Hops(def) /\ DOMAIN t = Hops(def)
      /\ \A g \in Hops(def) : s[g] \in HopRecords(R, Notes) /\ t[g] \in HopRecords(R, Notes)
    BY DEF States
<1>2. \A g \in Hops(def) \ {h} :
          /\ t[g] = s[g] \/ (s[g].status = "pending" /\ t[g].status = "skipped")
          /\ t[g].rejectionCount = s[g].rejectionCount
    BY <1>1 DEF Ends, HopRecords
<1>3. t[h].status = r.status
    BY DEF Ends
<1>4. /\ \A g \in Hops(def) : t[g].status = "dispatched" => g # h /\ s[g].status = "dispatched"
      /\ \A g \in Hops(def) : t[g].status \in {"pending", "ready"} => t[g] = s[g]
      /\ \A g \in Hops(def) : s[g].status = "failed" => t[g].status = "failed"
    BY <1>2, <1>3
<1>5. /\ Having(s, {"complete"}) \subseteq Having(t, {"complete"})
      /\ Having(s, {"complete", "skipped"}) \subseteq Having(t, {"complete", "skipped"})
    BY <1>1, <1>2, <1>3 DEF Having
<1>6. ASSUME JoinsHold(def, s) PROVE JoinsHold(def, t)
  <2> SUFFICES ASSUME NEW g \in Hops(def), t[g].status \in {"ready", "dispatched"}
               PROVE  Joined(def, t, g)
      BY DEF JoinsHold
  <2>1. s[g].status \in {"ready", "dispatched"}
      BY <1>2, <1>3
  <2> QED
      BY <1>5, <1>6, <2>1, JoinMonotone DEF JoinsHold
<1> QED
    BY <1>2, <1>4, <1>5, <1>6

(* Skips after the end of h, and skips after those. *)
LEMMA SkipsCompose ==
    ASSUME NEW def, NEW R, NEW Notes, NEW h \in Hops(def), NEW s \in States(def, R, Notes),
           NEW p \in States(def, R, Notes), NEW c \in States(def, R, Notes), NEW t \in States(def, R, Notes),
           p[h].status \in {"complete", "failed"}, \A g \in Hops(def) \ {h} : p[g] = s[g],
           SkippedFrom(p, c), SkippedFrom(c, t)
    PROVE  Ends(def, s, h, p[h], t)
<1>1. DOMAIN p = Hops(def) /\ DOMAIN c = Hops(def) /\ \A g \in Hops(def) : p[g] \in HopRecords(R, Notes) /\ c[g] \in HopRecords(R, Notes)
    BY DEF States
<1>2. c[h] = p[h] /\ t[h] = c[h]
    BY <1>1 DEF SkippedFrom
<1>3. ASSUME NEW g \in Hops(def) \ {h}
      PROVE  t[g] = s[g] \/ (s[g].status = "pending" /\ t[g] = [s[g] EXCEPT !.status = "skipped"])
  <2>1. c[g] = p[g] \/ (p[g].status = "pending" /\ c[g] = [p[g] EXCEPT !.status = "skipped"])
      BY <1>1 DEF SkippedFrom
  <2>2. t[g] = c[g] \/ (c[g].status = "pending" /\ t[g] = [c[g] EXCEPT !.status = "skipped"])
      BY <1>1 DEF SkippedFrom
  <2>3. CASE c[g] = p[g]
      BY <2>2, <2>3
  <2>4. CASE p[g].status = "pending" /\ c[g] = [p[g] EXCEPT !.status = "skipped"]
    <3>1. c[g].status = "skipped"
        BY <1>1, <2>4 DEF HopRecords
    <3> QED
        BY <2>2, <2>4, <3>1
  <2> QED
      BY <2>1, <2>3, <2>4
<1> QED
    BY <1>2, <1>3 DEF Ends

(* A cascade leaves no pending hop whose predecessors have all failed.       *)
LEMMA CascadeReaches ==
    ASSUME NEW def, IsDefinition(def), NEW R, NEW Notes, NEW h \in Hops(def),
           NEW s \in States(def, R, Notes), s[h].status = "dispatched", NoneAbandoned(def, s),
           NEW p \in States(def, R, Notes), p[h].status = "failed", \A g \in Hops(def) \ {h} : p[g] = s[g],
           NEW t \in States(def, R, Notes), SkippedFrom(cascadeSkips(def, p, h), t)
    PROVE  NoneAbandoned(def, t)
<1> DEFINE c == cascadeSkips(def, p, h)
<1>1. /\ c \in States(def, R, Notes) /\ SkippedFrom(p, c)
      /\ \A g \in Hops(def) \ {h} :
            p[g].status = "pending" /\ h \in def[g].dependsOn
            /\ def[g].dependsOn \subseteq {h} \cup Having(p, NonSuccess) => c[g].status = "skipped"
    BY CascadeSkips
<1> HIDE DEF c
<1>2. Ends(def, s, h, p[h], t)
    BY <1>1, SkipsCompose DEF c
<1>3. /\ \A g \in Hops(def) : t[g].status \in {"pending", "ready"} => t[g] = s[g]
      /\ \A g \in Hops(def) \ {h} : t[g].status = "failed" => s[g].status = "failed"
  <2>1. t[h].status = "failed" /\ Ending(def, R, Notes, s, h, p[h], t)
      BY <1>2 DEF Ending, Ends
  <2> QED
      BY <2>1, EndsFacts
<1> SUFFICES ASSUME NEW g \in Hops(def), t[g].status = "pending",
                    def[g].dependsOn \subseteq Having(t, {"failed"})
             PROVE  FALSE
    BY DEF NoneAbandoned
<1>4. s[g].status = "pending" /\ g # h /\ p[g].status = "pending"
    BY <1>3
<1> DEFINE Was == Having(s, {"failed"})
<1>5. def[g].dependsOn \subseteq {h} \cup Was /\ h \in def[g].dependsOn
  <2>1. DOMAIN s = Hops(def) /\ DOMAIN t = Hops(def)
      BY DEF States
  <2>2. \A k \in def[g].dependsOn : k = h \/ k \in Was
      BY <1>3, <2>1 DEF Having
  <2> QED
      BY <1>4, <2>2 DEF NoneAbandoned
<1>6. Was \subseteq {h} \cup Having(p, NonSuccess)
    BY DEF Having, NonSuccess, States
<1>7. c[g].status = "skipped"
    BY <1>1, <1>4, <1>5, <1>6
<1>8. t[g].status = "skipped"
  <2>1. t[g] = c[g] \/ c[g].status = "pending"
      BY <1>1 DEF SkippedFrom, States, c
  <2> QED
      BY <1>7, <2>1
<1> QED
    BY <1>8

(* The hops that the join makes ready. *)
LEMMA FoundMayStart ==
    ASSUME NEW def, NEW R, NEW Notes, NEW t \in States(def, R, Notes)
    PROVE  /\ determineReadyHops(def, t) \in SUBSET Hops(def)
           /\ \A g \in determineReadyHops(def, t) : t[g].status = "pending" /\ Joined(def, t, g)
           /\ Having(t, {"ready"}) \in SUBSET Hops(def)
           /\ \A g \in Having(t, {"ready"}) : t[g].status = "ready"
BY DEF determineReadyHops, Having, Joined, States

(* Marking these hops ready disturbs no join and abandons no hop. *)
LEMMA ReadyMarked ==
    ASSUME NEW def, NEW R, NEW Notes, NEW t \in States(def, R, Notes), NEW found \in SUBSET Hops(def),
           \A g \in found : t[g].status = "pending" /\ Joined(def, t, g)
    PROVE  LET new == With(t, found, "ready")
           IN  /\ new \in States(def, R, Notes)
               /\ \A g \in Hops(def) : /\ new[g].status = IF g \in found THEN "ready" ELSE t[g].status
                                       /\ new[g].rejectionCount = t[g].rejectionCount
               /\ \A g \in found : new[g].status = "ready" /\ Joined(def, new, g)
               /\ JoinsHold(def, t) => JoinsHold(def, new)
               /\ NoneAbandoned(def, t) => NoneAbandoned(def, new)
<1> DEFINE new == With(t, found, "ready")
<1>1. /\ new \in States(def, R, Notes)
      /\ \A g \in Hops(def) : new[g] = IF g \in found THEN [t[g] EXCEPT !.status = "ready"] ELSE t[g]
  <2>1. "ready" \in HopStatus
      BY DEF HopStatus
  <2> QED
      BY <2>1, WithTyped
<1> HIDE DEF new
<1>2. \A g \in Hops(def) : /\ new[g].status = IF g \in found THEN "ready" ELSE t[g].status
                           /\ new[g].rejectionCount = t[g].rejectionCount
    BY <1>1 DEF States, HopRecords
<1>3. /\ DOMAIN t = Hops(def) /\ DOMAIN new = Hops(def)
      /\ \A g \in Hops(def) : t[g].status \in {"complete", "skipped", "failed"} => new[g].status = t[g].status
      /\ \A g \in Hops(def) : new[g].status \in {"complete", "skipped", "failed"} => t[g].status = new[g].status
    BY <1>1, <1>2 DEF States
<1>4. /\ Having(t, {"complete"}) \subseteq Having(new, {"complete"})
      /\ Having(t, {"complete", "skipped"}) \subseteq Having(new, {"complete", "skipped"})
      /\ Having(new, {"failed"}) \subseteq Having(t, {"failed"})
    BY <1>3 DEF Having
<1>5. \A g \in Hops(def) : Joined(def, t, g) => Joined(def, new, g)
    BY <1>4, JoinMonotone
<1>6. JoinsHold(def, t) => JoinsHold(def, new)
    BY <1>2, <1>5 DEF JoinsHold
<1>7. NoneAbandoned(def, t) => NoneAbandoned(def, new)
    BY <1>2, <1>4 DEF NoneAbandoned
<1> QED
    BY <1>1, <1>2, <1>5, <1>6, <1>7 DEF new

(* What one evaluation does to the hops, whatever the outcome of hop h.      *)
Evaluates(def, R, Notes, s, h, outcome, new, next) ==
    /\ new \in States(def, R, Notes)
    /\ \A g \in Hops(def) : new[g].status = "dispatched" => g # h /\ s[g].status = "dispatched"
    /\ next # NoHop => /\ next \in Hops(def) /\ Startable(new, next)
                       /\ JoinsHold(def, new) => Joined(def, new, next)
    /\ (\A g \in Hops(def) : def[g].rejectionStrategy = "origin") =>
         /\ JoinsHold(def, s) => JoinsHold(def, new)
         /\ NoneAbandoned(def, s) => NoneAbandoned(def, new)
    /\ outcome # "rejected" =>
         \A g \in Hops(def) : /\ new[g].rejectionCount = s[g].rejectionCount
                              /\ s[g].status = "failed" => new[g].status = "failed"
    /\ outcome = "rejected" =>
         /\ new[h].rejectionCount = s[h].rejectionCount + 1
         /\ new[h].rejectionCount >= DEFAULT_MAX_REJECTIONS => new[h].status = "failed"

(* evaluateDAG on a hop that completed or failed. *)
LEMMA EvaluateEnded ==
    ASSUME NEW def, IsDefinition(def), NEW R, NEW Notes, NEW s \in States(def, R, Notes),
           NEW h \in Hops(def), s[h].status = "dispatched",
           NEW outcome \in {"complete", "failed"}, NEW note \in Notes \cup {NoNote}, NEW tags
    PROVE  LET ev == evaluateDAG(def, s, h, outcome, note, tags)
           IN  /\ Evaluates(def, R, Notes, s, h, outcome, ev.hops, ev.next)
               /\ ev.dagStatus = checkDAGCompletion(ev.hops)
<1> DEFINE p == [s EXCEPT ![h] = [@ EXCEPT !.status = outcome, !.note = note]]
           c == IF outcome = "complete" THEN p ELSE cascadeSkips(def, p, h)
           t == evaluateNewlyEligibleConditions(def, c, tags)
           found == determineReadyHops(def, t)
           new == With(t, found, "ready")
           ev == evaluateDAG(def, s, h, outcome, note, tags)
<1>1. ev.hops = new /\ ev.next = FirstOf(found, {}) /\ ev.dagStatus = checkDAGCompletion(new)
    BY DEF evaluateDAG, Evaluated
<1> HIDE DEF ev
<1>2. /\ p \in States(def, R, Notes) /\ \A g \in Hops(def) \ {h} : p[g] = s[g]
      /\ p[h].status = outcome /\ p[h].rejectionCount = s[h].rejectionCount
  <2>1. s[h] \in HopRecords(R, Notes) /\ outcome \in HopStatus /\ DOMAIN s = Hops(def)
      BY DEF States, HopStatus
  <2>2. [s[h] EXCEPT !.status = outcome, !.note = note] \in HopRecords(R, Notes)
      BY <2>1 DEF HopRecords
  <2>3. p[h].status = outcome /\ p[h].rejectionCount = s[h].rejectionCount
      BY <2>1 DEF HopRecords
  <2> QED
      BY <2>1, <2>2, <2>3 DEF States
<1> HIDE DEF p
<1>3. c \in States(def, R, Notes) /\ SkippedFrom(p, c)
  <2>1. CASE outcome = "complete"
      BY <1>2, <2>1 DEF SkippedFrom
  <2>2. CASE outcome = "failed"
      BY <1>2, <2>2, CascadeSkips
  <2> QED
      BY <2>1, <2>2
<1>4. outcome = "failed" => c = cascadeSkips(def, p, h)
    OBVIOUS
<1> HIDE DEF c
<1>5. t \in States(def, R, Notes) /\ SkippedFrom(c, t)
    BY <1>3, ConditionsSkip
<1> HIDE DEF t
<1>6. Ends(def, s, h, p[h], t)
    BY <1>2, <1>3, <1>5, SkipsCompose
<1>7. /\ \A g \in Hops(def) : t[g].status = "dispatched" => g # h /\ s[g].status = "dispatched"
      /\ \A g \in Hops(def) : t[g].status \in {"pending", "ready"} => t[g] = s[g]
      /\ \A g \in Hops(def) : s[g].status = "failed" => t[g].status = "failed"
      /\ \A g \in Hops(def) \ {h} : t[g].rejectionCount = s[g].rejectionCount
      /\ \A g \in Hops(def) \ {h} : t[g].status = "failed" => s[g].status = "failed"
      /\ JoinsHold(def, s) => JoinsHold(def, t)
  <2>1. Ending(def, R, Notes, s, h, p[h], t)
      BY <1>2, <1>5, <1>6 DEF Ending
  <2> QED
      BY <2>1, EndsFacts
<1>8. t[h] = p[h]
    BY <1>6 DEF Ends
<1>9. NoneAbandoned(def, s) => NoneAbandoned(def, t)
  <2> SUFFICES ASSUME NoneAbandoned(def, s) PROVE NoneAbandoned(def, t)
      OBVIOUS
  <2>1. CASE outcome = "complete"
    <3>1. Having(t, {"failed"}) \subseteq Having(s, {"failed"})
        BY <1>2, <1>7, <1>8, <1>5, <2>1 DEF Having, States
    <3> QED
        BY <1>7, <3>1 DEF NoneAbandoned
  <2>2. CASE outcome = "failed"
      BY <1>2, <1>4, <1>5, <2>2, CascadeReaches
  <2> QED
      BY <2>1, <2>2
<1>10. found \in SUBSET Hops(def) /\ \A g \in found : t[g].status = "pending" /\ Joined(def, t, g)
    BY <1>5, FoundMayStart
<1> HIDE DEF found
<1>11. /\ new \in States(def, R, Notes)
       /\ \A g \in Hops(def) : /\ new[g].status = IF g \in found THEN "ready" ELSE t[g].status
                               /\ new[g].rejectionCount = t[g].rejectionCount
       /\ \A g \in found : new[g].status = "ready" /\ Joined(def, new, g)
       /\ JoinsHold(def, t) => JoinsHold(def, new)
       /\ NoneAbandoned(def, t) => NoneAbandoned(def, new)
    BY <1>5, <1>10, ReadyMarked
<1> HIDE DEF new
<1>12. ev.next = NoHop \/ ev.next \in found
    BY <1>1, <1>10, FirstIsReady
<1>13. \A g \in Hops(def) : new[g].rejectionCount = s[g].rejectionCount
    BY <1>2, <1>7, <1>8, <1>11
<1>14. \A g \in Hops(def) : s[g].status = "failed" => new[g].status = "failed"
    BY <1>7, <1>10, <1>11
<1>15. \A g \in Hops(def) : new[g].status = "dispatched" => g # h /\ s[g].status = "dispatched"
    BY <1>7, <1>11
<1>16. ev.next # NoHop => ev.next \in Hops(def) /\ Startable(new, ev.next) /\ Joined(def, new, ev.next)
    BY <1>10, <1>11, <1>12 DEF Startable
<1> QED
    BY <1>1, <1>7, <1>9, <1>11, <1>13, <1>14, <1>15, <1>16 DEF Evaluates, ev

(* A hop that is reset forgets everything but the rejections of the rejected. *)
LEMMA ResetTyped ==
    ASSUME NEW R \in Nat, NEW Notes, NEW s, NEW h, NEW status \in HopStatus, NEW back, NEW count \in Nat
    PROVE  /\ Reset(s, h, status, back, count) \in HopRecords(R, Notes)
           /\ Reset(s, h, status, back, count).status = status
           /\ Reset(s, h, status, back, count).rejectionCount = IF h = back THEN count ELSE 0
<1> DEFINE n == IF h = back THEN count ELSE 0
<1>1. HopState(status) \in HopRecords(R, Notes) /\ HopState(status).status = status
    BY DEF HopState, HopRecords
<1>2. n \in Nat /\ Reset(s, h, status, back, count) = [HopState(status) EXCEPT !.rejectionCount = n]
    BY DEF Reset
<1> HIDE DEF n
<1>3. \A r \in HopRecords(R, Notes) : /\ [r EXCEPT !.rejectionCount = n] \in HopRecords(R, Notes)
                                      /\ [r EXCEPT !.rejectionCount = n].status = r.status
                                      /\ [r EXCEPT !.rejectionCount = n].rejectionCount = n
    BY <1>2 DEF HopRecords
<1> QED
    BY <1>1, <1>2, <1>3 DEF n

(* A reset to the origin leaves the roots ready and all else pending. *)
LEMMA OriginReset ==
    ASSUME NEW def, NEW R \in Nat, NEW Notes, NEW s \in States(def, R, Notes),
           NEW h \in Hops(def), NEW count \in Nat
    PROVE  LET new == resetAllHopsForOrigin(def, s, h, count)
           IN  /\ new \in States(def, R, Notes)
               /\ \A g \in Hops(def) : new[g].status \in {"pending", "ready"}
               /\ new[h].rejectionCount = count
               /\ JoinsHold(def, new) /\ NoneAbandoned(def, new)
<1> DEFINE new == resetAllHopsForOrigin(def, s, h, count)
           first == initializeWorkflowState(def)
<1>1. \A g \in Hops(def) : first[g].status = IF IsRoot(def, g) THEN "ready" ELSE "pending"
    BY DEF initializeWorkflowState, HopState
<1> HIDE DEF first
<1>2. DOMAIN s = Hops(def)
    BY DEF States
<1>3. new = [g \in Hops(def) |-> Reset(s, g, first[g].status, h, count)]
    BY <1>2 DEF resetAllHopsForOrigin, first
<1>4. \A g \in Hops(def) : first[g].status \in HopStatus
    BY <1>1 DEF HopStatus
<1>5. \A g \in Hops(def) :
        /\ new[g] \in HopRecords(R, Notes)
        /\ new[g].status = IF IsRoot(def, g) THEN "ready" ELSE "pending"
        /\ new[g].rejectionCount = IF g = h THEN count ELSE 0
    BY <1>1, <1>3, <1>4, ResetTyped
<1>6. new \in States(def, R, Notes)
    BY <1>3, <1>5 DEF States
<1> HIDE DEF new
<1>7. JoinsHold(def, new)
    BY <1>5 DEF JoinsHold, Joined
<1>8. NoneAbandoned(def, new)
  <2>1. \A g \in Hops(def) : g \notin Having(new, {"failed"})
      BY <1>5 DEF Having
  <2>2. DOMAIN new = Hops(def)
      BY <1>6 DEF States
  <2>3. Having(new, {"failed"}) = {}
      BY <2>1, <2>2 DEF Having
  <2> QED
      BY <1>5, <2>3 DEF NoneAbandoned, IsRoot
<1> QED
    BY <1>5, <1>6, <1>7, <1>8 DEF new

(* A reset to the predecessors puts no hop out. *)
LEMMA PredecessorReset ==
    ASSUME NEW def, NEW R \in Nat, NEW Notes, NEW s \in States(def, R, Notes),
           NEW h \in Hops(def), NEW count \in Nat
    PROVE  LET new == resetPredecessorHops(def, s, h, count)
           IN  /\ new \in States(def, R, Notes)
               /\ \A g \in Hops(def) : new[g].status = "dispatched" => g # h /\ s[g].status = "dispatched"
               /\ new[h].rejectionCount = count
<1> DEFINE new == resetPredecessorHops(def, s, h, count)
           resetSet == {h} \cup def[h].dependsOn
           Settled(g) == def[g].dependsOn \subseteq Having(s, {"complete", "skipped"}) \ resetSet
           now(g) == IF Settled(g) THEN "ready" ELSE "pending"
<1>1. DOMAIN s = Hops(def) /\ \A g \in Hops(def) : s[g] \in HopRecords(R, Notes)
    BY DEF States
<1>2. new = [g \in Hops(def) |-> IF g \notin resetSet THEN s[g] ELSE Reset(s, g, now(g), h, count)]
    BY <1>1 DEF resetPredecessorHops
<1>3. \A g \in Hops(def) : now(g) \in HopStatus /\ now(g) # "dispatched"
    BY DEF HopStatus
<1>4. h \in resetSet
    OBVIOUS
<1> HIDE DEF Settled, now, resetSet, new
<1>5. \A g \in Hops(def) :
        /\ new[g] = IF g \notin resetSet THEN s[g] ELSE Reset(s, g, now(g), h, count)
        /\ Reset(s, g, now(g), h, count) \in HopRecords(R, Notes)
        /\ Reset(s, g, now(g), h, count).status = now(g)
        /\ Reset(s, g, now(g), h, count).rejectionCount = IF g = h THEN count ELSE 0
    BY <1>2, <1>3, ResetTyped
<1>6. new \in States(def, R, Notes)
    BY <1>1, <1>2, <1>5 DEF States
<1>7. \A g \in Hops(def) : new[g].status = "dispatched" => g # h /\ s[g].status = "dispatched"
    BY <1>3, <1>4, <1>5
<1>8. new[h].rejectionCount = count
    BY <1>4, <1>5
<1> QED
    BY <1>6, <1>7, <1>8 DEF new

(* evaluateDAG on a rejection. *)
LEMMA EvaluateRejected ==
    ASSUME NEW def, IsDefinition(def), NEW R \in Nat, NEW Notes, NEW s \in States(def, R, Notes),
           NEW h \in Hops(def), s[h].status = "dispatched", NEW note, NEW tags
    PROVE  LET ev == evaluateDAG(def, s, h, "rejected", note, tags)
           IN  /\ Evaluates(def, R, Notes, s, h, "rejected", ev.hops, ev.next)
               /\ ev.dagStatus = checkDAGCompletion(ev.hops)
<1> DEFINE new == RejectHop(def, s, h)
           found == determineReadyHops(def, new)
           reset == Having(new, {"ready"})
           ev == evaluateDAG(def, s, h, "rejected", note, tags)
           count == s[h].rejectionCount + 1
           broken == [s EXCEPT ![h] = [@ EXCEPT !.status = "failed", !.rejectionCount = count]]
           Origin == \A g \in Hops(def) : def[g].rejectionStrategy = "origin"
           Effect == /\ new \in States(def, R, Notes)
                     /\ \A g \in Hops(def) : new[g].status = "dispatched" => g # h /\ s[g].status = "dispatched"
                     /\ Origin => /\ JoinsHold(def, s) => JoinsHold(def, new)
                                  /\ NoneAbandoned(def, s) => NoneAbandoned(def, new)
                     /\ new[h].rejectionCount = count
                     /\ count >= DEFAULT_MAX_REJECTIONS => new[h].status = "failed"
<1>1. ev.hops = new /\ ev.next = FirstOf(found, reset) /\ ev.dagStatus = checkDAGCompletion(new)
    BY DEF evaluateDAG, Evaluated
<1>2. DOMAIN s = Hops(def) /\ s[h] \in HopRecords(R, Notes) /\ count \in Nat
    BY DEF States, HopRecords
<1>3. ASSUME count >= DEFAULT_MAX_REJECTIONS PROVE Effect
  <2>1. new = cascadeSkips(def, broken, h)
      BY <1>3 DEF RejectHop
  <2>2. /\ broken \in States(def, R, Notes) /\ \A g \in Hops(def) \ {h} : broken[g] = s[g]
        /\ broken[h].status = "failed" /\ broken[h].rejectionCount = count
    <3>1. "failed" \in HopStatus
        BY DEF HopStatus
    <3>2. [s[h] EXCEPT !.status = "failed", !.rejectionCount = count] \in HopRecords(R, Notes)
        BY <1>2, <3>1 DEF HopRecords
    <3>3. broken[h].status = "failed" /\ broken[h].rejectionCount = count
        BY <1>2 DEF HopRecords
    <3> QED
        BY <1>2, <3>2, <3>3 DEF States
  <2> HIDE DEF broken
  <2>3. cascadeSkips(def, broken, h) \in States(def, R, Notes) /\ SkippedFrom(broken, cascadeSkips(def, broken, h))
      BY <2>2, CascadeSkips
  <2> HIDE DEF new
  <2>4. new \in States(def, R, Notes) /\ SkippedFrom(broken, new) /\ SkippedFrom(new, new)
      BY <2>1, <2>3 DEF SkippedFrom
  <2>5. Ends(def, s, h, broken[h], new)
      BY <2>2, <2>4, SkipsCompose
  <2>6. /\ \A g \in Hops(def) : new[g].status = "dispatched" => g # h /\ s[g].status = "dispatched"
        /\ JoinsHold(def, s) => JoinsHold(def, new)
    <3>1. Ending(def, R, Notes, s, h, broken[h], new)
        BY <2>2, <2>4, <2>5 DEF Ending
    <3> QED
        BY <3>1, EndsFacts
  <2>7. NoneAbandoned(def, s) => NoneAbandoned(def, new)
      BY <2>1, <2>2, <2>4, CascadeReaches
  <2>8. new[h] = broken[h]
      BY <2>5 DEF Ends
  <2> QED
      BY <2>2, <2>4, <2>6, <2>7, <2>8
<1>4. ASSUME ~(count >= DEFAULT_MAX_REJECTIONS), def[h].rejectionStrategy = "origin" PROVE Effect
  <2>1. new = resetAllHopsForOrigin(def, s, h, count)
      BY <1>4 DEF RejectHop
  <2> HIDE DEF new, count
  <2> QED
      BY <1>2, <1>4, <2>1, OriginReset
<1>5. ASSUME ~(count >= DEFAULT_MAX_REJECTIONS), def[h].rejectionStrategy # "origin" PROVE Effect
  <2>1. new = resetPredecessorHops(def, s, h, count)
      BY <1>5 DEF RejectHop
  <2> HIDE DEF new, count
  <2> QED
      BY <1>2, <1>5, <2>1, PredecessorReset
<1>6. Effect
    BY <1>3, <1>4, <1>5
<1> HIDE DEF new, ev
<1>7. /\ found \in SUBSET Hops(def) /\ reset \in SUBSET Hops(def)
      /\ \A g \in found : new[g].status = "pending" /\ Joined(def, new, g)
      /\ \A g \in reset : new[g].status = "ready"
    BY <1>6, FoundMayStart
<1> HIDE DEF found, reset
<1>8. ev.next = NoHop \/ ev.next \in found \/ ev.next \in reset
  <2>1. FirstOf(found, reset) = NoHop \/ FirstOf(found, reset) \in found \cup reset
      BY <1>7, FirstIsReady
  <2> QED
      BY <1>1, <2>1
<1>9. ev.next # NoHop => /\ ev.next \in Hops(def) /\ Startable(new, ev.next)
                         /\ JoinsHold(def, new) => Joined(def, new, ev.next)
    BY <1>7, <1>8 DEF Startable, JoinsHold
<1> QED
    BY <1>1, <1>6, <1>9 DEF Evaluates, ev

(* evaluateDAG, whatever the outcome. *)
LEMMA Evaluation ==
    ASSUME NEW def, IsDefinition(def), NEW R \in Nat, NEW Notes, NEW s \in States(def, R, Notes),
           NEW h \in Hops(def), s[h].status = "dispatched",
           NEW outcome \in {"complete", "failed", "rejected"}, NEW note \in Notes \cup {NoNote}, NEW tags
    PROVE  LET ev == evaluateDAG(def, s, h, outcome, note, tags)
           IN  /\ Evaluates(def, R, Notes, s, h, outcome, ev.hops, ev.next)
               /\ ev.dagStatus = checkDAGCompletion(ev.hops)
<1>1. CASE outcome = "rejected"
    BY <1>1, EvaluateRejected
<1>2. CASE outcome \in {"complete", "failed"}
    BY <1>2, EvaluateEnded
<1> QED
    BY <1>1, <1>2

(* -------------------------- The inductive invariant ----------------------- *)

Tasks(R) == [status : Statuses, dag : {"running", "complete", "failed"}, failures : Nat,
             hops : States(Def, R, setup.notes)]
Results == [outcome : setup.outcomes, note : setup.notes, run : Nat]
Verdicts == [next : Hops(Def) \cup {NoHop}, dag : {"running", "complete", "failed"}, review : BOOLEAN]

(* What a session-end handler and the poll hold on to. *)
EndHolds(R) ==
    {x \in [pc : {"idle", "lock", "advance", "spawn"}, snap : Tasks(R) \cup {0},
            res : Results \cup {NoResult}, ev : Verdicts \cup {0}, hop : Hops(Def) \cup {0}] :
        /\ x.pc # "idle" => x.snap \in Tasks(R) /\ x.res \in Results
        /\ x.pc = "advance" => x.ev \in Verdicts
        /\ x.pc = "spawn" => x.hop \in Hops(Def)}
PollHolds(R) ==
    {x \in [pc : {"idle", "fresh", "spawn"}, snap : Tasks(R) \cup {0}, hop : Hops(Def) \cup {0}] :
        /\ x.pc # "idle" => x.hop \in Hops(Def)
        /\ x.pc = "spawn" => x.snap \in Tasks(R)}

Shape ==
    /\ setup \in Setups /\ validateDAG(Def)
    /\ nextRun \in Nat \ {0}
    /\ task \in Tasks(nextRun - 1)
    /\ live \subseteq [id : 1 .. nextRun - 1, hop : Hops(Def)]
    /\ callbacks \subseteq 1 .. nextRun - 1
    /\ lock \in {"free", "report", "end"}
    /\ result # NoResult => result \in Results
    /\ rejected \in [Hops(Def) -> Nat]
    /\ ends \in [Enders -> EndHolds(nextRun - 1)]
    /\ poll \in PollHolds(nextRun - 1)

(* The rest is about handlers that do not overlap.  One runs at a time ... *)
OneHandler ==
    /\ report.pc # "idle" => poll.pc = "idle"
    /\ \A e \in Enders : ends[e].pc # "idle" =>
         /\ report.pc = "idle" /\ poll.pc = "idle"
         /\ \A f \in Enders : ends[f].pc # "idle" => f = e

(* ... the object it holds is the task, and the hop it starts may start. *)
MayStart(t, h) ==
    /\ NoHopOut(t) /\ t.dag = "running"
    /\ Startable(t.hops, h)
    /\ StartsOver => Joined(Def, t.hops, h)

EndFresh(x, t) ==
    /\ x.pc # "idle" => x.snap = t /\ t.status = "in-progress"
    /\ x.pc = "advance" =>
         /\ x.ev.dag = t.dag
         /\ x.ev.next # NoHop /\ t.dag = "running" => MayStart(t, x.ev.next)
    /\ x.pc = "spawn" => MayStart(t, x.hop)

HandlersFresh ==
    /\ OneHandler
    /\ \A e \in Enders : EndFresh(ends[e], task)
    /\ poll.pc # "idle" => task.status = "in-progress" /\ MayStart(task, poll.hop)
    /\ poll.pc = "spawn" => poll.snap = task

OneOut(t) == \A g, h \in Dispatched(t) : g = h

OrderKept(t) == StartsOver => /\ JoinsHold(Def, t.hops)
                              /\ t.failures = 0 => NoneAbandoned(Def, t.hops)

(* A verdict is given when no hop can move any more. *)
VerdictFinal(t) == t.dag # "running" => \A h \in Hops(Def) : t.hops[h].status \in Terminal

(* A sole reviewer's rejections are counted on its hop; at the limit the hop *)
(* has failed.                                                               *)
SoleReviewer == Cardinality({h \in Hops(Def) : Def[h].canReject}) <= 1
Counted(t, rej) ==
    \A h \in Hops(Def) :
        /\ ~Def[h].canReject => rej[h] = 0
        /\ Def[h].canReject =>
             /\ rej[h] = t.hops[h].rejectionCount
             /\ rej[h] <= DEFAULT_MAX_REJECTIONS
             /\ rej[h] = DEFAULT_MAX_REJECTIONS => t.hops[h].status = "failed"

TaskOK(t, rej) == OneOut(t) /\ OrderKept(t) /\ VerdictFinal(t) /\ (SoleReviewer => Counted(t, rej))

IInv == Shape /\ (~setup.overlap => HandlersFresh /\ TaskOK(task, rejected))

(* ---------------------------- Lemmas on the task -------------------------- *)

(* The definition that is run is a sequence of hops. *)
LEMMA DefinitionIsSequence ==
    ASSUME setup \in Setups
    PROVE  IsDefinition(Def)
BY DefinitionsAreSequences DEF IsDefinition, Def

(* What a handler holds stays well formed when a session is added. *)
LEMMA Grows ==
    ASSUME NEW R \in Nat
    PROVE  /\ Tasks(R) \subseteq Tasks(R + 1)
           /\ EndHolds(R) \subseteq EndHolds(R + 1)
           /\ PollHolds(R) \subseteq PollHolds(R + 1)
<1>1. HopRecords(R, setup.notes) \subseteq HopRecords(R + 1, setup.notes)
    BY DEF HopRecords
<1>2. States(Def, R, setup.notes) \subseteq States(Def, R + 1, setup.notes)
    BY <1>1 DEF States
<1>3. Tasks(R) \subseteq Tasks(R + 1)
    BY <1>2 DEF Tasks
<1> DEFINE A == Tasks(R)
           B == Tasks(R + 1)
<1> HIDE DEF A, B
<1>4. A \subseteq B
    BY <1>3 DEF A, B
<1>5. EndHolds(R) \subseteq EndHolds(R + 1)
    BY <1>4 DEF EndHolds, A, B
<1>6. PollHolds(R) \subseteq PollHolds(R + 1)
    BY <1>4 DEF PollHolds, A, B
<1> QED
    BY <1>3, <1>5, <1>6

(* A transition leaves the workflow alone. *)
LEMMA MovedKeeps ==
    ASSUME NEW R, NEW t \in Tasks(R), NEW to \in Statuses
    PROVE  /\ Moved(t, to) \in Tasks(R)
           /\ Moved(t, to).hops = t.hops /\ Moved(t, to).dag = t.dag /\ Moved(t, to).failures = t.failures
BY DEF Moved, Tasks

(* The save of an evaluation. *)
LEMMA SavedHopsTyped ==
    ASSUME NEW R, NEW t \in Tasks(R), NEW ev, ev.hops \in States(Def, R, setup.notes),
           ev.dagStatus \in {"running", "complete", "failed"}
    PROVE  /\ SavedHops(t, ev) \in Tasks(R)
           /\ SavedHops(t, ev).hops = ev.hops /\ SavedHops(t, ev).dag = ev.dagStatus
           /\ SavedHops(t, ev).status = t.status /\ SavedHops(t, ev).failures = t.failures
BY DEF SavedHops, Tasks

(* u is t with another record on the hop h. *)
OnlyHop(t, u, h) ==
    /\ u.dag = t.dag
    /\ \A g \in Hops(Def) \ {h} : u.hops[g] = t.hops[g]
    /\ u.hops[h].rejectionCount = t.hops[h].rejectionCount

(* The save of a dispatch. *)
LEMMA MarkTyped ==
    ASSUME NEW R \in Nat, nextRun = R + 1, NEW t \in Tasks(R), NEW h \in Hops(Def)
    PROVE  /\ MarkDispatched(t, h) \in Tasks(R + 1)
           /\ OnlyHop(t, MarkDispatched(t, h), h)
           /\ MarkDispatched(t, h).hops[h].status = "dispatched"
           /\ MarkDispatched(t, h).failures = t.failures
<1> DEFINE r == [t.hops[h] EXCEPT !.status = "dispatched", !.run = nextRun]
           new == [t.hops EXCEPT ![h] = r]
<1>1. /\ t.hops \in States(Def, R, setup.notes) /\ DOMAIN t.hops = Hops(Def)
      /\ t.hops[h] \in HopRecords(R, setup.notes)
    BY DEF Tasks, States
<1>2. r \in HopRecords(R + 1, setup.notes) /\ r.status = "dispatched" /\ r.rejectionCount = t.hops[h].rejectionCount
  <2> DEFINE old == t.hops[h]
  <2>1. old \in HopRecords(R, setup.notes) /\ nextRun \in 0..(R + 1) /\ 0..R \subseteq 0..(R + 1)
      BY <1>1
  <2> HIDE DEF old
  <2>2. /\ [old EXCEPT !.status = "dispatched", !.run = nextRun] \in HopRecords(R + 1, setup.notes)
        /\ [old EXCEPT !.status = "dispatched", !.run = nextRun].status = "dispatched"
        /\ [old EXCEPT !.status = "dispatched", !.run = nextRun].rejectionCount = old.rejectionCount
      BY <2>1 DEF HopRecords, HopStatus
  <2> QED
      BY <2>2 DEF old
<1>3. MarkDispatched(t, h) = [t EXCEPT !.hops = new]
    BY <1>1 DEF MarkDispatched, Tasks, HopRecords
<1> HIDE DEF r
<1>4. t \in Tasks(R + 1)
    BY Grows
<1>5. /\ new \in States(Def, R + 1, setup.notes) /\ new[h] = r
      /\ \A g \in Hops(Def) \ {h} : new[g] = t.hops[g]
    BY <1>1, <1>2, <1>4 DEF Tasks, States
<1> HIDE DEF new
<1> QED
    BY <1>2, <1>3, <1>4, <1>5 DEF OnlyHop, Tasks

(* The save of an enforcement: the hop has failed, or the task is given up. *)
LEMMA EnforcedTyped ==
    ASSUME NEW R \in Nat, NEW t \in Tasks(R), NEW h \in Hops(Def)
    PROVE  /\ Enforced(t, h) \in Tasks(R)
           /\ Enforced(t, h).failures # 0
           /\ OnlyHop(t, Enforced(t, h), h)
           /\ Enforced(t, h).hops[h] = t.hops[h] \/ Enforced(t, h).hops[h].status = "failed"
<1> DEFINE r == [t.hops[h] EXCEPT !.status = "failed"]
           new == [t.hops EXCEPT ![h] = r]
           u == [t EXCEPT !.failures = @ + 1]
<1>1. /\ t.hops \in States(Def, R, setup.notes) /\ DOMAIN t.hops = Hops(Def)
      /\ t.hops[h] \in HopRecords(R, setup.notes)
    BY DEF Tasks, States
<1>2. r \in HopRecords(R, setup.notes) /\ r.status = "failed" /\ r.rejectionCount = t.hops[h].rejectionCount
    BY <1>1 DEF HopRecords, HopStatus
<1>3. /\ new \in States(Def, R, setup.notes) /\ new[h] = r
      /\ \A g \in Hops(Def) \ {h} : new[g] = t.hops[g]
    BY <1>1, <1>2 DEF States
<1>4. u \in Tasks(R) /\ u.failures # 0 /\ u.hops = t.hops /\ u.dag = t.dag
    BY DEF Tasks
<1>5. CASE t.failures + 1 >= MAX_DISPATCH_FAILURES
  <2>1. Enforced(t, h) = Moved(u, "deadletter") /\ "deadletter" \in Statuses
      BY <1>5 DEF Enforced, Statuses
  <2> HIDE DEF u
  <2> DEFINE m == Moved(u, "deadletter")
  <2>2. m \in Tasks(R) /\ m.hops = u.hops /\ m.dag = u.dag /\ m.failures = u.failures
      BY <1>4, <2>1, MovedKeeps
  <2> QED
      BY <1>4, <2>1, <2>2 DEF OnlyHop
<1>6. CASE ~(t.failures + 1 >= MAX_DISPATCH_FAILURES)
  <2>1. Enforced(t, h) = [t EXCEPT !.failures = @ + 1, !.hops = new]
      BY <1>1, <1>6 DEF Enforced, Tasks, HopRecords
  <2> HIDE DEF r, new
  <2> DEFINE n == t.failures + 1
             e == [t EXCEPT !.failures = n, !.hops = new]
  <2>2. n \in Nat /\ n # 0
      BY DEF Tasks
  <2> HIDE DEF n
  <2>3. e \in Tasks(R) /\ e.failures = n /\ e.hops = new /\ e.dag = t.dag
      BY <1>3, <2>2 DEF Tasks
  <2>4. Enforced(t, h) = e
      BY <2>1 DEF n
  <2> HIDE DEF e
  <2> QED
      BY <1>2, <1>3, <2>2, <2>3, <2>4 DEF OnlyHop
<1> QED
    BY <1>5, <1>6

(* A change of the task's status is none of the workflow. *)
LEMMA HopsKept ==
    ASSUME NEW t, NEW u, NEW rej, u.hops = t.hops, u.dag = t.dag, u.failures = t.failures
    PROVE  /\ TaskOK(t, rej) => TaskOK(u, rej)
           /\ \A h : MayStart(t, h) => MayStart(u, h)
<1>1. OneOut(t) => OneOut(u)
    BY DEF OneOut, Dispatched
<1>2. OrderKept(t) => OrderKept(u)
    BY DEF OrderKept
<1>3. VerdictFinal(t) => VerdictFinal(u)
    BY DEF VerdictFinal
<1>4. Counted(t, rej) => Counted(u, rej)
    BY DEF Counted
<1>5. \A h : MayStart(t, h) => MayStart(u, h)
    BY DEF MayStart, NoHopOut, Dispatched
<1> QED
    BY <1>1, <1>2, <1>3, <1>4, <1>5 DEF TaskOK

(* A hop that may start is started. *)
LEMMA StartKeeps ==
    ASSUME NEW R, NEW R2, NEW t \in Tasks(R), NEW u \in Tasks(R2), NEW h \in Hops(Def), NEW rej,
           TaskOK(t, rej), MayStart(t, h),
           OnlyHop(t, u, h), u.hops[h].status = "dispatched", u.failures = t.failures
    PROVE  TaskOK(u, rej)
<1>1. /\ DOMAIN t.hops = Hops(Def) /\ DOMAIN u.hops = Hops(Def)
      /\ t.dag = "running" /\ u.dag = "running"
      /\ \A g \in Hops(Def) \ {h} : u.hops[g] = t.hops[g]
      /\ \A g \in Hops(Def) : t.hops[g].status # "dispatched"
      /\ t.hops[h].status \in {"pending", "ready"}
      /\ u.hops[h].rejectionCount = t.hops[h].rejectionCount
    BY DEF Tasks, States, MayStart, OnlyHop, NoHopOut, Dispatched, Having, Startable
<1>2. OneOut(u)
    BY <1>1 DEF OneOut, Dispatched, Having
<1>3. /\ Having(t.hops, {"complete"}) \subseteq Having(u.hops, {"complete"})
      /\ Having(t.hops, {"complete", "skipped"}) \subseteq Having(u.hops, {"complete", "skipped"})
      /\ Having(u.hops, {"failed"}) \subseteq Having(t.hops, {"failed"})
    BY <1>1 DEF Having
<1>4. ASSUME StartsOver, JoinsHold(Def, t.hops) PROVE JoinsHold(Def, u.hops)
  <2>1. \A g \in Hops(Def) : Joined(Def, t.hops, g) => Joined(Def, u.hops, g)
      BY <1>3, JoinMonotone
  <2>2. Joined(Def, t.hops, h)
      BY <1>4 DEF MayStart
  <2> QED
      BY <1>1, <1>4, <2>1, <2>2 DEF JoinsHold
<1>5. ASSUME NoneAbandoned(Def, t.hops) PROVE NoneAbandoned(Def, u.hops)
    BY <1>1, <1>3, <1>5 DEF NoneAbandoned
<1>6. OrderKept(u)
    BY <1>4, <1>5 DEF OrderKept, TaskOK
<1>7. VerdictFinal(u)
    BY <1>1 DEF VerdictFinal
<1>8. SoleReviewer => Counted(u, rej)
    BY <1>1 DEF TaskOK, Counted
<1> QED
    BY <1>2, <1>6, <1>7, <1>8 DEF TaskOK

(* The hop that is out is put back, or given up by its agent. *)
LEMMA WithdrawKeeps ==
    ASSUME NEW R, NEW R2, NEW t \in Tasks(R), NEW u \in Tasks(R2), NEW h \in Hops(Def), NEW rej,
           TaskOK(t, rej), t.hops[h].status = "dispatched",
           OnlyHop(t, u, h), u.hops[h].status \in {"dispatched", "ready", "failed"},
           u.failures = 0 => t.failures = 0 /\ u.hops[h].status # "failed"
    PROVE  TaskOK(u, rej)
<1>1. /\ DOMAIN t.hops = Hops(Def) /\ DOMAIN u.hops = Hops(Def) /\ u.dag = t.dag
      /\ \A g \in Hops(Def) \ {h} : u.hops[g] = t.hops[g]
      /\ u.hops[h].rejectionCount = t.hops[h].rejectionCount
    BY DEF Tasks, States, OnlyHop
<1>2. t.dag = "running"
    BY DEF TaskOK, VerdictFinal, Terminal, Tasks
<1>3. OneOut(u)
    BY <1>1 DEF TaskOK, OneOut, Dispatched, Having
<1>4. /\ Having(t.hops, {"complete"}) \subseteq Having(u.hops, {"complete"})
      /\ Having(t.hops, {"complete", "skipped"}) \subseteq Having(u.hops, {"complete", "skipped"})
      /\ u.hops[h].status # "failed" => Having(u.hops, {"failed"}) \subseteq Having(t.hops, {"failed"})
    BY <1>1 DEF Having
<1>5. ASSUME JoinsHold(Def, t.hops) PROVE JoinsHold(Def, u.hops)
  <2>1. \A g \in Hops(Def) : Joined(Def, t.hops, g) => Joined(Def, u.hops, g)
      BY <1>4, JoinMonotone
  <2> QED
      BY <1>1, <1>5, <2>1 DEF JoinsHold
<1>6. ASSUME NoneAbandoned(Def, t.hops), u.hops[h].status # "failed" PROVE NoneAbandoned(Def, u.hops)
    BY <1>1, <1>4, <1>6 DEF NoneAbandoned
<1>7. OrderKept(u)
    BY <1>5, <1>6 DEF OrderKept, TaskOK
<1>8. VerdictFinal(u)
    BY <1>1, <1>2 DEF VerdictFinal
<1>9. SoleReviewer => Counted(u, rej)
    BY <1>1 DEF TaskOK, Counted
<1> QED
    BY <1>3, <1>7, <1>8, <1>9 DEF TaskOK

(* There is one reviewing hop at most. *)
LEMMA OneReviewer ==
    ASSUME IsDefinition(Def), SoleReviewer, NEW g \in Hops(Def), NEW h \in Hops(Def),
           Def[g].canReject, Def[h].canReject
    PROVE  g = h
<1> DEFINE S == {k \in Hops(Def) : Def[k].canReject}
<1>1. IsFiniteSet(Hops(Def))
    BY FS_Interval DEF IsDefinition, Hops
<1>2. g \in S /\ h \in S /\ S \subseteq Hops(Def) /\ Cardinality(S) <= 1
    BY DEF SoleReviewer
<1> HIDE DEF S
<1>3. IsFiniteSet(S)
    BY <1>1, <1>2, FS_Subset
<1>4. IsFiniteSet({h}) /\ Cardinality({h}) = 1
    BY FS_Singleton
<1>5. {h} \subseteq S
    BY <1>2
<1>6. Cardinality({h}) <= Cardinality(S) /\ (Cardinality({h}) = Cardinality(S) => {h} = S)
    BY <1>3, <1>5, FS_Subset
<1>7. Cardinality(S) \in Nat
    BY <1>3, FS_CardinalityType
<1> QED
    BY <1>2, <1>4, <1>6, <1>7

RejectionsCounted(rej, rej2, rejects, h) ==
    rej2 = IF rejects THEN [rej EXCEPT ![h] = @ + 1] ELSE rej

(* A session end moves the workflow on. *)
LEMMA EvaluationKeeps ==
    ASSUME IsDefinition(Def), NEW R \in Nat, NEW t \in Tasks(R), NEW h \in Dispatched(t),
           NEW rej \in [Hops(Def) -> Nat],
           NEW outcome \in {"complete", "failed", "rejected"}, outcome = "rejected" => Def[h].canReject,
           NEW note \in setup.notes,
           NEW rej2, RejectionsCounted(rej, rej2, outcome = "rejected", h)
    PROVE  LET ev == evaluateDAG(Def, t.hops, h, outcome, note, setup.tags)
               u == SavedHops(t, ev)
           IN  /\ u \in Tasks(R) /\ u.status = t.status /\ u.dag = ev.dagStatus
               /\ ev.next \in Hops(Def) \cup {NoHop}
               /\ TaskOK(t, rej) => /\ TaskOK(u, rej2)
                                    /\ ev.next # NoHop /\ u.dag = "running" => MayStart(u, ev.next)
<1> DEFINE ev == evaluateDAG(Def, t.hops, h, outcome, note, setup.tags)
           u == SavedHops(t, ev)
           s == t.hops
           new == ev.hops
           next == ev.next
<1>1. s \in States(Def, R, setup.notes) /\ h \in Hops(Def) /\ s[h].status = "dispatched"
    BY DEF Dispatched, Having, Tasks, States
<1>2. Evaluates(Def, R, setup.notes, s, h, outcome, new, next) /\ ev.dagStatus = checkDAGCompletion(new)
    BY <1>1, Evaluation
<1> HIDE DEF ev
<1>3. ev.dagStatus \in {"running", "complete", "failed"}
    BY <1>2 DEF checkDAGCompletion
<1>4. new \in States(Def, R, setup.notes)
    BY <1>2 DEF Evaluates
<1>5. u \in Tasks(R) /\ u.hops = new /\ u.dag = ev.dagStatus /\ u.status = t.status /\ u.failures = t.failures
    BY <1>3, <1>4, SavedHopsTyped
<1>6. next \in Hops(Def) \cup {NoHop}
    BY <1>2 DEF Evaluates
<1> HIDE DEF u
<1>7. ASSUME TaskOK(t, rej)
      PROVE  TaskOK(u, rej2) /\ (next # NoHop /\ u.dag = "running" => MayStart(u, next))
  <2>1. \A g \in Hops(Def) : s[g].status = "dispatched" => g = h
      BY <1>1, <1>7 DEF TaskOK, OneOut, Dispatched, Having, States
  <2>2. \A g \in Hops(Def) : new[g].status # "dispatched"
      BY <1>2, <2>1 DEF Evaluates
  <2>3. NoHopOut(u) /\ OneOut(u)
      BY <1>4, <1>5, <2>2 DEF NoHopOut, OneOut, Dispatched, Having, States
  <2>4. StartsOver => /\ JoinsHold(Def, new)
                      /\ t.failures = 0 => NoneAbandoned(Def, new)
      BY <1>2, <1>7 DEF Evaluates, StartsOver, TaskOK, OrderKept
  <2>5. OrderKept(u)
      BY <1>5, <2>4 DEF OrderKept
  <2>6. VerdictFinal(u)
    <3>1. ASSUME u.dag # "running" PROVE \A g \in Hops(Def) : new[g].status \in Terminal
        BY <1>2, <1>4, <1>5, <3>1 DEF checkDAGCompletion, Having, States
    <3> QED
        BY <1>5, <3>1 DEF VerdictFinal
  <2>7. ASSUME SoleReviewer PROVE Counted(u, rej2)
    <3>1. Counted(t, rej)
        BY <1>7, <2>7 DEF TaskOK
    <3>2. CASE outcome # "rejected"
      <4>1. \A g \in Hops(Def) : /\ new[g].rejectionCount = s[g].rejectionCount
                                 /\ s[g].status = "failed" => new[g].status = "failed"
          BY <1>2, <3>2 DEF Evaluates
      <4> QED
          BY <1>5, <3>1, <3>2, <4>1 DEF Counted, RejectionsCounted
    <3>3. CASE outcome = "rejected"
      <4>1. Def[h].canReject /\ \A g \in Hops(Def) : Def[g].canReject => g = h
          BY <1>1, <2>7, <3>3, OneReviewer
      <4>2. /\ new[h].rejectionCount = s[h].rejectionCount + 1
            /\ new[h].rejectionCount >= DEFAULT_MAX_REJECTIONS => new[h].status = "failed"
          BY <1>2, <3>3 DEF Evaluates
      <4>3. rej[h] = s[h].rejectionCount /\ rej[h] <= 3 /\ rej[h] # 3 /\ rej[h] \in Nat
          BY <1>1, <3>1, <4>1 DEF Counted, DEFAULT_MAX_REJECTIONS
      <4>4. rej2[h] = rej[h] + 1 /\ \A g \in Hops(Def) \ {h} : rej2[g] = rej[g]
          BY <1>1, <3>3 DEF RejectionsCounted
      <4>5. rej2[h] = new[h].rejectionCount /\ rej2[h] <= 3 /\ (rej2[h] = 3 => new[h].status = "failed")
          BY <4>2, <4>3, <4>4 DEF DEFAULT_MAX_REJECTIONS
      <4>6. \A g \in Hops(Def) \ {h} : ~Def[g].canReject /\ rej2[g] = 0
          BY <3>1, <4>1, <4>4 DEF Counted
      <4> QED
          BY <1>5, <4>1, <4>5, <4>6 DEF Counted, DEFAULT_MAX_REJECTIONS
    <3> QED
        BY <3>2, <3>3
  <2>8. ASSUME next # NoHop, u.dag = "running" PROVE MayStart(u, next)
    <3>1. Startable(new, next) /\ (JoinsHold(Def, new) => Joined(Def, new, next))
        BY <1>2, <2>8 DEF Evaluates
    <3> QED
        BY <1>5, <2>3, <2>4, <2>8, <3>1 DEF MayStart
  <2> QED
      BY <2>3, <2>5, <2>6, <2>7, <2>8 DEF TaskOK
<1> QED
    BY <1>5, <1>6, <1>7 DEF ev, u

(* ------------------------- Each action keeps IInv ------------------------- *)

(* IInv' with setup, which never changes, unprimed. *)
ShapeNext ==
    /\ setup' = setup
    /\ nextRun' \in Nat \ {0}
    /\ task' \in Tasks(nextRun' - 1)
    /\ live' \subseteq [id : 1 .. nextRun' - 1, hop : Hops(Def)]
    /\ callbacks' \subseteq 1 .. nextRun' - 1
    /\ lock' \in {"free", "report", "end"}
    /\ result' # NoResult => result' \in Results
    /\ rejected' \in [Hops(Def) -> Nat]
    /\ ends' \in [Enders -> EndHolds(nextRun' - 1)]
    /\ poll' \in PollHolds(nextRun' - 1)
FreshNext ==
    /\ OneHandler'
    /\ \A e \in Enders : EndFresh(ends'[e], task')
    /\ poll'.pc # "idle" => task'.status = "in-progress" /\ MayStart(task', poll'.hop)
    /\ poll'.pc = "spawn" => poll'.snap = task'
Preserved == ShapeNext /\ (~setup.overlap => FreshNext /\ TaskOK(task', rejected'))

(* IInv' follows from its form with setup unprimed. *)
LEMMA PreservedSuffices ==
    ASSUME IInv, Preserved
    PROVE  IInv'
<1>1. setup' = setup /\ Def' = Def
    BY DEF Preserved, ShapeNext, Def
<1>2. Shape'
  <2> DEFINE R == nextRun - 1
  <2>1. Tasks(R)' = Tasks(nextRun' - 1)
      BY <1>1 DEF Tasks
  <2>2. Results' = Results
      BY <1>1 DEF Results
  <2>3. Verdicts' = Verdicts
      BY <1>1 DEF Verdicts
  <2>4. EndHolds(R)' = EndHolds(nextRun' - 1)
      BY <1>1 DEF EndHolds, Tasks, Results, Verdicts
  <2>5. PollHolds(R)' = PollHolds(nextRun' - 1)
      BY <1>1 DEF PollHolds, Tasks
  <2> QED
      BY <1>1, <2>1, <2>2, <2>4, <2>5 DEF IInv, Shape, Preserved, ShapeNext
<1>3. ASSUME ~setup.overlap PROVE HandlersFresh' /\ TaskOK(task, rejected)'
  <2>1. FreshNext /\ TaskOK(task', rejected')
      BY <1>3 DEF Preserved
  <2>2. HandlersFresh'
      BY <1>1, <2>1 DEF HandlersFresh, FreshNext, EndFresh, MayStart, StartsOver, NoHopOut, Dispatched, Startable, Joined, Def
  <2>3. TaskOK(task, rejected)'
      BY <1>1, <2>1 DEF TaskOK, OneOut, OrderKept, VerdictFinal, SoleReviewer, Counted, StartsOver, Dispatched, Def, Hops
  <2> QED
      BY <2>2, <2>3
<1> QED
    BY <1>1, <1>2, <1>3 DEF IInv

(* What a step leaves alone stays as it is. *)
LEMMA SameTask ==
    ASSUME IInv, UNCHANGED <<setup, nextRun, task, live, callbacks, rejected>>,
           lock' \in {"free", "report", "end"}, result' # NoResult => result' \in Results,
           ends' \in [Enders -> EndHolds(nextRun - 1)], poll' \in PollHolds(nextRun - 1),
           ~setup.overlap => FreshNext
    PROVE  Preserved
BY DEF IInv, Shape, Preserved, ShapeNext

(* A handler that starts when none is under way. *)
LEMMA QuietIsAlone ==
    ASSUME Quiet, ~setup.overlap
    PROVE  poll.pc = "idle" /\ report.pc = "idle" /\ \A e \in Enders : ends[e].pc = "idle"
BY DEF Quiet

(* A workflow that starts: its roots are ready, nothing is out. *)
LEMMA InitOK ==
    ASSUME Init
    PROVE  IInv
<1> USE DEF Init
<1> DEFINE s == initializeWorkflowState(Def)
<1>1. IsDefinition(Def)
    BY DefinitionIsSequence
<1>2. /\ s \in States(Def, 0, setup.notes)
      /\ \A h \in Hops(Def) : /\ s[h].status = IF IsRoot(Def, h) THEN "ready" ELSE "pending"
                              /\ s[h].rejectionCount = 0
  <2>1. \A status \in HopStatus : HopState(status) \in HopRecords(0, setup.notes)
      BY DEF HopState, HopRecords
  <2>2. \A h \in Hops(Def) : s[h] = HopState(IF IsRoot(Def, h) THEN "ready" ELSE "pending")
      BY DEF initializeWorkflowState
  <2>3. \A h \in Hops(Def) : (IF IsRoot(Def, h) THEN "ready" ELSE "pending") \in HopStatus
      BY DEF HopStatus
  <2>4. s \in States(Def, 0, setup.notes)
      BY <2>1, <2>3 DEF initializeWorkflowState, States
  <2>5. \A status \in HopStatus : HopState(status).status = status /\ HopState(status).rejectionCount = 0
      BY DEF HopState
  <2> QED
      BY <2>2, <2>3, <2>4, <2>5
<1> HIDE DEF s
<1>3. task = [status |-> "in-progress", hops |-> s, dag |-> "running", failures |-> 0]
    BY DEF s, Def
<1>4. task \in Tasks(nextRun - 1)
    BY <1>2, <1>3 DEF Tasks, Statuses
<1>5. Shape
  <2>1. IdleEnd \in EndHolds(nextRun - 1)
      BY DEF IdleEnd, EndHolds
  <2>2. IdlePoll \in PollHolds(nextRun - 1)
      BY DEF IdlePoll, PollHolds
  <2> QED
      BY <1>4, <2>1, <2>2 DEF Shape, Def, Hops
<1>6. HandlersFresh
    BY DEF HandlersFresh, OneHandler, EndFresh, IdleEnd, IdlePoll, IdleReport
<1>7. TaskOK(task, rejected)
  <2>1. DOMAIN s = Hops(Def)
      BY <1>2 DEF States
  <2>2. JoinsHold(Def, s)
      BY <1>2 DEF JoinsHold, Joined
  <2>3. Having(s, {"failed"}) = {}
      BY <1>2, <2>1 DEF Having
  <2>4. NoneAbandoned(Def, s)
      BY <1>2, <2>3 DEF NoneAbandoned, IsRoot
  <2>5. OneOut(task) /\ VerdictFinal(task) /\ OrderKept(task)
      BY <1>2, <1>3, <2>1, <2>2, <2>4 DEF OneOut, VerdictFinal, OrderKept, Dispatched, Having
  <2>6. Counted(task, rejected)
      BY <1>2, <1>3 DEF Counted, Def, DEFAULT_MAX_REJECTIONS
  <2> QED
      BY <2>5, <2>6 DEF TaskOK
<1> QED
    BY <1>5, <1>6, <1>7 DEF IInv

(* Completion reports. *)
LEMMA ReportWriteOK ==
    ASSUME IInv, NEW s \in live, NEW o \in setup.outcomes, NEW n \in setup.notes, ReportWrite(s, o, n)
    PROVE  Preserved
<1> USE DEF ReportWrite
<1>1. s.id \in Nat
    BY DEF IInv, Shape
<1>2. result' \in Results
    BY <1>1 DEF Results
<1>3. ~setup.overlap => FreshNext
    BY QuietIsAlone DEF IInv, HandlersFresh, FreshNext, OneHandler
<1> QED
    BY <1>2, <1>3, SameTask DEF IInv, Shape

(* The second write of a report finds no handler holding the task. *)
LEMMA ReportApplyOK ==
    ASSUME IInv, ReportApply
    PROVE  Preserved
<1> USE DEF ReportApply
<1>1. task \in Tasks(nextRun - 1) /\ ReportTarget(report.outcome) \in Statuses
    BY DEF IInv, Shape, ReportTarget, Statuses
<1>2. task' \in Tasks(nextRun - 1) /\ task'.hops = task.hops /\ task'.dag = task.dag /\ task'.failures = task.failures
    BY <1>1, MovedKeeps
<1>3. ShapeNext
    BY <1>2 DEF IInv, Shape, ShapeNext
<1>4. ASSUME ~setup.overlap PROVE FreshNext /\ TaskOK(task', rejected')
  <2>1. poll.pc = "idle" /\ \A e \in Enders : ends[e].pc = "idle"
      BY <1>4 DEF IInv, HandlersFresh, OneHandler
  <2>2. FreshNext
      BY <2>1 DEF FreshNext, OneHandler, EndFresh
  <2>3. TaskOK(task', rejected)
      BY <1>2, <1>4, HopsKept DEF IInv
  <2> QED
      BY <2>2, <2>3
<1> QED
    BY <1>3, <1>4 DEF Preserved

(* The poll has nothing in hand, or runs alone. *)
LEMMA EndRunsAlone ==
    ASSUME IInv, ~setup.overlap, NEW e \in Enders, ends[e].pc # "idle"
    PROVE  /\ report.pc = "idle" /\ poll.pc = "idle" /\ \A f \in Enders \ {e} : ends[f].pc = "idle"
           /\ ends[e].snap = task /\ task.status = "in-progress" /\ EndFresh(ends[e], task)
           /\ TaskOK(task, rejected)
BY DEF IInv, HandlersFresh, OneHandler, EndFresh

(* A handler e that goes on alone with x. *)
LEMMA EndGoesOn ==
    ASSUME NEW e \in Enders, NEW x, ends' = [ends EXCEPT ![e] = x], DOMAIN ends = Enders,
           report'.pc = "idle", poll'.pc = "idle", \A f \in Enders \ {e} : ends[f].pc = "idle",
           EndFresh(x, task')
    PROVE  FreshNext
<1>1. ends'[e] = x /\ \A f \in Enders \ {e} : ends'[f] = ends[f]
    OBVIOUS
<1>2. \A f \in Enders : EndFresh(ends'[f], task')
    BY <1>1 DEF EndFresh
<1>3. OneHandler'
    BY <1>1 DEF OneHandler
<1> QED
    BY <1>2, <1>3 DEF FreshNext

(* A session-end handler takes the task as it is. *)
LEMMA SessionEndOK ==
    ASSUME IInv, NEW e \in Enders, SessionEnd(e)
    PROVE  Preserved
<1> USE DEF SessionEnd
<1> DEFINE x == [IdleEnd EXCEPT !.pc = "lock", !.snap = task, !.res = result]
<1>1. /\ task \in Tasks(nextRun - 1) /\ result \in Results
      /\ ends \in [Enders -> EndHolds(nextRun - 1)] /\ poll \in PollHolds(nextRun - 1)
    BY DEF IInv, Shape
<1>2. x \in EndHolds(nextRun - 1) /\ x.pc = "lock" /\ x.snap = task
    BY <1>1 DEF IdleEnd, EndHolds
<1>3. ends' = [ends EXCEPT ![e] = x]
    OBVIOUS
<1> HIDE DEF x
<1>4. ends' \in [Enders -> EndHolds(nextRun - 1)]
    BY <1>1, <1>2, <1>3
<1>5. ASSUME ~setup.overlap PROVE FreshNext
  <2>1. poll.pc = "idle" /\ report.pc = "idle" /\ \A f \in Enders : ends[f].pc = "idle"
      BY <1>5, QuietIsAlone
  <2>2. EndFresh(x, task')
      BY <1>2 DEF EndFresh
  <2>3. DOMAIN ends = Enders
      BY <1>1
  <2> QED
      BY <1>3, <2>1, <2>2, <2>3, EndGoesOn
<1> QED
    BY <1>1, <1>4, <1>5, SameTask DEF IInv, Shape

(* A handler that is done holds nothing. *)
LEMMA IdleTyped ==
    ASSUME NEW R
    PROVE  IdleEnd \in EndHolds(R) /\ IdleEnd.pc = "idle" /\ IdlePoll \in PollHolds(R) /\ IdlePoll.pc = "idle"
BY DEF IdleEnd, EndHolds, IdlePoll, PollHolds

(* handleDAGHopCompletion saves the evaluation of the hop that was out. *)
LEMMA HandleOK ==
    ASSUME IInv, NEW e \in Enders, handleDAGHopCompletion(e)
    PROVE  Preserved
<1> USE DEF handleDAGHopCompletion
<1> DEFINE R == nextRun - 1
           t == ends[e].snap
           res == ends[e].res
<1>1. /\ R \in Nat /\ IsDefinition(Def) /\ rejected \in [Hops(Def) -> Nat]
      /\ ends \in [Enders -> EndHolds(R)] /\ DOMAIN ends = Enders /\ poll \in PollHolds(R)
    BY DefinitionIsSequence DEF IInv, Shape
<1>2. ends[e].pc = "lock" /\ t \in Tasks(R) /\ res \in Results
    BY <1>1 DEF EndHolds
<1>3. CASE Dispatched(t) = {}
  <2>1. ends' = [ends EXCEPT ![e] = IdleEnd] /\ UNCHANGED <<task, lock, rejected, poll, report, setup, nextRun, live, callbacks, result>>
      BY <1>3
  <2>2. ends' \in [Enders -> EndHolds(R)]
      BY <1>1, <2>1, IdleTyped
  <2>3. ASSUME ~setup.overlap PROVE FreshNext
    <3>1. report.pc = "idle" /\ poll.pc = "idle" /\ \A f \in Enders \ {e} : ends[f].pc = "idle"
        BY <1>2, <2>3, EndRunsAlone
    <3>2. EndFresh(IdleEnd, task')
        BY IdleTyped DEF EndFresh, IdleEnd
    <3> QED
        BY <1>1, <2>1, <3>1, <3>2, EndGoesOn
  <2> QED
      BY <1>1, <2>1, <2>2, <2>3, SameTask DEF IInv, Shape
<1>4. CASE Dispatched(t) # {}
  <2> DEFINE h == First(Dispatched(t))
             outcome == mapRunResultToHopEvent(res.outcome, Def[h].canReject)
             ev == evaluateDAG(Def, t.hops, h, outcome, res.note, setup.tags)
             u == SavedHops(t, ev)
             rej2 == IF outcome = "rejected" THEN [rejected EXCEPT ![h] = @ + 1] ELSE rejected
             review == outcome = "complete" /\ ~Def[h].autoAdvance
             x == [pc |-> "advance", snap |-> u, res |-> res, hop |-> h,
                   ev |-> [next |-> ev.next, dag |-> ev.dagStatus, review |-> review]]
  <2>1. /\ task' = u /\ ends' = [ends EXCEPT ![e] = x] /\ lock' = "end" /\ rejected' = rej2
        /\ UNCHANGED <<setup, result, live, callbacks, nextRun, poll, report>>
      BY <1>4
  <2>2. h \in Dispatched(t)
    <3>1. Dispatched(t) \subseteq Nat
      <4>1. DOMAIN t.hops = Hops(Def)
          BY <1>2 DEF Tasks, States
      <4>2. Hops(Def) \subseteq Nat
          BY <1>1 DEF Hops, IsDefinition
      <4> QED
          BY <4>1, <4>2 DEF Dispatched, Having
    <3>2. \E m \in Dispatched(t) : \A k \in Dispatched(t) : m <= k
        BY <1>4, <3>1, Least
    <3> QED
        BY <3>2 DEF First, Min
  <2>3. h \in Hops(Def)
      BY <1>2, <2>2 DEF Dispatched, Having, Tasks, States
  <2> HIDE DEF h
  <2>4. outcome \in {"complete", "failed", "rejected"} /\ (outcome = "rejected" => Def[h].canReject)
      BY DEF mapRunResultToHopEvent
  <2>5. res.note \in setup.notes /\ review \in BOOLEAN
      BY <1>2 DEF Results
  <2> HIDE DEF outcome
  <2>6. /\ u \in Tasks(R) /\ u.status = t.status /\ u.dag = ev.dagStatus
        /\ ev.next \in Hops(Def) \cup {NoHop}
        /\ TaskOK(t, rejected) => /\ TaskOK(u, rej2)
                                  /\ ev.next # NoHop /\ u.dag = "running" => MayStart(u, ev.next)
    <3> DEFINE note == res.note
    <3>1. note \in setup.notes /\ RejectionsCounted(rejected, rej2, outcome = "rejected", h)
        BY <2>5 DEF RejectionsCounted
    <3>2. ev = evaluateDAG(Def, t.hops, h, outcome, note, setup.tags) /\ u = SavedHops(t, ev)
        OBVIOUS
    <3> HIDE DEF note, t, rej2, R, res
    <3>3. R \in Nat /\ IsDefinition(Def) /\ rejected \in [Hops(Def) -> Nat] /\ t \in Tasks(R)
        BY <1>1, <1>2
    <3> HIDE DEF ev, u
    <3> QED
        BY <2>2, <2>4, <3>1, <3>2, <3>3, EvaluationKeeps
  <2>7. rej2 \in [Hops(Def) -> Nat]
      BY <1>1, <2>3
  <2> HIDE DEF ev, rej2, review, u
  <2>8. ev.dagStatus \in {"running", "complete", "failed"}
      BY <2>6 DEF Tasks
  <2>9. x \in EndHolds(R)
    <3>1. x.ev \in Verdicts
        BY <2>5, <2>6, <2>8 DEF Verdicts
    <3> QED
        BY <1>2, <2>3, <2>6, <3>1 DEF EndHolds
  <2>10. /\ x.pc = "advance" /\ x.snap = u /\ x.ev.dag = ev.dagStatus /\ x.ev.next = ev.next
      OBVIOUS
  <2> HIDE DEF x
  <2>11. ends' \in [Enders -> EndHolds(R)]
      BY <1>1, <2>1, <2>9
  <2>12. ShapeNext
      BY <1>1, <2>1, <2>6, <2>7, <2>11 DEF IInv, Shape, ShapeNext
  <2>13. ASSUME ~setup.overlap PROVE FreshNext /\ TaskOK(task', rejected')
    <3>1. /\ report.pc = "idle" /\ poll.pc = "idle" /\ \A f \in Enders \ {e} : ends[f].pc = "idle"
          /\ t = task /\ task.status = "in-progress" /\ TaskOK(task, rejected)
        BY <1>2, <2>13, EndRunsAlone
    <3>2. EndFresh(x, task')
        BY <2>1, <2>6, <2>10, <3>1 DEF EndFresh
    <3>3. FreshNext
        BY <1>1, <2>1, <3>1, <3>2, EndGoesOn
    <3> QED
        BY <2>1, <2>6, <3>1, <3>3
  <2> QED
      BY <2>12, <2>13 DEF Preserved
<1> QED
    BY <1>3, <1>4

(* A handler that ends with a transition of the task, or with none. *)
LEMMA EndClosesOK ==
    ASSUME IInv, NEW e \in Enders, ends[e].pc # "idle",
           ends' = [ends EXCEPT ![e] = IdleEnd],
           UNCHANGED <<setup, nextRun, live, callbacks, result, rejected, poll, report>>,
           lock' \in {"free", "report", "end"},
           task' = task \/ \E to \in Statuses : task' = Moved(task, to)
    PROVE  Preserved
<1> DEFINE R == nextRun - 1
<1>1. /\ R \in Nat /\ task \in Tasks(R) /\ ends \in [Enders -> EndHolds(R)] /\ DOMAIN ends = Enders
      /\ poll \in PollHolds(R)
    BY DEF IInv, Shape
<1>2. task' \in Tasks(R) /\ task'.hops = task.hops /\ task'.dag = task.dag /\ task'.failures = task.failures
    BY <1>1, MovedKeeps
<1>3. ends' \in [Enders -> EndHolds(R)]
    BY <1>1, IdleTyped
<1>4. ShapeNext
    BY <1>1, <1>2, <1>3 DEF IInv, Shape, ShapeNext
<1>5. ASSUME ~setup.overlap PROVE FreshNext /\ TaskOK(task', rejected')
  <2>1. /\ report.pc = "idle" /\ poll.pc = "idle" /\ \A f \in Enders \ {e} : ends[f].pc = "idle"
        /\ TaskOK(task, rejected)
      BY <1>5, EndRunsAlone
  <2>2. EndFresh(IdleEnd, task')
      BY DEF EndFresh, IdleEnd
  <2>3. FreshNext
    <3> DEFINE x == IdleEnd
    <3> HIDE DEF x
    <3>1. ends' = [ends EXCEPT ![e] = x] /\ EndFresh(x, task')
        BY <2>2 DEF x
    <3> QED
        BY <1>1, <2>1, <3>1, EndGoesOn
  <2>4. TaskOK(task', rejected)
      BY <1>2, <2>1, HopsKept
  <2> QED
      BY <2>3, <2>4
<1> QED
    BY <1>4, <1>5 DEF Preserved

(* The task is closed, or the handler goes on to start a hop. *)
LEMMA AdvanceOK ==
    ASSUME IInv, NEW e \in Enders, Advance(e)
    PROVE  Preserved
<1> USE DEF Advance
<1> DEFINE R == nextRun - 1
           ev == ends[e].ev
           x == [ends[e] EXCEPT !.pc = "spawn", !.hop = ev.next]
<1>1. /\ R \in Nat /\ task \in Tasks(R) /\ ends \in [Enders -> EndHolds(R)] /\ DOMAIN ends = Enders
      /\ poll \in PollHolds(R) /\ lock \in {"free", "report", "end"}
    BY DEF IInv, Shape
<1>2. ends[e] \in EndHolds(R) /\ ends[e].pc = "advance" /\ ev \in Verdicts
    BY <1>1 DEF EndHolds
<1>3. "review" \in Statuses /\ "blocked" \in Statuses
    BY DEF Statuses
<1>4. CASE /\ ends' = [ends EXCEPT ![e] = IdleEnd] /\ lock' = "free"
           /\ task' = task \/ \E to \in Statuses : task' = Moved(task, to)
    BY <1>2, <1>4, EndClosesOK
<1>5. CASE /\ ev.dag = "running" /\ ev.next # NoHop
           /\ ends' = [ends EXCEPT ![e].pc = "spawn", ![e].hop = ev.next]
           /\ UNCHANGED <<task, lock>>
  <2>1. ends' = [ends EXCEPT ![e] = x]
      BY <1>1, <1>2, <1>5 DEF EndHolds
  <2>2. x \in EndHolds(R) /\ x.pc = "spawn" /\ x.hop = ev.next /\ x.snap = ends[e].snap
      BY <1>2, <1>5 DEF EndHolds, Verdicts
  <2> HIDE DEF x
  <2>3. ends' \in [Enders -> EndHolds(R)]
      BY <1>1, <2>1, <2>2
  <2>4. ASSUME ~setup.overlap PROVE FreshNext
    <3>1. /\ report.pc = "idle" /\ poll.pc = "idle" /\ \A f \in Enders \ {e} : ends[f].pc = "idle"
          /\ ends[e].snap = task /\ task.status = "in-progress" /\ EndFresh(ends[e], task)
        BY <1>2, <2>4, EndRunsAlone
    <3>2. EndFresh(x, task')
        BY <1>2, <1>5, <2>2, <3>1 DEF EndFresh
    <3> QED
        BY <1>1, <2>1, <3>1, <3>2, EndGoesOn
  <2> QED
      BY <1>1, <1>5, <2>3, <2>4, SameTask DEF IInv, Shape
<1>6. \/ /\ ends' = [ends EXCEPT ![e] = IdleEnd] /\ lock' = "free"
         /\ task' = task \/ \E to \in Statuses : task' = Moved(task, to)
      \/ /\ ev.dag = "running" /\ ev.next # NoHop
         /\ ends' = [ends EXCEPT ![e].pc = "spawn", ![e].hop = ev.next]
         /\ UNCHANGED <<task, lock>>
  <2>1. CASE ev.dag # "running"
      BY <1>3, <2>1
  <2>2. CASE ev.dag = "running" /\ ev.review
      BY <1>3, <2>2
  <2>3. CASE ev.dag = "running" /\ ~ev.review /\ ev.next # NoHop
      BY <2>3
  <2>4. CASE ev.dag = "running" /\ ~ev.review /\ ev.next = NoHop
      BY <2>4
  <2> QED
      BY <2>1, <2>2, <2>3, <2>4
<1> QED
    BY <1>4, <1>5, <1>6

(* A spawn that fails leaves the task as it was. *)
LEMMA EndSpawnFailsOK ==
    ASSUME IInv, NEW e \in Enders, EndSpawnFails(e)
    PROVE  Preserved
BY EndClosesOK DEF EndSpawnFails

(* A hop is dispatched: the object goes to the file with the hop marked. *)
LEMMA DispatchTyped ==
    ASSUME IInv, NEW snap \in Tasks(nextRun - 1), NEW h \in Hops(Def), dispatchDAGHop(snap, h),
           UNCHANGED <<setup, result, rejected>>, lock' \in {"free", "report", "end"},
           ends' \in [Enders -> EndHolds(nextRun - 1)], poll' \in PollHolds(nextRun - 1)
    PROVE  ShapeNext
<1> USE DEF dispatchDAGHop
<1> DEFINE R == nextRun - 1
           R2 == nextRun' - 1
<1>1. R \in Nat /\ nextRun = R + 1 /\ R2 = R + 1 /\ nextRun' \in Nat \ {0}
    BY DEF IInv, Shape
<1>2. task' \in Tasks(R + 1)
    BY <1>1, MarkTyped
<1>3. live' \subseteq [id : 1 .. R2, hop : Hops(Def)]
  <2>1. live \subseteq [id : 1 .. R, hop : Hops(Def)]
      BY DEF IInv, Shape
  <2>2. [id |-> nextRun, hop |-> h] \in [id : 1 .. R2, hop : Hops(Def)]
      BY <1>1
  <2>3. \A i \in 1..R : i \in 1..R2
      BY <1>1
  <2> QED
      BY <2>1, <2>2, <2>3
<1>4. callbacks' \subseteq 1 .. R2
    BY <1>1 DEF IInv, Shape
<1>5. ends' \in [Enders -> EndHolds(R + 1)] /\ poll' \in PollHolds(R + 1)
    BY <1>1, Grows
<1>6. task' \in Tasks(R2) /\ ends' \in [Enders -> EndHolds(R2)] /\ poll' \in PollHolds(R2)
    BY <1>1, <1>2, <1>5
<1> HIDE DEF R2
<1>7. setup' = setup /\ nextRun' - 1 = R2
    BY DEF R2
<1> QED
    BY <1>1, <1>3, <1>4, <1>6, <1>7 DEF IInv, Shape, ShapeNext

(* Without overlap the object that is saved is the task, so nothing is lost. *)
LEMMA DispatchKeeps ==
    ASSUME IInv, NEW h \in Hops(Def), dispatchDAGHop(task, h), TaskOK(task, rejected), MayStart(task, h)
    PROVE  TaskOK(task', rejected)
<1> DEFINE R == nextRun - 1
           u == MarkDispatched(task, h)
<1>1. R \in Nat /\ nextRun = R + 1 /\ task \in Tasks(R) /\ task' = u
    BY DEF IInv, Shape, dispatchDAGHop
<1>2. u \in Tasks(R + 1) /\ OnlyHop(task, u, h) /\ u.hops[h].status = "dispatched" /\ u.failures = task.failures
    BY <1>1, MarkTyped
<1> HIDE DEF R, u
<1> QED
    BY <1>1, <1>2, StartKeeps

(* A session-end handler starts the next hop. *)
LEMMA EndSpawnedOK ==
    ASSUME IInv, NEW e \in Enders, EndSpawned(e)
    PROVE  Preserved
<1> USE DEF EndSpawned
<1> DEFINE R == nextRun - 1
<1>1. ends \in [Enders -> EndHolds(R)] /\ DOMAIN ends = Enders /\ poll \in PollHolds(R)
    BY DEF IInv, Shape
<1>2. ends[e].snap \in Tasks(R) /\ ends[e].hop \in Hops(Def) /\ ends[e].pc = "spawn"
    BY <1>1 DEF EndHolds
<1>3. ends' \in [Enders -> EndHolds(R)]
    BY <1>1, IdleTyped
<1>4. ShapeNext
    BY <1>1, <1>2, <1>3, DispatchTyped
<1>5. ASSUME ~setup.overlap PROVE FreshNext /\ TaskOK(task', rejected')
  <2>1. /\ report.pc = "idle" /\ poll.pc = "idle" /\ \A f \in Enders \ {e} : ends[f].pc = "idle"
        /\ ends[e].snap = task /\ EndFresh(ends[e], task) /\ TaskOK(task, rejected)
      BY <1>2, <1>5, EndRunsAlone
  <2>2. FreshNext
    <3> DEFINE x == IdleEnd
    <3>1. ends' = [ends EXCEPT ![e] = x] /\ EndFresh(x, task')
        BY DEF EndFresh, IdleEnd
    <3> HIDE DEF x
    <3> QED
        BY <1>1, <2>1, <3>1, EndGoesOn
  <2>3. MayStart(task, ends[e].hop)
      BY <1>2, <2>1 DEF EndFresh
  <2>4. TaskOK(task', rejected)
      BY <1>2, <2>1, <2>3, DispatchKeeps
  <2> QED
      BY <2>2, <2>4
<1> QED
    BY <1>4, <1>5 DEF Preserved

(* The poll goes on alone with x. *)
LEMMA PollGoesOn ==
    ASSUME NEW x, poll' = x, ends' = ends, report'.pc = "idle", \A e \in Enders : ends[e].pc = "idle",
           x.pc # "idle" => task'.status = "in-progress" /\ MayStart(task', x.hop),
           x.pc = "spawn" => x.snap = task'
    PROVE  FreshNext
BY DEF FreshNext, OneHandler, EndFresh

(* A poll under way, without overlap. *)
LEMMA PollRunsAlone ==
    ASSUME IInv, ~setup.overlap, poll.pc # "idle"
    PROVE  /\ report.pc = "idle" /\ \A e \in Enders : ends[e].pc = "idle"
           /\ task.status = "in-progress" /\ MayStart(task, poll.hop)
           /\ poll.pc = "spawn" => poll.snap = task
           /\ TaskOK(task, rejected)
BY DEF IInv, HandlersFresh, OneHandler

(* The hop that the poll picks is ready, so it may start. *)
LEMMA PollPickOK ==
    ASSUME IInv, PollPick
    PROVE  Preserved
<1> USE DEF PollPick
<1> DEFINE R == nextRun - 1
           ready == Having(task.hops, {"ready"})
           h == First(ready)
           x == [IdlePoll EXCEPT !.pc = "fresh", !.hop = h]
<1>1. /\ task \in Tasks(R) /\ DOMAIN task.hops = Hops(Def) /\ IsDefinition(Def)
      /\ ends \in [Enders -> EndHolds(R)]
    BY DefinitionIsSequence DEF IInv, Shape, Tasks, States
<1>2. h \in ready
  <2>1. ready \subseteq Nat /\ ready # {}
      BY <1>1 DEF Having, Hops, IsDefinition
  <2> HIDE DEF ready
  <2>2. \E m \in ready : \A k \in ready : m <= k
      BY <2>1, Least
  <2> QED
      BY <2>2 DEF First, Min
<1>3. h \in Hops(Def) /\ task.hops[h].status = "ready"
    BY <1>1, <1>2 DEF Having
<1> HIDE DEF h
<1>4. x \in PollHolds(R) /\ x.pc = "fresh" /\ x.hop = h
    BY <1>3 DEF IdlePoll, PollHolds
<1>5. poll' = x
    BY DEF h
<1> HIDE DEF x
<1>6. ASSUME ~setup.overlap PROVE FreshNext
  <2>1. report.pc = "idle" /\ \A e \in Enders : ends[e].pc = "idle"
      BY <1>6, QuietIsAlone
  <2>2. TaskOK(task, rejected)
      BY <1>6 DEF IInv
  <2>3. task.dag = "running"
      BY <1>3, <2>2 DEF TaskOK, VerdictFinal, Terminal
  <2>4. MayStart(task, h)
      BY <1>3, <2>2, <2>3 DEF MayStart, Startable, TaskOK, OrderKept, JoinsHold
  <2> QED
      BY <1>4, <1>5, <2>1, <2>4, PollGoesOn
<1> QED
    BY <1>1, <1>4, <1>5, <1>6, SameTask DEF IInv, Shape

(* A poll that gives up, or fails to start an agent. *)
LEMMA PollEndsOK ==
    ASSUME IInv, poll' = IdlePoll,
           UNCHANGED <<setup, task, result, live, callbacks, nextRun, ends, report, lock, rejected>>
    PROVE  Preserved
<1>1. poll' \in PollHolds(nextRun - 1) /\ poll'.pc = "idle"
    BY IdleTyped
<1>2. ~setup.overlap => FreshNext
    BY <1>1 DEF IInv, HandlersFresh, FreshNext, OneHandler, EndFresh
<1> QED
    BY <1>1, <1>2, SameTask DEF IInv, Shape

(* The second read of the poll finds what the first one found. *)
LEMMA PollFreshOK ==
    ASSUME IInv, PollFresh
    PROVE  Preserved
<1> USE DEF PollFresh
<1>1. CASE ~NoHopOut(task)
    BY <1>1, PollEndsOK
<1>2. CASE NoHopOut(task)
  <2> DEFINE R == nextRun - 1
             x == [poll EXCEPT !.pc = "spawn", !.snap = task]
  <2>1. task \in Tasks(R) /\ poll \in PollHolds(R) /\ ends \in [Enders -> EndHolds(R)]
      BY DEF IInv, Shape
  <2>2. x \in PollHolds(R) /\ x.pc = "spawn" /\ x.hop = poll.hop /\ x.snap = task
      BY <2>1 DEF PollHolds
  <2>3. poll' = x
      BY <1>2
  <2> HIDE DEF x
  <2>4. ASSUME ~setup.overlap PROVE FreshNext
    <3>1. /\ report.pc = "idle" /\ \A e \in Enders : ends[e].pc = "idle"
          /\ task.status = "in-progress" /\ MayStart(task, poll.hop)
        BY <2>4, PollRunsAlone
    <3>2. task' = task /\ MayStart(task', x.hop)
        BY <2>2, <3>1
    <3> QED
        BY <2>2, <2>3, <3>1, <3>2, PollGoesOn
  <2> QED
      BY <2>1, <2>2, <2>3, <2>4, SameTask DEF IInv, Shape
<1> QED
    BY <1>1, <1>2

(* The poll starts a hop. *)
LEMMA PollSpawnedOK ==
    ASSUME IInv, PollSpawned
    PROVE  Preserved
<1> USE DEF PollSpawned
<1> DEFINE R == nextRun - 1
<1>1. ends \in [Enders -> EndHolds(R)] /\ poll \in PollHolds(R) /\ lock \in {"free", "report", "end"}
    BY DEF IInv, Shape
<1>2. poll.snap \in Tasks(R) /\ poll.hop \in Hops(Def)
    BY <1>1 DEF PollHolds
<1>3. poll' \in PollHolds(R) /\ poll'.pc = "idle"
    BY IdleTyped
<1>4. ShapeNext
    BY <1>1, <1>2, <1>3, DispatchTyped
<1>5. ASSUME ~setup.overlap PROVE FreshNext /\ TaskOK(task', rejected')
  <2>1. /\ report.pc = "idle" /\ \A e \in Enders : ends[e].pc = "idle"
        /\ poll.snap = task /\ MayStart(task, poll.hop) /\ TaskOK(task, rejected)
      BY <1>5, PollRunsAlone
  <2>2. FreshNext
      BY <1>3, <2>1, PollGoesOn
  <2>3. TaskOK(task', rejected)
      BY <1>2, <2>1, DispatchKeeps
  <2> QED
      BY <2>2, <2>3
<1> QED
    BY <1>4, <1>5 DEF Preserved

(* The poll's spawn fails. *)
LEMMA PollSpawnFailsOK ==
    ASSUME IInv, PollSpawnFails
    PROVE  Preserved
BY PollEndsOK DEF PollSpawnFails

(* Escalations, walk-outs and users: handlers that do not hold the task. *)
WithHop(t, h, r) == [t EXCEPT !.hops = [t.hops EXCEPT ![h] = r]]

(* A task with one hop replaced. *)
LEMMA WithHopTyped ==
    ASSUME NEW R \in Nat, NEW R2 \in {R, R + 1}, NEW t \in Tasks(R), NEW h \in Hops(Def),
           NEW r \in HopRecords(R2, setup.notes), r.rejectionCount = t.hops[h].rejectionCount
    PROVE  /\ WithHop(t, h, r) \in Tasks(R2) /\ OnlyHop(t, WithHop(t, h, r), h)
           /\ WithHop(t, h, r).hops[h] = r /\ WithHop(t, h, r).failures = t.failures
<1> DEFINE new == [t.hops EXCEPT ![h] = r]
<1>1. t \in Tasks(R2)
    BY Grows
<1>2. t.hops \in States(Def, R2, setup.notes) /\ DOMAIN t.hops = Hops(Def)
    BY <1>1 DEF Tasks, States
<1>3. /\ new \in States(Def, R2, setup.notes) /\ new[h] = r
      /\ \A g \in Hops(Def) \ {h} : new[g] = t.hops[g]
    BY <1>2 DEF States
<1> HIDE DEF new
<1>4. WithHop(t, h, r) = [t EXCEPT !.hops = new]
    BY DEF WithHop, new
<1> QED
    BY <1>1, <1>3, <1>4 DEF OnlyHop, Tasks

(* An escalation replaces the agent of the hop that is out. *)
LEMMA EscalateOK ==
    ASSUME IInv, NEW h \in Hops(Def), NEW b \in BOOLEAN, escalateHopTimeout(h, b)
    PROVE  Preserved
<1> USE DEF escalateHopTimeout
<1> DEFINE R == nextRun - 1
           R2 == nextRun' - 1
           old == task.hops[h]
<1>1. /\ R \in Nat /\ nextRun = R + 1 /\ task \in Tasks(R) /\ DOMAIN task.hops = Hops(Def)
      /\ ends \in [Enders -> EndHolds(R)] /\ poll \in PollHolds(R)
      /\ live \subseteq [id : 1 .. R, hop : Hops(Def)] /\ callbacks \subseteq 1..R
    BY DEF IInv, Shape, Tasks, States
<1>2. old.status = "dispatched" /\ old \in HopRecords(R, setup.notes)
    BY <1>1 DEF MayEscalate, Tasks, States
<1> DEFINE Fits(r) == /\ r \in HopRecords(R2, setup.notes) /\ r.rejectionCount = old.rejectionCount
                      /\ r.status \in {"dispatched", "ready"}
<1>3. /\ R2 \in {R, R + 1} /\ nextRun' \in Nat \ {0}
      /\ live' \subseteq [id : 1 .. R2, hop : Hops(Def)]
      /\ \E r : Fits(r) /\ task' = WithHop(task, h, r)
  <2>1. CASE b
    <3>1. R2 = R + 1 /\ nextRun' \in Nat \ {0} /\ nextRun \in 0..R2 /\ 0..R \subseteq 0..R2
        BY <1>1, <2>1
    <3> DEFINE r == [old EXCEPT !.run = nextRun, !.escalated = TRUE]
    <3>2. task' = WithHop(task, h, r)
        BY <1>1, <1>2, <2>1 DEF WithHop, Tasks, HopRecords
    <3>3. live' \subseteq [id : 1 .. R2, hop : Hops(Def)]
      <4>1. [id |-> nextRun, hop |-> h] \in [id : 1 .. R2, hop : Hops(Def)]
          BY <1>1, <3>1
      <4>2. \A i \in 1..R : i \in 1..R2
          BY <1>1, <3>1
      <4> QED
          BY <1>1, <2>1, <4>1, <4>2
    <3> HIDE DEF R2, old
    <3>4. Fits(r)
        BY <1>2, <3>1 DEF HopRecords
    <3> HIDE DEF r, Fits
    <3> QED
        BY <3>1, <3>2, <3>3, <3>4
  <2>2. CASE ~b
    <3>1. R2 = R /\ nextRun' = nextRun /\ live' = live
        BY <2>2
    <3> DEFINE r == [old EXCEPT !.run = 0, !.escalated = TRUE, !.status = "ready"]
               hops == task.hops
    <3>2. task' = WithHop(task, h, r)
      <4>1. task' = [task EXCEPT !.hops = [hops EXCEPT ![h].run = 0, ![h].escalated = TRUE, ![h].status = "ready"]]
          BY <1>1, <2>2 DEF Tasks
      <4>2. DOMAIN hops = Hops(Def) /\ old = hops[h]
          BY <1>1
      <4> HIDE DEF hops, old
      <4>3. [hops EXCEPT ![h].run = 0, ![h].escalated = TRUE, ![h].status = "ready"] = [hops EXCEPT ![h] = r]
          BY <1>2, <4>2 DEF HopRecords
      <4> QED
          BY <4>1, <4>3 DEF WithHop, hops
    <3> HIDE DEF R2, old
    <3>3. 0 \in 0..R2 /\ "ready" \in HopStatus
        BY <1>1, <3>1 DEF HopStatus
    <3>4. Fits(r)
        BY <1>2, <3>1, <3>3 DEF HopRecords
    <3> HIDE DEF r, Fits
    <3> QED
        BY <1>1, <3>1, <3>2, <3>4
  <2> QED
      BY <2>1, <2>2
<1>4. PICK r : Fits(r) /\ task' = WithHop(task, h, r)
    BY <1>3
<1> DEFINE u == WithHop(task, h, r)
<1>5. u \in Tasks(R2) /\ OnlyHop(task, u, h) /\ u.hops[h] = r /\ u.failures = task.failures
    BY <1>1, <1>3, <1>4, WithHopTyped
<1>6. task' = u /\ r.status \in {"dispatched", "ready"}
    BY <1>4
<1> HIDE DEF u, Fits
<1>7. callbacks' \subseteq 1..R2 /\ ends' \in [Enders -> EndHolds(R2)] /\ poll' \in PollHolds(R2)
  <2>1. callbacks' \subseteq callbacks /\ ends' = ends /\ poll' = poll
      OBVIOUS
  <2>2. \A i \in 1..R : i \in 1..R2
      BY <1>1, <1>3
  <2>3. EndHolds(R) \subseteq EndHolds(R2) /\ PollHolds(R) \subseteq PollHolds(R2)
      BY <1>1, <1>3, Grows
  <2> HIDE DEF R, R2
  <2> QED
      BY <1>1, <2>1, <2>2, <2>3
<1>8. ShapeNext
  <2>1. /\ setup' = setup /\ lock' = lock /\ result' = result /\ rejected' = rejected
      OBVIOUS
  <2> QED
      BY <1>3, <1>5, <1>6, <1>7, <2>1 DEF IInv, Shape, ShapeNext
<1>9. ASSUME ~setup.overlap PROVE FreshNext /\ TaskOK(task', rejected')
  <2>1. poll.pc = "idle" /\ report.pc = "idle" /\ \A e \in Enders : ends[e].pc = "idle"
      BY <1>9, QuietIsAlone
  <2>2. FreshNext
      BY <2>1 DEF FreshNext, OneHandler, EndFresh
  <2>3. TaskOK(task, rejected)
      BY <1>9 DEF IInv
  <2>4. u.hops[h].status # "failed" /\ u.hops[h].status \in {"dispatched", "ready", "failed"}
      BY <1>5, <1>6
  <2>5. TaskOK(u, rejected)
      BY <1>1, <1>2, <1>5, <2>3, <2>4, WithdrawKeeps
  <2> QED
      BY <1>6, <2>2, <2>5
<1> QED
    BY <1>8, <1>9 DEF Preserved

(* A walk-out fails the hop that is out, and counts. *)
LEMMA AgentExitOK ==
    ASSUME IInv, NEW s \in live, AgentExit(s)
    PROVE  Preserved
<1> USE DEF AgentExit
<1> DEFINE R == nextRun - 1
           h == s.hop
           u == Enforced(task, h)
<1>1. /\ R \in Nat /\ task \in Tasks(R) /\ DOMAIN task.hops = Hops(Def) /\ h \in Hops(Def)
      /\ ends \in [Enders -> EndHolds(R)] /\ poll \in PollHolds(R)
    BY DEF IInv, Shape, Tasks, States
<1>2. /\ u \in Tasks(R) /\ u.failures # 0 /\ OnlyHop(task, u, h)
      /\ u.hops[h] = task.hops[h] \/ u.hops[h].status = "failed"
    BY <1>1, EnforcedTyped
<1>3. task' = task \/ (task.hops[h].status = "dispatched" /\ task' = u)
    BY DEF StillOut
<1> HIDE DEF u
<1>4. ShapeNext
    BY <1>1, <1>2, <1>3 DEF IInv, Shape, ShapeNext
<1>5. ASSUME ~setup.overlap PROVE FreshNext /\ TaskOK(task', rejected')
  <2>1. poll.pc = "idle" /\ report.pc = "idle" /\ \A e \in Enders : ends[e].pc = "idle"
      BY <1>5, QuietIsAlone
  <2>2. FreshNext
      BY <2>1 DEF FreshNext, OneHandler, EndFresh
  <2>3. TaskOK(task, rejected)
      BY <1>5 DEF IInv
  <2>4. CASE task' = task
      BY <2>2, <2>3, <2>4
  <2>5. CASE task.hops[h].status = "dispatched" /\ task' = u
    <3>1. u.hops[h].status \in {"dispatched", "ready", "failed"}
        BY <1>2, <2>5
    <3>2. TaskOK(u, rejected)
        BY <1>1, <1>2, <2>3, <2>5, <3>1, WithdrawKeeps
    <3> QED
        BY <2>2, <2>5, <3>2
  <2> QED
      BY <1>3, <2>4, <2>5
<1> QED
    BY <1>4, <1>5 DEF Preserved

(* Only a task that no handler holds is put back in progress. *)
LEMMA ResumeOK ==
    ASSUME IInv, Resume
    PROVE  Preserved
<1> USE DEF Resume, procVars
<1>1. task \in Tasks(nextRun - 1)
    BY DEF IInv, Shape
<1>2. /\ task' \in Tasks(nextRun - 1) /\ task'.hops = task.hops /\ task'.dag = task.dag
      /\ task'.failures = task.failures
    BY <1>1 DEF Tasks, Statuses
<1>3. ShapeNext
    BY <1>2 DEF IInv, Shape, ShapeNext
<1>4. ASSUME ~setup.overlap PROVE FreshNext /\ TaskOK(task', rejected')
  <2>1. task.status # "in-progress" /\ HandlersFresh /\ TaskOK(task, rejected)
      BY <1>4 DEF IInv
  <2>2. poll.pc = "idle" /\ \A e \in Enders : ends[e].pc = "idle"
      BY <2>1 DEF HandlersFresh, EndFresh
  <2>3. FreshNext
      BY <2>2 DEF FreshNext, OneHandler, EndFresh
  <2>4. TaskOK(task', rejected)
      BY <1>2, <2>1, HopsKept
  <2> QED
      BY <2>3, <2>4
<1> QED
    BY <1>3, <1>4 DEF Preserved

(* A crash loses the handlers and leaves the task. *)
LEMMA CrashOK ==
    ASSUME IInv, NEW survivors \in {live, {}}, Crash(survivors)
    PROVE  Preserved
<1> USE DEF Crash
<1>1. \A e \in Enders : ends'[e] = IdleEnd
    OBVIOUS
<1>2. ShapeNext
  <2>1. ends' \in [Enders -> EndHolds(nextRun - 1)] /\ poll' \in PollHolds(nextRun - 1)
      BY IdleTyped
  <2>2. live' \subseteq live
      OBVIOUS
  <2> QED
      BY <2>1, <2>2 DEF IInv, Shape, ShapeNext
<1>3. ASSUME ~setup.overlap PROVE FreshNext /\ TaskOK(task', rejected')
  <2>1. FreshNext
      BY <1>1, IdleTyped DEF FreshNext, OneHandler, EndFresh, IdleReport, IdleEnd
  <2>2. TaskOK(task, rejected) /\ task' = task /\ rejected' = rejected
      BY <1>3 DEF IInv
  <2> QED
      BY <2>1, <2>2
<1> QED
    BY <1>2, <1>3 DEF Preserved

(* Every step keeps the invariant. *)
LEMMA StepOK ==
    ASSUME IInv, [Next]_vars
    PROVE  IInv'
<1> SUFFICES Preserved
    BY PreservedSuffices
<1>1. CASE UNCHANGED vars
  <2>1. ShapeNext
      BY <1>1 DEF vars, IInv, Shape, ShapeNext
  <2>2. ASSUME ~setup.overlap PROVE FreshNext /\ TaskOK(task', rejected')
    <3>1. HandlersFresh /\ TaskOK(task, rejected)
        BY <2>2 DEF IInv
    <3>2. /\ task' = task /\ rejected' = rejected /\ ends' = ends /\ poll' = poll /\ report' = report
        BY <1>1 DEF vars
    <3> QED
        BY <3>1, <3>2 DEF HandlersFresh, FreshNext, OneHandler
  <2> QED
      BY <2>1, <2>2 DEF Preserved
<1>2. CASE Next
  <2>1. ASSUME NEW s \in live, NEW o \in setup.outcomes, NEW n \in setup.notes, ReportWrite(s, o, n) PROVE Preserved
      BY <2>1, ReportWriteOK
  <2>2. CASE ReportApply
      BY <2>2, ReportApplyOK
  <2>3. ASSUME NEW e \in Enders, SessionEnd(e) PROVE Preserved
      BY <2>3, SessionEndOK
  <2>4. ASSUME NEW e \in Enders, handleDAGHopCompletion(e) PROVE Preserved
      BY <2>4, HandleOK
  <2>5. ASSUME NEW e \in Enders, Advance(e) PROVE Preserved
      BY <2>5, AdvanceOK
  <2>6. ASSUME NEW e \in Enders, EndSpawned(e) PROVE Preserved
      BY <2>6, EndSpawnedOK
  <2>7. ASSUME NEW e \in Enders, EndSpawnFails(e) PROVE Preserved
      BY <2>7, EndSpawnFailsOK
  <2>8. CASE PollPick \/ PollFresh \/ PollSpawned \/ PollSpawnFails
      BY <2>8, PollPickOK, PollFreshOK, PollSpawnedOK, PollSpawnFailsOK
  <2>9. ASSUME NEW h \in Hops(Def), NEW b \in BOOLEAN, escalateHopTimeout(h, b) PROVE Preserved
      BY <2>9, EscalateOK
  <2>10. ASSUME NEW s \in live, AgentExit(s) PROVE Preserved
      BY <2>10, AgentExitOK
  <2>11. CASE Resume
      BY <2>11, ResumeOK
  <2>12. ASSUME NEW survivors \in {live, {}}, Crash(survivors) PROVE Preserved
      BY <2>12, CrashOK
  <2> QED
      BY <1>2, <2>1, <2>2, <2>3, <2>4, <2>5, <2>6, <2>7, <2>8, <2>9, <2>10, <2>11, <2>12 DEF Next
<1> QED
    BY <1>1, <1>2

(* -------------------------------- Theorems -------------------------------- *)

(* The handlers' view of the workflow and the task file agree in the ways    *)
(* IInv says, for every definition, condition language and bound.            *)
THEOREM Invariance == Spec => []IInv
<1>1. Init => IInv
    BY InitOK
<1>2. IInv /\ [Next]_vars => IInv'
    BY StepOK
<1> QED
    BY <1>1, <1>2, PTL DEF Spec

(* Hops run one at a time and in the order of the graph, and no branch is    *)
(* left behind (validateDAG, evaluateDAG, dispatchDAGHop).                   *)
THEOREM HopsRunInOrder == Spec => []HopsInOrder
<1>1. IInv => HopsInOrder
  <2> SUFFICES ASSUME IInv PROVE HopsInOrder
      OBVIOUS
  <2>1. /\ Shape /\ IsDefinition(Def) /\ task \in Tasks(nextRun - 1) /\ DOMAIN task.hops = Hops(Def)
      BY DefinitionIsSequence DEF IInv, Shape, Tasks, States
  <2>2. TypeOK
    <3>1. task \in TaskRecord
        BY <2>1 DEF Tasks, TaskRecord, States, HopRecords
    <3> QED
        BY <2>1, <3>1 DEF Shape, TypeOK
  <2>3. ValidatedIsAcyclic
      BY <2>1, ValidatedAcyclic DEF Shape
  <2>4. ASSUME ~setup.overlap PROVE TaskOK(task, rejected)
      BY <2>4 DEF IInv
  <2>5. OneHopAtATime
    <3> SUFFICES ASSUME ~setup.overlap PROVE Cardinality(Dispatched(task)) <= 1
        BY DEF OneHopAtATime
    <3> DEFINE D == Dispatched(task)
    <3>1. \A g, h \in D : g = h
        BY <2>4 DEF TaskOK, OneOut
    <3> HIDE DEF D
    <3>2. CASE D = {}
        BY <3>2, FS_EmptySet DEF D
    <3>3. CASE D # {}
      <4>1. PICK h : h \in D
          BY <3>3
      <4>2. D = {h}
          BY <3>1, <4>1
      <4>3. Cardinality({h}) = 1
          BY FS_Singleton
      <4> QED
          BY <4>2, <4>3 DEF D
    <3> QED
        BY <3>2, <3>3
  <2>6. JoinRespected
    <3> SUFFICES ASSUME ~setup.overlap, StartsOver, NEW h \in Dispatched(task), ~IsRoot(Def, h)
                 PROVE  /\ Def[h].joinType = "any" => \E p \in Def[h].dependsOn : task.hops[p].status = "complete"
                        /\ Def[h].joinType = "all" => \A p \in Def[h].dependsOn : task.hops[p].status \in {"complete", "skipped"}
        BY DEF JoinRespected
    <3>1. h \in Hops(Def) /\ task.hops[h].status = "dispatched"
        BY <2>1 DEF Dispatched, Having
    <3>2. JoinSatisfied(Def, task.hops, h)
        BY <2>4, <3>1 DEF TaskOK, OrderKept, JoinsHold, Joined
    <3> QED
        BY <3>2 DEF JoinSatisfied, Having
  <2>7. CascadeComplete
    <3> SUFFICES ASSUME ~setup.overlap, StartsOver, task.failures = 0, NEW h \in Having(task.hops, {"pending"}),
                        Def[h].dependsOn \subseteq Having(task.hops, {"failed"})
                 PROVE  FALSE
        BY DEF CascadeComplete
    <3>1. h \in Hops(Def) /\ task.hops[h].status = "pending"
        BY <2>1 DEF Having
    <3>2. NoneAbandoned(Def, task.hops)
        BY <2>4 DEF TaskOK, OrderKept
    <3> QED
        BY <3>1, <3>2 DEF NoneAbandoned
  <2> QED
      BY <2>2, <2>3, <2>5, <2>6, <2>7 DEF HopsInOrder
<1> QED
    BY <1>1, Invariance, PTL

(* Rejections are limited, and a workflow with a verdict is not reopened     *)
(* (rejectHop, the status checks of handleDAGHopCompletion).                 *)
THEOREM VerdictsStay == Spec => VerdictsHold
<1>1. IInv => BreakerHolds
  <2> SUFFICES ASSUME IInv, ~setup.overlap, SoleReviewer, NEW h \in Hops(Def)
               PROVE  rejected[h] <= DEFAULT_MAX_REJECTIONS
      BY DEF BreakerHolds, SoleReviewer
  <2>1. Counted(task, rejected)
      BY DEF IInv, TaskOK
  <2> QED
      BY <2>1 DEF Counted, DEFAULT_MAX_REJECTIONS
<1>2. IInv /\ [Next]_vars => [~setup.overlap /\ task.dag # "running" => task'.hops = task.hops /\ task'.dag = task.dag]_vars
  <2> SUFFICES ASSUME IInv, [Next]_vars, ~setup.overlap, task.dag # "running"
               PROVE  task'.hops = task.hops /\ task'.dag = task.dag
      OBVIOUS
  <2>1. /\ task \in Tasks(nextRun - 1) /\ DOMAIN task.hops = Hops(Def)
        /\ HandlersFresh /\ TaskOK(task, rejected)
      BY DEF IInv, Shape, Tasks, States
  <2>2. \A h \in Hops(Def) : task.hops[h].status # "dispatched"
      BY <2>1 DEF TaskOK, VerdictFinal, Terminal
  <2>3. ASSUME NEW to PROVE Moved(task, to).hops = task.hops /\ Moved(task, to).dag = task.dag
      BY <2>1 DEF Moved, Tasks
  <2>4. Dispatched(task) = {}
      BY <2>1, <2>2 DEF Dispatched, Having
  <2>5. ASSUME NEW e \in Enders PROVE ends[e].pc # "idle" => ends[e].snap = task
      BY <2>1 DEF HandlersFresh, EndFresh
  <2>6. ASSUME NEW e \in Enders PROVE ends[e].pc # "spawn"
      BY <2>1 DEF HandlersFresh, EndFresh, MayStart
  <2>7. poll.pc = "idle"
      BY <2>1 DEF HandlersFresh, MayStart
  <2>8. ASSUME NEW e \in Enders, handleDAGHopCompletion(e) PROVE task' = task
      BY <2>4, <2>5, <2>8 DEF handleDAGHopCompletion
  <2>9. ASSUME NEW e \in Enders, Advance(e) PROVE task' = task \/ \E to : task' = Moved(task, to)
    <3>1. ends[e].ev.dag = task.dag
        BY <2>1, <2>9 DEF HandlersFresh, EndFresh, Advance
    <3> QED
        BY <2>9, <3>1 DEF Advance
  <2>10. ASSUME NEW s \in live, AgentExit(s) PROVE task' = task
    <3>1. s.hop \in Hops(Def)
        BY DEF IInv, Shape
    <3> QED
        BY <2>2, <2>10, <3>1 DEF AgentExit, StillOut
  <2>11. ASSUME Resume PROVE task'.hops = task.hops /\ task'.dag = task.dag
      BY <2>1, <2>11 DEF Resume, Tasks
  <2>12. ASSUME NEW h \in Hops(Def), NEW b \in BOOLEAN PROVE ~escalateHopTimeout(h, b)
      BY <2>2 DEF escalateHopTimeout, MayEscalate
  <2>13. CASE UNCHANGED task
      BY <2>13
  <2>14. CASE \E to : task' = Moved(task, to)
      BY <2>3, <2>14
  <2>15. \/ UNCHANGED task \/ (\E to : task' = Moved(task, to))
         \/ Resume
      BY <2>6, <2>7, <2>8, <2>9, <2>10, <2>12 DEF Next, vars, ReportWrite, ReportApply, SessionEnd, EndSpawned,
          EndSpawnFails, PollPick, PollFresh, PollSpawned, PollSpawnFails, Crash
  <2> QED
      BY <2>11, <2>13, <2>14, <2>15
<1> QED
    BY <1>1, <1>2, Invariance, PTL DEF Spec, VerdictsHold, FinishedIsFinal

=============================================================================
