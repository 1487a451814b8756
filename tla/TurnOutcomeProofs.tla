-------------------------- MODULE TurnOutcomeProofs --------------------------
(***************************************************************************)
(* What commit makes of "them" is right for every set of employees and     *)
(* every plan whose active node meets the conditions of the plan.          *)
(*                                                                         *)
(* Results and Conditions run over the nodes of a plan; what holds of both *)
(* is proved by induction on the nodes (Induct).  The invariant then says, *)
(* phase by phase, what memory and the chosen truths are.                  *)
(***************************************************************************)
EXTENDS TurnOutcome, WellFoundedInduction, FiniteSetTheorems, TLAPS

Memory == [cohort: SUBSET People, referent: SUBSET People,
           listed: SUBSET People, he: SUBSET People]

(* "She" is one person, and a referent other than the cohort is one too.   *)
Focused(m) ==
    /\ m.he = {} \/ Cardinality(m.he) = 1
    /\ m.referent = m.cohort \/ Cardinality(m.referent) = 1

Chosen ==
    /\ truth \in [Asked -> SUBSET People]
    /\ "all" \in Asked => truth["all"] = People
    /\ weak \subseteq People
    /\ weak = {} \/ ("skill" \in Asked /\ weak \cap truth["skill"] = {})
    /\ outcome \in Endings

(* What a turn has decided: its code, and the memory that follows.         *)
Settled ==
    /\ code = RefusalCode(Results)
    /\ memory = Committed(AfterUniverse(before, plan), code, Results)

IInv ==
    /\ memory \in Memory /\ Focused(memory)
    /\ before \in Memory /\ Focused(before)
    /\ phase \in {"idle", "planned", "executed", "answered"}
    /\ phase # "idle" => plan \in Plans /\ CanPlan(plan, before)
    /\ phase \in {"planned", "executed"} => memory = AfterUniverse(before, plan)
    /\ phase \in {"executed", "answered"} => Chosen
    /\ phase = "answered" => Settled

-----------------------------------------------------------------------------
(* Induction on the natural numbers. *)

LEMMA LeastNumber ==
  ASSUME NEW T \in SUBSET Nat, T # {}
  PROVE  \E n \in T : \A m \in T : n <= m
<1> DEFINE R == OpToRel(<, Nat)
<1>1. IsWellFoundedOn(R, Nat)
  BY NatLessThanWellFounded
<1>2. R = {p \in Nat \X Nat : p[1] < p[2]}
  BY DEF OpToRel
<1> HIDE DEF R
<1>3. PICK x \in T : \A y \in T : ~ (<<y, x>> \in R)
  BY <1>1, WFMin
<1>4. ASSUME NEW y \in T PROVE x <= y
  <2>1. <<y, x>> \in Nat \X Nat /\ <<y, x>> \notin R
    BY <1>3
  <2>2. ~(y < x)
    BY <1>2, <2>1
  <2>3. QED
    BY <2>2
<1>5. QED
  BY <1>4

LEMMA Induct ==
  ASSUME NEW S, 0 \in S, \A n \in Nat : n \in S => n + 1 \in S
  PROVE  Nat \subseteq S
<1> DEFINE T == {n \in Nat : n \notin S}
<1>1. SUFFICES ASSUME T # {} PROVE FALSE
  OBVIOUS
<1>2. PICK n \in T : \A m \in T : n <= m
  BY <1>1, LeastNumber
<1>3. n - 1 \in Nat /\ ~(n <= n - 1)
  OBVIOUS
<1>4. n - 1 \in S
  BY <1>2, <1>3
<1>5. QED
  BY <1>3, <1>4

-----------------------------------------------------------------------------
(* The results of the first i nodes, and the conditions they are known to  *)
(* meet.                                                                   *)
ResultsAfter(after) ==
    after = [i \in 0..Len(plan.nodes) |->
                IF i = 0 THEN [id \in NodeIds |-> NoData]
                ELSE [after[i - 1] EXCEPT ![plan.nodes[i].id] =
                         Run(plan.nodes[i], after[i - 1])]]

ConditionsAfter(p, lost, after) ==
    after = [i \in 0..Len(p.nodes) |->
                IF i = 0 THEN [id \in Ids(p) |-> Both({})]
                ELSE [after[i - 1] EXCEPT ![p.nodes[i].id] =
                         Meets(p.nodes[i], after[i - 1], lost)]]

LEMMA ResultsDefined ==
  ASSUME plan \in Plan
  PROVE  \E after : ResultsAfter(after) /\ Results = after[Len(plan.nodes)]
<1> DEFINE Upto(k, f) ==
             f = [i \in 0..k |->
                     IF i = 0 THEN [id \in NodeIds |-> NoData]
                     ELSE [f[i - 1] EXCEPT ![plan.nodes[i].id] =
                              Run(plan.nodes[i], f[i - 1])]]
           S == {k \in Nat : \E f : Upto(k, f)}
<1>1. 0 \in S
  <2> DEFINE f == [i \in 0..0 |-> [id \in NodeIds |-> NoData]]
  <2>1. Upto(0, f)
    OBVIOUS
  <2>2. QED
    BY <2>1
<1>2. ASSUME NEW k \in Nat, k \in S PROVE k + 1 \in S
  <2>1. PICK f : Upto(k, f)
    BY <1>2
  <2> DEFINE last == [f[k] EXCEPT ![plan.nodes[k + 1].id] = Run(plan.nodes[k + 1], f[k])]
             g == [i \in 0..(k + 1) |-> IF i = k + 1 THEN last ELSE f[i]]
  <2>2. ASSUME NEW i \in 0..(k + 1)
        PROVE  g[i] = IF i = 0 THEN [id \in NodeIds |-> NoData]
                      ELSE [g[i - 1] EXCEPT ![plan.nodes[i].id] =
                               Run(plan.nodes[i], g[i - 1])]
    <3>1. CASE i = k + 1
      <4>1. g[i] = last /\ g[k] = f[k] /\ i - 1 = k /\ i # 0
        BY <3>1
      <4> HIDE DEF g
      <4>2. QED
        BY <3>1, <4>1
    <3>2. CASE i # k + 1
      <4>1. i \in 0..k /\ g[i] = f[i] /\ (i # 0 => i - 1 \in 0..k /\ g[i - 1] = f[i - 1])
        BY <3>2
      <4>2. f[i] = IF i = 0 THEN [id \in NodeIds |-> NoData]
                   ELSE [f[i - 1] EXCEPT ![plan.nodes[i].id] =
                            Run(plan.nodes[i], f[i - 1])]
        BY <2>1, <4>1
      <4> HIDE DEF g
      <4>3. QED
        BY <4>1, <4>2
    <3>3. QED
      BY <3>1, <3>2
  <2>3. g = [i \in 0..(k + 1) |-> g[i]]
    OBVIOUS
  <2> HIDE DEF g
  <2>4. Upto(k + 1, g)
    BY <2>2, <2>3
  <2>5. QED
    BY <2>4
<1> HIDE DEF S
<1>3. Len(plan.nodes) \in Nat
  BY DEF Plan
<1>4. Len(plan.nodes) \in S
  BY <1>1, <1>2, <1>3, Induct
<1>5. \E f : ResultsAfter(f)
  BY <1>4 DEF S, ResultsAfter
<1>6. QED
  BY <1>5 DEF Results, ResultsAfter

(* The same for the conditions. *)
LEMMA ConditionsDefined ==
  ASSUME NEW p \in Plan, NEW lost
  PROVE  \E after : /\ ConditionsAfter(p, lost, after)
                    /\ Conditions(p, lost) = after[Len(p.nodes)]
<1> DEFINE Upto(k, f) ==
             f = [i \in 0..k |->
                     IF i = 0 THEN [id \in Ids(p) |-> Both({})]
                     ELSE [f[i - 1] EXCEPT ![p.nodes[i].id] =
                              Meets(p.nodes[i], f[i - 1], lost)]]
           S == {k \in Nat : \E f : Upto(k, f)}
<1>1. 0 \in S
  <2> DEFINE f == [i \in 0..0 |-> [id \in Ids(p) |-> Both({})]]
  <2>1. Upto(0, f)
    OBVIOUS
  <2>2. QED
    BY <2>1
<1>2. ASSUME NEW k \in Nat, k \in S PROVE k + 1 \in S
  <2>1. PICK f : Upto(k, f)
    BY <1>2
  <2> DEFINE last == [f[k] EXCEPT ![p.nodes[k + 1].id] = Meets(p.nodes[k + 1], f[k], lost)]
             g == [i \in 0..(k + 1) |-> IF i = k + 1 THEN last ELSE f[i]]
  <2>2. ASSUME NEW i \in 0..(k + 1)
        PROVE  g[i] = IF i = 0 THEN [id \in Ids(p) |-> Both({})]
                      ELSE [g[i - 1] EXCEPT ![p.nodes[i].id] =
                               Meets(p.nodes[i], g[i - 1], lost)]
    <3>1. CASE i = k + 1
      <4>1. g[i] = last /\ g[k] = f[k] /\ i - 1 = k /\ i # 0
        BY <3>1
      <4> HIDE DEF g
      <4>2. QED
        BY <3>1, <4>1
    <3>2. CASE i # k + 1
      <4>1. i \in 0..k /\ g[i] = f[i] /\ (i # 0 => i - 1 \in 0..k /\ g[i - 1] = f[i - 1])
        BY <3>2
      <4>2. f[i] = IF i = 0 THEN [id \in Ids(p) |-> Both({})]
                   ELSE [f[i - 1] EXCEPT ![p.nodes[i].id] =
                            Meets(p.nodes[i], f[i - 1], lost)]
        BY <2>1, <4>1
      <4> HIDE DEF g
      <4>3. QED
        BY <4>1, <4>2
    <3>3. QED
      BY <3>1, <3>2
  <2>3. g = [i \in 0..(k + 1) |-> g[i]]
    OBVIOUS
  <2> HIDE DEF g
  <2>4. Upto(k + 1, g)
    BY <2>2, <2>3
  <2>5. QED
    BY <2>4
<1> HIDE DEF S
<1>3. Len(p.nodes) \in Nat
  BY DEF Plan
<1>4. Len(p.nodes) \in S
  BY <1>1, <1>2, <1>3, Induct
<1>5. \E f : ConditionsAfter(p, lost, f)
  BY <1>4 DEF S, ConditionsAfter
<1>6. QED
  BY <1>5 DEF Conditions, ConditionsAfter

-----------------------------------------------------------------------------
(* Payloads name employees. *)

PayloadKinds == {"none", "search", "list", "rows", "idrows", "count", "generated",
                 "candidates", "reports", "person", "nobody", "fact", "answer"}
Payloads == [kind: PayloadKinds, ids: SUBSET People, strong: SUBSET People]

LEMMA AllAsked ==
  ASSUME plan \in Plan, NEW i \in DOMAIN plan.nodes
  PROVE  /\ plan.nodes[i] \in PlanNode /\ plan.nodes[i].id \in NodeIds
         /\ plan.nodes[i].crit \in Asked
         /\ plan.nodes[i].op = "reports" => "name" \in Asked
<1>1. plan.nodes \in Seq(PlanNode)
  BY DEF Plan
<1>2. QED
  BY <1>1 DEF NodeIds, Ids, Asked, Some

LEMMA PayloadTyped ==
  ASSUME NEW kind \in PayloadKinds, NEW ids \in SUBSET People
  PROVE  Payload(kind, ids) \in Payloads
BY DEF Payload, Payloads

BoundIds(n, r) == IF n.from # "none" THEN AsIdList(r[n.from]) ELSE before.cohort
Scoped(n) == n.from # "none" \/ n.prior
OtherIds(n, r) == IF n.other = "prior" THEN before.cohort ELSE AsIdList(r[n.other])
Hits(n) == IF n.crit = "skill" THEN truth[n.crit] \cup weak ELSE truth[n.crit]
Broken == {"failed", "denied", "caught"}

(* The cases of Run. *)
RunCases(n, r) ==
    /\ outcome[n.id] \in {"failed", "denied"} => Run(n, r) = NoData
    /\ outcome[n.id] = "caught" => Run(n, r) = Payload("search", {})
    /\ outcome[n.id] \notin Broken =>
          /\ n.op = "search" => Run(n, r) = Search(n.crit, Hits(n), BoundIds(n, r), Scoped(n))
          /\ n.op = "extract" => Run(n, r) = Payload("list", Extract(r[n.from]))
          /\ n.op = "intersect" =>
                Run(n, r) = Payload("list", AsIdList(r[n.from]) \cap OtherIds(n, r))
          /\ n.op \in SqlOps =>
                Run(n, r) = Payload(n.op, truth[n.crit]
                                          \cap SqlScope(BoundIds(n, r), Scoped(n)))
          /\ n.op = "reports" =>
                Run(n, r) = IF outcome[n.id] = "unsure"
                            THEN Payload("candidates", truth["name"])
                            ELSE Payload("reports", truth[n.crit])
          /\ n.op = "person" =>
                Run(n, r) = IF n.bound THEN Payload("person", before.he)
                            ELSE ByName(truth[n.crit], outcome[n.id] # "unsure")
          /\ n.op = "fact" =>
                Run(n, r) = Payload("fact", IF n.bound THEN before.he
                                            ELSE AsIdList(r[n.from]))
          /\ n.op = "greeting" => Run(n, r) = Payload("answer", {})

LEMMA RunOf == ASSUME NEW n, NEW r PROVE RunCases(n, r)
BY DEF RunCases, Run, BoundIds, Scoped, OtherIds, Hits, Broken, SqlOps

LEMMA RunTyped ==
  ASSUME plan \in Plan, Closed(plan), before \in Memory, Chosen,
         NEW i \in DOMAIN plan.nodes, NEW r \in [NodeIds -> Payloads]
  PROVE  Run(plan.nodes[i], r) \in Payloads
<1> DEFINE n == plan.nodes[i]
<1> SUFFICES Run(n, r) \in Payloads
  OBVIOUS
<1>1. n \in PlanNode /\ truth[n.crit] \subseteq People
      /\ (n.op = "reports" => truth["name"] \subseteq People)
  BY AllAsked DEF Chosen
<1>2. before.cohort \subseteq People /\ before.he \subseteq People /\ weak \subseteq People
  BY DEF Memory, Chosen
<1>3. /\ n.from \in NodeIds \cup {"none"} /\ n.other \in NodeIds \cup {"none", "prior"}
      /\ n.op \in {"extract", "intersect"} \/ (n.op = "fact" /\ ~n.bound) => n.from \in NodeIds
      /\ n.op = "intersect" /\ n.other # "prior" => n.other \in NodeIds
  BY DEF Closed, NodeIds
<1>4. \A id \in NodeIds : r[id] \in Payloads
  OBVIOUS
<1>5. \A id \in NodeIds : AsIdList(r[id]) \subseteq People /\ Extract(r[id]) \subseteq People
  BY <1>4 DEF AsIdList, Extract, Payloads
<1>6. \A S \in SUBSET People, exact \in BOOLEAN : ByName(S, exact) \in Payloads
  BY DEF ByName, Payload, Payloads, PayloadKinds
<1>7. \A c \in Criteria, hits \in SUBSET People, scope \in SUBSET People,
         scoped \in BOOLEAN : Search(c, hits, scope, scoped) \in Payloads
  BY <1>2 DEF Search, Payloads, PayloadKinds
<1>8. NoData \in Payloads
  BY DEF NoData, Payload, Payloads, PayloadKinds
<1>9. /\ BoundIds(n, r) \subseteq People /\ Scoped(n) \in BOOLEAN
      /\ truth[n.crit] \cap SqlScope(BoundIds(n, r), Scoped(n)) \subseteq People
  BY <1>1, <1>2, <1>3, <1>5 DEF PlanNode, BoundIds, Scoped
<1> HIDE DEF n
<1>10. RunCases(n, r)
  BY RunOf
<1>11. Payload("search", {}) \in Payloads /\ Payload("answer", {}) \in Payloads
  BY DEF Payload, Payloads, PayloadKinds
<1>12. CASE outcome[n.id] \in Broken
  <2>1. CASE outcome[n.id] \in {"failed", "denied"}
    BY <1>8, <1>10, <2>1 DEF RunCases
  <2>2. CASE outcome[n.id] = "caught"
    BY <1>10, <1>11, <2>2 DEF RunCases
  <2>3. QED
    BY <1>12, <2>1, <2>2 DEF Broken
<1>13. CASE outcome[n.id] \notin Broken
  <2>1. CASE n.op = "search"
    <3>1. Hits(n) \subseteq People
      BY <1>1, <1>2 DEF Hits
    <3>2. QED
      BY <1>1, <1>7, <1>9, <1>10, <1>13, <2>1, <3>1 DEF RunCases, PlanNode
  <2>2. CASE n.op = "extract"
    BY <1>3, <1>5, <1>10, <1>13, <2>2 DEF RunCases, Payload, Payloads, PayloadKinds
  <2>3. CASE n.op = "intersect"
    <3>1. n.from \in NodeIds /\ AsIdList(r[n.from]) \cap OtherIds(n, r) \subseteq People
      BY <1>3, <1>5, <2>3
    <3>2. QED
      BY <1>10, <1>13, <2>3, <3>1 DEF RunCases, Payload, Payloads, PayloadKinds
  <2>4. CASE n.op \in SqlOps
    BY <1>9, <1>10, <1>13, <2>4 DEF RunCases, Payload, Payloads, PayloadKinds, SqlOps
  <2>5. CASE n.op = "reports"
    BY <1>1, <1>10, <1>13, <2>5 DEF RunCases, Payload, Payloads, PayloadKinds
  <2>6. CASE n.op = "person"
    <3>1. Payload("person", before.he) \in Payloads
      BY <1>2, PayloadTyped DEF PayloadKinds
    <3>2. ByName(truth[n.crit], outcome[n.id] # "unsure") \in Payloads
      BY <1>1, <1>6
    <3>3. QED
      BY <1>10, <1>13, <2>6, <3>1, <3>2 DEF RunCases
  <2>7. CASE n.op = "fact"
    <3>1. n.bound \/ n.from \in NodeIds
      BY <1>3, <2>7
    <3>2. (IF n.bound THEN before.he ELSE AsIdList(r[n.from])) \subseteq People
      BY <1>2, <1>5, <3>1
    <3>3. QED
      BY <1>10, <1>13, <2>7, <3>2 DEF RunCases, Payload, Payloads, PayloadKinds
  <2>8. CASE n.op = "greeting"
    BY <1>10, <1>11, <1>13, <2>8 DEF RunCases
  <2>9. n.op \in Ops
    BY <1>1 DEF PlanNode
  <2>10. QED
    BY <2>1, <2>2, <2>3, <2>4, <2>5, <2>6, <2>7, <2>8, <2>9 DEF Ops, SqlOps
<1>14. QED
  BY <1>12, <1>13

(* What the bindings of a closed plan resolve to are employees.            *)
LEMMA AfterTyped ==
  ASSUME plan \in Plan, Closed(plan), before \in Memory, Chosen,
         NEW after, ResultsAfter(after)
  PROVE  \A k \in 0..Len(plan.nodes) : after[k] \in [NodeIds -> Payloads]
<1> DEFINE S == {k \in Nat : k <= Len(plan.nodes) => after[k] \in [NodeIds -> Payloads]}
<1>1. Len(plan.nodes) \in Nat /\ DOMAIN plan.nodes = 1..Len(plan.nodes)
  BY DEF Plan
<1>2. 0 \in S
  <2>1. after[0] = [id \in NodeIds |-> NoData]
    BY <1>1 DEF ResultsAfter
  <2>2. NoData \in Payloads
    BY DEF NoData, Payload, Payloads, PayloadKinds
  <2>3. QED
    BY <2>1, <2>2
<1>3. ASSUME NEW k \in Nat, k \in S PROVE k + 1 \in S
  <2>1. SUFFICES ASSUME k + 1 <= Len(plan.nodes)
                 PROVE  after[k + 1] \in [NodeIds -> Payloads]
    OBVIOUS
  <2>2. k + 1 \in DOMAIN plan.nodes /\ k + 1 \in 0..Len(plan.nodes) /\ k + 1 # 0
        /\ (k + 1) - 1 = k /\ k <= Len(plan.nodes)
    BY <1>1, <2>1
  <2>3. after[k + 1] = [after[k] EXCEPT ![plan.nodes[k + 1].id] =
                           Run(plan.nodes[k + 1], after[k])]
    BY <2>2 DEF ResultsAfter
  <2>4. after[k] \in [NodeIds -> Payloads]
    BY <1>3, <2>2
  <2>5. Run(plan.nodes[k + 1], after[k]) \in Payloads
    BY <2>2, <2>4, RunTyped
  <2>6. QED
    BY <2>3, <2>4, <2>5
<1> HIDE DEF S
<1>4. Nat \subseteq S
  BY <1>2, <1>3, Induct
<1>5. QED
  BY <1>1, <1>4 DEF S

LEMMA ResultsTyped ==
  ASSUME plan \in Plan, Closed(plan), before \in Memory, Chosen
  PROVE  Results \in [NodeIds -> Payloads]
<1>1. PICK after : ResultsAfter(after) /\ Results = after[Len(plan.nodes)]
  BY ResultsDefined
<1>2. Len(plan.nodes) \in Nat
  BY DEF Plan
<1>3. QED
  BY <1>1, <1>2, AfterTyped

(* What a node reads of the nodes before it stays as it read it.           *)
LEMMA ReadsFinal ==
  ASSUME plan \in Plan, Closed(plan), Linked(plan), before \in Memory, Chosen,
         NEW after, ResultsAfter(after), Results = after[Len(plan.nodes)],
         NEW k \in Nat, k + 1 \in DOMAIN plan.nodes, NEW id, Reads(plan, k + 1, id)
  PROVE  after[k][id] = Results[id]
<1> DEFINE S == {m \in Nat : m <= Len(plan.nodes) /\ k <= m => after[m][id] = after[k][id]}
<1>1. Len(plan.nodes) \in Nat /\ DOMAIN plan.nodes = 1..Len(plan.nodes)
      /\ k <= Len(plan.nodes)
  BY DEF Plan
<1>2. PICK j \in 1..k : plan.nodes[j].id = id
  BY DEF Reads
<1>3. 0 \in S
  BY <1>1
<1>4. ASSUME NEW m \in Nat, m \in S PROVE m + 1 \in S
  <2>1. SUFFICES ASSUME m + 1 <= Len(plan.nodes), k <= m
                 PROVE  after[m + 1][id] = after[k][id]
    OBVIOUS
  <2>2. m + 1 \in DOMAIN plan.nodes /\ m + 1 \in 0..Len(plan.nodes) /\ m + 1 # 0
        /\ (m + 1) - 1 = m /\ m \in 0..Len(plan.nodes) /\ j # m + 1 /\ j \in DOMAIN plan.nodes
    BY <1>1, <2>1
  <2>3. after[m + 1] = [after[m] EXCEPT ![plan.nodes[m + 1].id] =
                           Run(plan.nodes[m + 1], after[m])]
    BY <2>2 DEF ResultsAfter
  <2>4. plan.nodes[m + 1].id # id /\ id \in NodeIds
    BY <1>2, <2>2, AllAsked DEF Linked
  <2>5. after[m] \in [NodeIds -> Payloads]
    BY <2>2, AfterTyped
  <2>6. after[m + 1][id] = after[m][id]
    BY <2>3, <2>4, <2>5
  <2>7. QED
    BY <1>4, <2>1, <2>6
<1> HIDE DEF S
<1>5. Len(plan.nodes) \in S
  BY <1>1, <1>3, <1>4, Induct
<1>6. QED
  BY <1>1, <1>5 DEF S

-----------------------------------------------------------------------------
(* Everybody that a result names meets the node's Conditions.              *)

Has(c) == IF c = "prior" THEN before.cohort ELSE truth[c]

Meeting(p, m) ==
    /\ p.kind # "candidates" => \A c \in m.all : FromValue(p) \subseteq Has(c)
    /\ p.kind \in {"search", "rows", "idrows", "generated", "reports", "fact"} =>
          \A c \in m.best : p.strong \subseteq Has(c)

ConditionSets == [all: SUBSET (Criteria \cup {"prior"}), best: SUBSET (Criteria \cup {"prior"})]

LEMMA ReadIds ==
  ASSUME NEW p, NEW m, Meeting(p, m)
  PROVE  /\ \A c \in m.all : AsIdList(p) \subseteq Has(c)
         /\ \A c \in m.best : Extract(p) \subseteq Has(c)
BY DEF Meeting, AsIdList, FromValue, Extract

LEMMA NoneMeeting ==
  ASSUME NEW m
  PROVE  Meeting(NoData, m) /\ Meeting(Payload("search", {}), m)
BY DEF Meeting, NoData, Payload, FromValue

(* A generic search whose scope came back empty is bound to a lost node.   *)
Unscoped(n, r, lost) ==
    n.op = "search" /\ n.crit = "skill" /\ n.from \in NodeIds \ lost
        => AsIdList(r[n.from]) # {}

LEMMA RunMeets ==
  ASSUME plan \in Plan, Closed(plan), CanPlan(plan, before), FindsPeople(plan),
         NEW i \in DOMAIN plan.nodes, NEW r \in [NodeIds -> Payloads],
         NEW m \in [NodeIds -> ConditionSets],
         \A id \in NodeIds : Meeting(r[id], m[id]),
         NEW lost, Unscoped(plan.nodes[i], r, lost)
  PROVE  Meeting(Run(plan.nodes[i], r), Meets(plan.nodes[i], m, lost))
<1> DEFINE n == plan.nodes[i]
<1> SUFFICES Meeting(Run(n, r), Meets(n, m, lost))
  OBVIOUS
<1>0. Unscoped(n, r, lost)
  OBVIOUS
<1>1. n \in PlanNode /\ n.op \notin {"person", "fact"}
      /\ (n.prior \/ n.other = "prior" => before.cohort # {})
  BY AllAsked DEF CanPlan, FindsPeople
<1>2. /\ n.from \in NodeIds \cup {"none"} /\ n.other \in NodeIds \cup {"none", "prior"}
      /\ n.op \in {"extract", "intersect"} => n.from \in NodeIds
      /\ n.op = "intersect" /\ n.other # "prior" => n.other \in NodeIds
  BY DEF Closed, NodeIds
<1> HIDE DEF n
<1>3. RunCases(n, r)
  BY RunOf
<1>4. n.crit \in Criteria /\ Has(n.crit) = truth[n.crit] /\ Has("prior") = before.cohort
  BY <1>1, OutcomeAssumption DEF PlanNode, Has
<1>5. \A id \in NodeIds :
         /\ \A c \in m[id].all : AsIdList(r[id]) \subseteq Has(c)
         /\ \A c \in m[id].best : Extract(r[id]) \subseteq Has(c)
  BY ReadIds
<1>6. CASE outcome[n.id] \in Broken
  BY <1>3, <1>6, NoneMeeting DEF RunCases, Broken
<1>7. CASE outcome[n.id] \notin Broken
  <2>1. CASE n.op = "search"
    <3> DEFINE honoured == Honoured(n.crit, BoundIds(n, r), Scoped(n))
               kept == IF honoured THEN Hits(n) \cap BoundIds(n, r) ELSE Hits(n)
               scope == IF n.from = "none" THEN IF n.prior THEN {"prior"} ELSE {}
                        ELSE m[n.from].all
               searched == IF n.crit = "skill" /\ n.from \in lost THEN {} ELSE scope
               best == IF n.crit = "skill" THEN kept \ weak ELSE kept
    <3>1. Run(n, r) = [kind |-> "search", ids |-> kept, strong |-> best]
      BY <1>3, <1>7, <2>1 DEF RunCases, Search
    <3>2. n.crit # "skill" => kept \subseteq truth[n.crit]
      BY DEF Hits
    <3>3. best \subseteq truth[n.crit] /\ best \subseteq kept
      BY DEF Hits
    <3>4. \A c \in searched : kept \subseteq Has(c)
      <4>1. CASE n.from = "none"
        <5>1. CASE n.prior
          <6>1. BoundIds(n, r) = before.cohort /\ before.cohort # {} /\ Scoped(n)
            BY <1>1, <4>1, <5>1 DEF BoundIds, Scoped
          <6>2. honoured
            BY <6>1 DEF Honoured
          <6>3. kept \subseteq before.cohort
            BY <6>1, <6>2
          <6> HIDE DEF kept, honoured
          <6>4. searched \subseteq {"prior"}
            BY <4>1
          <6>5. QED
            BY <1>4, <6>3, <6>4
        <5>2. CASE ~n.prior
          BY <4>1, <5>2
        <5>3. QED
          BY <5>1, <5>2
      <4>2. CASE n.from # "none"
        <5>1. n.from \in NodeIds /\ BoundIds(n, r) = AsIdList(r[n.from]) /\ Scoped(n)
          BY <1>2, <4>2 DEF BoundIds, Scoped
        <5>2. CASE n.crit = "skill" /\ n.from \in lost
          BY <5>2
        <5>3. CASE ~(n.crit = "skill" /\ n.from \in lost)
          <6>1. honoured
            BY <1>0, <2>1, <5>1, <5>3 DEF Honoured, Unscoped
          <6>2. kept \subseteq AsIdList(r[n.from])
            BY <5>1, <6>1
          <6> HIDE DEF kept, honoured
          <6>3. searched = m[n.from].all
            BY <4>2, <5>3
          <6>4. QED
            BY <1>5, <5>1, <6>2, <6>3
        <5>4. QED
          BY <5>2, <5>3
      <4>3. QED
        BY <4>1, <4>2
    <3>5. /\ Meets(n, m, lost).all = searched \cup (IF n.crit = "skill" THEN {} ELSE {n.crit})
          /\ Meets(n, m, lost).best = searched \cup {n.crit}
      BY <2>1 DEF Meets, SqlOps
    <3> HIDE DEF kept, searched, honoured, best
    <3>6. FromValue(Run(n, r)) = kept /\ Run(n, r).strong = best
      BY <3>1 DEF FromValue
    <3>7. \A c \in Meets(n, m, lost).all : kept \subseteq Has(c)
      BY <1>4, <3>2, <3>4, <3>5
    <3>8. \A c \in Meets(n, m, lost).best : best \subseteq Has(c)
      BY <1>4, <3>3, <3>4, <3>5
    <3>9. QED
      BY <3>6, <3>7, <3>8 DEF Meeting
  <2>2. CASE n.op = "extract"
    <3>1. Run(n, r) = Payload("list", Extract(r[n.from])) /\ n.from \in NodeIds
      BY <1>2, <1>3, <1>7, <2>2 DEF RunCases
    <3>2. Meets(n, m, lost) = Both(m[n.from].best)
      BY <2>2 DEF Meets, SqlOps
    <3>3. FromValue(Run(n, r)) = Extract(r[n.from]) /\ Run(n, r).kind = "list"
      BY <3>1 DEF FromValue, Payload
    <3>4. QED
      BY <1>5, <3>1, <3>2, <3>3 DEF Meeting, Both
  <2>3. CASE n.op = "intersect"
    <3> DEFINE ids == AsIdList(r[n.from]) \cap OtherIds(n, r)
               other == IF n.other = "prior" THEN {"prior"} ELSE m[n.other].all
    <3>1. Run(n, r) = Payload("list", ids) /\ n.from \in NodeIds
      BY <1>2, <1>3, <1>7, <2>3 DEF RunCases
    <3>2. Meets(n, m, lost) = Both(m[n.from].all \cup other)
      BY <2>3 DEF Meets, SqlOps
    <3>3. \A c \in other : OtherIds(n, r) \subseteq Has(c)
      BY <1>2, <1>4, <1>5, <2>3 DEF OtherIds
    <3>4. \A c \in m[n.from].all : AsIdList(r[n.from]) \subseteq Has(c)
      BY <1>5, <3>1
    <3>5. \A c \in m[n.from].all \cup other : ids \subseteq Has(c)
      BY <3>3, <3>4
    <3> HIDE DEF ids, other
    <3>6. FromValue(Run(n, r)) = ids /\ Run(n, r).kind = "list"
      BY <3>1 DEF FromValue, Payload
    <3>7. QED
      BY <3>2, <3>5, <3>6 DEF Meeting, Both
  <2>4. CASE n.op \in SqlOps
    <3> DEFINE ids == truth[n.crit] \cap SqlScope(BoundIds(n, r), Scoped(n))
               scope == IF n.from = "none" THEN IF n.prior THEN {"prior"} ELSE {}
                        ELSE m[n.from].all
    <3>1. Run(n, r) = Payload(n.op, ids)
      BY <1>3, <1>7, <2>4 DEF RunCases
    <3>2. Meets(n, m, lost) = Both(scope \cup {n.crit})
      BY <2>4 DEF Meets, SqlOps
    <3>3. \A c \in scope : SqlScope(BoundIds(n, r), Scoped(n)) \subseteq Has(c)
      <4>1. CASE n.from = "none"
        BY <1>4, <4>1 DEF SqlScope, Scoped, BoundIds
      <4>2. CASE n.from # "none"
        BY <1>2, <1>5, <4>2 DEF SqlScope, Scoped, BoundIds
      <4>3. QED
        BY <4>1, <4>2
    <3>4. \A c \in scope \cup {n.crit} : ids \subseteq Has(c)
      BY <1>4, <3>3
    <3> HIDE DEF ids, scope
    <3>5. FromValue(Run(n, r)) \subseteq ids /\ Run(n, r).strong = ids
      BY <3>1 DEF FromValue, Payload
    <3>6. QED
      BY <3>2, <3>4, <3>5 DEF Meeting, Both
  <2>5. CASE n.op = "reports"
    <3>1. Meets(n, m, lost) = Both({n.crit})
      BY <2>5 DEF Meets, SqlOps
    <3>2. \/ Run(n, r) = Payload("candidates", truth["name"])
          \/ Run(n, r) = Payload("reports", truth[n.crit])
      BY <1>3, <1>7, <2>5 DEF RunCases
    <3>3. QED
      BY <1>4, <3>1, <3>2 DEF Meeting, Both, Payload, FromValue
  <2>6. CASE n.op = "greeting"
    <3>1. Meets(n, m, lost) = Both({})
      BY <2>6 DEF Meets, SqlOps
    <3>2. QED
      BY <3>1 DEF Meeting, Both
  <2>7. n.op \in Ops \ {"person", "fact"}
    BY <1>1 DEF PlanNode
  <2>8. QED
    BY <2>1, <2>2, <2>3, <2>4, <2>5, <2>6, <2>7 DEF Ops, SqlOps
<1>8. QED
  BY <1>6, <1>7

LEMMA MeetsTyped ==
  ASSUME NEW p \in Plan, Closed(p), NEW i \in DOMAIN p.nodes,
         NEW m \in [Ids(p) -> ConditionSets], NEW lost
  PROVE  Meets(p.nodes[i], m, lost) \in ConditionSets
<1> DEFINE n == p.nodes[i]
<1> SUFFICES Meets(n, m, lost) \in ConditionSets
  OBVIOUS
<1>1. n \in PlanNode
  BY DEF Plan
<1>2. /\ n.from \in Ids(p) \cup {"none"} /\ n.other \in Ids(p) \cup {"none", "prior"}
      /\ n.op \in {"extract", "intersect"} => n.from \in Ids(p)
      /\ n.op = "intersect" /\ n.other # "prior" => n.other \in Ids(p)
  BY DEF Closed
<1> HIDE DEF n
<1>3. n.crit \in Criteria
  BY <1>1 DEF PlanNode
<1>4. \A id \in Ids(p) : /\ m[id].all \subseteq Criteria \cup {"prior"}
                         /\ m[id].best \subseteq Criteria \cup {"prior"}
  BY DEF ConditionSets
<1>5. CASE n.op = "search"
  BY <1>2, <1>3, <1>4, <1>5 DEF Meets, SqlOps, ConditionSets
<1>6. CASE n.op = "extract"
  BY <1>2, <1>4, <1>6 DEF Meets, SqlOps, ConditionSets, Both
<1>7. CASE n.op = "intersect"
  BY <1>2, <1>4, <1>7 DEF Meets, SqlOps, ConditionSets, Both
<1>8. CASE n.op \in SqlOps
  BY <1>2, <1>3, <1>4, <1>8 DEF Meets, SqlOps, ConditionSets, Both
<1>9. CASE n.op \in {"reports", "person", "fact", "greeting"}
  BY <1>3, <1>9 DEF Meets, SqlOps, ConditionSets, Both
<1>10. QED
  BY <1>1, <1>5, <1>6, <1>7, <1>8, <1>9 DEF PlanNode, Ops, SqlOps

LEMMA ResultsMeet ==
  ASSUME plan \in Plan, Closed(plan), before \in Memory, Chosen,
         CanPlan(plan, before), FindsPeople(plan), Linked(plan)
  PROVE  \A id \in NodeIds : Meeting(Results[id], Conditions(plan, Lost)[id])
<1>1. PICK after : ResultsAfter(after) /\ Results = after[Len(plan.nodes)]
  BY ResultsDefined
<1>2. PICK met : ConditionsAfter(plan, Lost, met) /\ Conditions(plan, Lost) = met[Len(plan.nodes)]
  BY ConditionsDefined
<1>3. Len(plan.nodes) \in Nat /\ DOMAIN plan.nodes = 1..Len(plan.nodes)
  BY DEF Plan
<1>4. \A k \in 0..Len(plan.nodes) : after[k] \in [NodeIds -> Payloads]
  BY <1>1, AfterTyped
<1> DEFINE S == {k \in Nat : k <= Len(plan.nodes) =>
                    /\ met[k] \in [NodeIds -> ConditionSets]
                    /\ \A id \in NodeIds : Meeting(after[k][id], met[k][id])}
<1>5. 0 \in S
  <2>1. after[0] = [id \in NodeIds |-> NoData]
    BY <1>1, <1>3 DEF ResultsAfter
  <2>2. met[0] = [id \in NodeIds |-> Both({})]
    BY <1>2, <1>3 DEF ConditionsAfter, NodeIds
  <2>3. Both({}) \in ConditionSets
    BY DEF Both, ConditionSets
  <2>4. QED
    BY <2>1, <2>2, <2>3, NoneMeeting
<1>6. ASSUME NEW k \in Nat, k \in S PROVE k + 1 \in S
  <2> DEFINE n == plan.nodes[k + 1]
  <2> SUFFICES ASSUME k + 1 <= Len(plan.nodes)
               PROVE  /\ met[k + 1] \in [NodeIds -> ConditionSets]
                      /\ \A id \in NodeIds : Meeting(after[k + 1][id], met[k + 1][id])
    OBVIOUS
  <2>1. k + 1 \in DOMAIN plan.nodes /\ k + 1 \in 0..Len(plan.nodes) /\ k + 1 # 0
        /\ (k + 1) - 1 = k /\ k <= Len(plan.nodes) /\ k \in 0..Len(plan.nodes)
    BY <1>3
  <2>2. after[k + 1] = [after[k] EXCEPT ![n.id] = Run(n, after[k])]
    BY <1>1, <2>1 DEF ResultsAfter
  <2>3. met[k + 1] = [met[k] EXCEPT ![n.id] = Meets(n, met[k], Lost)]
    BY <1>2, <2>1 DEF ConditionsAfter
  <2>4. after[k] \in [NodeIds -> Payloads] /\ met[k] \in [NodeIds -> ConditionSets]
        /\ \A id \in NodeIds : Meeting(after[k][id], met[k][id])
    BY <1>4, <1>6, <2>1
  <2>5. Meets(n, met[k], Lost) \in ConditionSets
    BY <2>1, <2>4, MeetsTyped DEF NodeIds
  <2>6. Unscoped(n, after[k], Lost)
    <3>1. SUFFICES ASSUME n.op = "search", n.crit = "skill", n.from \in NodeIds \ Lost
                   PROVE  AsIdList(after[k][n.from]) # {}
      BY DEF Unscoped
    <3>2. GenericScope(plan, n.from)
      BY <2>1, <3>1 DEF GenericScope, NodeIds
    <3>3. AsIdList(Results[n.from]) # {}
      BY <3>1, <3>2 DEF Lost
    <3>4. CASE n.from # "none"
      <4>1. Reads(plan, k + 1, n.from)
        BY <2>1, <3>4 DEF Linked
      <4>2. after[k][n.from] = Results[n.from]
        BY <1>1, <2>1, <4>1, ReadsFinal
      <4> HIDE DEF n
      <4>3. QED
        BY <3>3, <4>2
    <3>5. CASE n.from = "none"
      BY <3>1, <3>5 DEF Closed, NodeIds, Ids
    <3>6. QED
      BY <3>4, <3>5
  <2>7. Meeting(Run(n, after[k]), Meets(n, met[k], Lost))
    BY <2>1, <2>4, <2>6, RunMeets
  <2> HIDE DEF n
  <2>8. QED
    BY <2>2, <2>3, <2>4, <2>5, <2>7
<1> HIDE DEF S
<1>7. Len(plan.nodes) \in S
  BY <1>3, <1>5, <1>6, Induct
<1>8. QED
  BY <1>1, <1>2, <1>3, <1>7 DEF S

(* The ids that the active node of a sound plan publishes are of people    *)
(* the question is about, whatever fails.                                  *)
LEMMA ActiveIsMeant ==
  ASSUME plan \in Plan, Closed(plan), before \in Memory, Chosen,
         CanPlan(plan, before), FindsPeople(plan), Linked(plan), Covered(plan),
         RefusalCode(Results) \notin PreserveCodes
  PROVE  CohortIds(Results) \subseteq Meant
<1>1. /\ plan.active \in NodeIds
      /\ Meeting(Results[plan.active], Conditions(plan, Lost)[plan.active])
  BY ResultsMeet DEF FindsPeople, NodeIds
<1>2. CohortIds(Results) = FromValue(Results[plan.active])
  BY <1>1 DEF CohortIds
<1> DEFINE ids == FromValue(Results[plan.active])
           met == Conditions(plan, Lost)[plan.active].all
<1>3. \A c \in met : ids \subseteq Has(c)
  <2>1. plan.hint = "none"
    BY DEF RefusalCode, Plan, Hints, PreserveCodes
  <2>2. Results[plan.active].kind # "candidates"
    BY <1>1, <2>1 DEF RefusalCode, PreserveCodes
  <2>3. QED
    BY <1>1, <2>2 DEF Meeting
<1>4. ids \subseteq People
  <2>1. Results[plan.active] \in Payloads
    BY <1>1, ResultsTyped
  <2>2. QED
    BY <2>1 DEF Payloads, FromValue
<1>5. ASSUME NEW i \in DOMAIN plan.nodes, plan.nodes[i].op # "count",
             plan.nodes[i].id \notin Lost
      PROVE  /\ plan.nodes[i].crit \in met \cup {"all"}
             /\ plan.nodes[i].prior \/ plan.nodes[i].other = "prior" => "prior" \in met
  <2>1. Lost \in SUBSET {id \in Ids(plan) : GenericScope(plan, id)}
    BY DEF Lost, NodeIds
  <2>2. QED
    BY <1>5, <2>1 DEF Covered
<1> HIDE DEF ids, met
<1>6. ASSUME NEW n \in Asking
      PROVE  ids \subseteq truth[n.crit] /\ (n.prior \/ n.other = "prior" => ids \subseteq before.cohort)
  <2>1. PICK i \in DOMAIN plan.nodes : n = plan.nodes[i] /\ n.op # "count" /\ n.id \notin Lost
    BY DEF Asking
  <2>2. n.crit \in Criteria /\ n.crit \in Asked
    BY <2>1, AllAsked DEF PlanNode
  <2>3. /\ n.crit \in met \cup {"all"}
        /\ n.prior \/ n.other = "prior" => "prior" \in met
    BY <1>5, <2>1
  <2>4. CASE n.crit = "all"
    BY <1>3, <1>4, <2>2, <2>3, <2>4 DEF Chosen, Has
  <2>5. CASE n.crit # "all"
    BY <1>3, <2>2, <2>3, <2>5, OutcomeAssumption DEF Has
  <2>6. QED
    BY <2>4, <2>5
<1>7. QED
  BY <1>2, <1>4, <1>6 DEF Meant, ids

-----------------------------------------------------------------------------
(* When nothing fails, every node keeps everybody the question is about.   *)

Full(n, p) ==
    /\ p.kind = IF n.op \in {"extract", "intersect"} THEN "list"
                ELSE IF n.op = "greeting" THEN "answer" ELSE n.op
    /\ n.op \notin {"greeting", "count"} /\ n.id \notin Lost =>
          Meant \subseteq p.ids /\ Meant \subseteq p.strong

LEMMA MeantMeets ==
  ASSUME plan \in Plan, Chosen, NEW n \in Asking
  PROVE  /\ Meant \subseteq truth[n.crit]
         /\ n.prior \/ n.other = "prior" => Meant \subseteq before.cohort
BY DEF Meant

LEMMA RunIsFull ==
  ASSUME plan \in Plan, Closed(plan), Linked(plan), FindsPeople(plan), Chosen,
         NEW i \in DOMAIN plan.nodes, NEW r,
         outcome[plan.nodes[i].id] \notin Broken,
         \A id : Reads(plan, i, id) => r[id] = Results[id],
         \A j \in 1..(i - 1) : Full(plan.nodes[j], r[plan.nodes[j].id])
  PROVE  \/ Full(plan.nodes[i], Run(plan.nodes[i], r))
         \/ Run(plan.nodes[i], r).kind = "candidates"
<1> DEFINE n == plan.nodes[i]
<1> SUFFICES Full(n, Run(n, r)) \/ Run(n, r).kind = "candidates"
  OBVIOUS
<1>1. n \in PlanNode /\ n.op \notin {"person", "fact"} /\ truth[n.crit] \subseteq People
  BY AllAsked DEF FindsPeople, Chosen
<1>2. n.op # "count" /\ n.id \notin Lost =>
         /\ Meant \subseteq truth[n.crit]
         /\ n.prior \/ n.other = "prior" => Meant \subseteq before.cohort
  <2>1. n.op # "count" /\ n.id \notin Lost => n \in Asking
    BY DEF Asking
  <2>2. QED
    BY <2>1, MeantMeets
<1>3. outcome[n.id] \notin Broken
  OBVIOUS
<1>4. /\ n.op \in {"extract", "intersect"} => n.from # "none"
      /\ n.op = "intersect" /\ n.other # "prior" => n.other \notin {"none", "prior"}
  BY DEF Closed
<1>5. /\ n.from # "none" => Reads(plan, i, n.from)
      /\ n.other \notin {"none", "prior"} => Reads(plan, i, n.other)
      /\ ~(n.op = "search" /\ n.crit = "skill") => n.from \notin Lost
      /\ n.other \notin Lost
  BY DEF Linked, Lost
<1>6. ASSUME NEW id, Reads(plan, i, id), id \notin Lost
      PROVE  /\ n.op = "extract" => Meant \subseteq Extract(r[id])
             /\ n.op # "extract" => Meant \subseteq AsIdList(r[id])
  <2>1. PICK j \in 1..(i - 1) : plan.nodes[j].id = id /\ plan.nodes[j].op \in Readable(n.op)
    BY <1>6 DEF Reads
  <2>2. Full(plan.nodes[j], r[id])
    BY <2>1
  <2>3. CASE n.op = "extract"
    BY <1>6, <2>1, <2>2, <2>3 DEF Full, Readable, Extract
  <2>4. CASE n.op # "extract"
    BY <1>6, <2>1, <2>2, <2>4 DEF Full, Readable, AsIdList
  <2>5. QED
    BY <2>3, <2>4
<1>7. n.from # "none" /\ n.from \in Lost => AsIdList(r[n.from]) = {}
  BY <1>5 DEF Lost
<1> HIDE DEF n
<1>8. RunCases(n, r)
  BY RunOf
<1>9. n.op \notin {"extract", "count"} /\ n.id \notin Lost /\ Scoped(n)
         => \/ Meant \subseteq BoundIds(n, r)
            \/ n.op = "search" /\ n.crit = "skill" /\ BoundIds(n, r) = {}
  BY <1>2, <1>5, <1>6, <1>7 DEF Scoped, BoundIds
<1>10. CASE n.op = "search"
  <2>1. Run(n, r) = Search(n.crit, Hits(n), BoundIds(n, r), Scoped(n))
    BY <1>3, <1>8, <1>10 DEF RunCases
  <2>2. n.id \notin Lost => Meant \subseteq Hits(n)
    BY <1>2, <1>10 DEF Hits
  <2>3. n.id \notin Lost /\ n.crit = "skill" => weak \cap Meant = {}
    BY <1>2, <1>10 DEF Chosen
  <2>4. n.id \notin Lost /\ Honoured(n.crit, BoundIds(n, r), Scoped(n))
           => Meant \subseteq BoundIds(n, r)
    BY <1>9, <1>10 DEF Honoured
  <2>5. QED
    BY <1>10, <2>1, <2>2, <2>3, <2>4 DEF Search, Full
<1>11. CASE n.op = "extract"
  <2>1. Run(n, r) = Payload("list", Extract(r[n.from])) /\ Meant \subseteq Extract(r[n.from])
    BY <1>3, <1>4, <1>5, <1>6, <1>8, <1>11 DEF RunCases
  <2>2. QED
    BY <1>11, <2>1 DEF Payload, Full
<1>12. CASE n.op = "intersect"
  <2>1. Run(n, r) = Payload("list", AsIdList(r[n.from]) \cap OtherIds(n, r))
    BY <1>3, <1>8, <1>12 DEF RunCases
  <2>2. Meant \subseteq AsIdList(r[n.from])
    BY <1>4, <1>5, <1>6, <1>12
  <2>3. n.id \notin Lost => Meant \subseteq OtherIds(n, r)
    BY <1>2, <1>4, <1>5, <1>6, <1>12 DEF OtherIds
  <2>4. QED
    BY <1>12, <2>1, <2>2, <2>3 DEF Payload, Full
<1>13. CASE n.op \in SqlOps
  <2> DEFINE ids == truth[n.crit] \cap SqlScope(BoundIds(n, r), Scoped(n))
  <2>1. Run(n, r) = Payload(n.op, ids)
    BY <1>3, <1>8, <1>13 DEF RunCases
  <2>2. n.op # "count" /\ n.id \notin Lost => Meant \subseteq ids
    BY <1>1, <1>2, <1>9, <1>13 DEF SqlScope, SqlOps
  <2>3. n.op \notin {"extract", "intersect", "greeting"}
    BY <1>13 DEF SqlOps
  <2> HIDE DEF ids
  <2>4. QED
    BY <2>1, <2>2, <2>3 DEF Payload, Full
<1>14. CASE n.op = "reports"
  <2>1. \/ Run(n, r) = Payload("candidates", truth["name"])
        \/ Run(n, r) = Payload("reports", truth[n.crit])
    BY <1>3, <1>8, <1>14 DEF RunCases
  <2>2. QED
    BY <1>2, <1>14, <2>1 DEF Payload, Full
<1>15. CASE n.op = "greeting"
  BY <1>3, <1>8, <1>15 DEF RunCases, Payload, Full
<1>16. QED
  BY <1>1, <1>10, <1>11, <1>12, <1>13, <1>14, <1>15 DEF PlanNode, Ops, SqlOps

LEMMA ResultsFull ==
  ASSUME plan \in Plan, Closed(plan), Linked(plan), FindsPeople(plan), before \in Memory,
         Chosen, Failures = {}
  PROVE  \/ \E id \in NodeIds : Results[id].kind = "candidates"
         \/ \A i \in DOMAIN plan.nodes : Full(plan.nodes[i], Results[plan.nodes[i].id])
<1>1. PICK after : ResultsAfter(after) /\ Results = after[Len(plan.nodes)]
  BY ResultsDefined
<1>2. Len(plan.nodes) \in Nat /\ DOMAIN plan.nodes = 1..Len(plan.nodes)
  BY DEF Plan
<1>3. \A i \in DOMAIN plan.nodes : outcome[plan.nodes[i].id] \notin Broken
  BY AllAsked DEF Chosen, Endings, Failures, Broken
<1> DEFINE Named(k) == \E j \in 1..k : after[k][plan.nodes[j].id].kind = "candidates"
           Whole(k) == \A j \in 1..k : Full(plan.nodes[j], after[k][plan.nodes[j].id])
           S == {k \in Nat : k <= Len(plan.nodes) =>
                    DOMAIN after[k] = NodeIds /\ (Named(k) \/ Whole(k))}
<1>4. 0 \in S
  <2>1. after[0] = [id \in NodeIds |-> NoData]
    BY <1>1, <1>2 DEF ResultsAfter
  <2>2. QED
    BY <2>1
<1>5. ASSUME NEW k \in Nat, k \in S PROVE k + 1 \in S
  <2> DEFINE n == plan.nodes[k + 1]
             p == Run(n, after[k])
  <2> SUFFICES ASSUME k + 1 <= Len(plan.nodes)
               PROVE  DOMAIN after[k + 1] = NodeIds /\ (Named(k + 1) \/ Whole(k + 1))
    OBVIOUS
  <2>1. k + 1 \in DOMAIN plan.nodes /\ k + 1 \in 0..Len(plan.nodes) /\ k + 1 # 0
        /\ (k + 1) - 1 = k /\ k <= Len(plan.nodes)
    BY <1>2
  <2>2. after[k + 1] = [after[k] EXCEPT ![n.id] = p]
    BY <1>1, <2>1 DEF ResultsAfter
  <2>3. DOMAIN after[k] = NodeIds /\ (Named(k) \/ Whole(k))
    BY <1>5, <2>1
  <2>4. n.id \in NodeIds
    BY <2>1, AllAsked
  <2>5. Whole(k) => Full(n, p) \/ p.kind = "candidates"
    <3>1. \A id : Reads(plan, k + 1, id) => after[k][id] = Results[id]
      BY <1>1, <2>1, ReadsFinal
    <3>2. k = (k + 1) - 1 /\ outcome[n.id] \notin Broken
      BY <1>3, <2>1
    <3>3. QED
      BY <2>1, <3>1, <3>2, RunIsFull
  <2>6. after[k + 1][n.id] = p
    BY <2>2, <2>3, <2>4
  <2>7. \A id \in NodeIds : id # n.id => after[k + 1][id] = after[k][id]
    BY <2>2, <2>3
  <2>8. \A j \in 1..k : plan.nodes[j].id # n.id /\ plan.nodes[j].id \in NodeIds
    <3>1. \A j \in 1..k : j \in DOMAIN plan.nodes /\ j # k + 1
      BY <1>2, <2>1
    <3>2. QED
      BY <2>1, <3>1, AllAsked DEF Linked
  <2>9. DOMAIN after[k + 1] = NodeIds
    BY <2>2, <2>3
  <2> HIDE DEF p, n
  <2>10. CASE Whole(k)
    <3>1. CASE p.kind = "candidates"
      <4>1. k + 1 \in 1..(k + 1) /\ after[k + 1][plan.nodes[k + 1].id].kind = "candidates"
        BY <2>6, <3>1 DEF n
      <4>2. QED
        BY <2>9, <4>1
    <3>2. CASE Full(n, p)
      <4>1. ASSUME NEW j \in 1..(k + 1)
            PROVE  Full(plan.nodes[j], after[k + 1][plan.nodes[j].id])
        <5>1. CASE j = k + 1
          BY <2>6, <3>2, <5>1 DEF n
        <5>2. CASE j # k + 1
          <6>1. j \in 1..k
            BY <5>2
          <6>2. QED
            BY <2>7, <2>8, <2>10, <6>1
        <5>3. QED
          BY <5>1, <5>2
      <4>2. QED
        BY <2>9, <4>1
    <3>3. QED
      BY <2>5, <2>10, <3>1, <3>2
  <2>11. CASE Named(k)
    <3>1. PICK j \in 1..k : after[k][plan.nodes[j].id].kind = "candidates"
      BY <2>11
    <3>2. after[k + 1][plan.nodes[j].id].kind = "candidates" /\ j \in 1..(k + 1)
      BY <2>7, <2>8, <3>1
    <3>3. QED
      BY <2>9, <3>2
  <2>12. QED
    BY <2>3, <2>10, <2>11
<1> HIDE DEF S
<1>6. Len(plan.nodes) \in S
  BY <1>2, <1>4, <1>5, Induct
<1>7. \A j \in 1..Len(plan.nodes) : plan.nodes[j].id \in NodeIds
  BY <1>2, AllAsked
<1>8. QED
  BY <1>1, <1>2, <1>6, <1>7 DEF S

(* ... and the active node publishes all of them.                          *)
LEMMA MeantIsActive ==
  ASSUME plan \in Plan, Closed(plan), Linked(plan), Covered(plan), FindsPeople(plan),
         before \in Memory, Chosen, Failures = {}, RefusalCode(Results) = "ok"
  PROVE  Meant \subseteq CohortIds(Results)
<1>1. PICK i \in DOMAIN plan.nodes : plan.nodes[i].id = plan.active
  BY DEF FindsPeople, Ids
<1>2. plan.active \in NodeIds
  BY DEF FindsPeople, NodeIds
<1>3. ~ \E id \in NodeIds : Results[id].kind = "candidates"
  <2>1. plan.hint = "none"
    BY DEF RefusalCode, Plan, Hints
  <2>2. QED
    BY <2>1 DEF RefusalCode
<1>4. Full(plan.nodes[i], Results[plan.active])
  BY <1>1, <1>3, ResultsFull
<1>5. /\ plan.nodes[i].op \in Ops \ {"person", "fact", "count", "greeting"}
      /\ plan.nodes[i].id \notin Lost
  <2>1. {} \in SUBSET {id \in Ids(plan) : GenericScope(plan, id)}
    OBVIOUS
  <2>2. plan.nodes[i].op \notin {"count", "greeting"}
    BY <1>1, <2>1 DEF Covered
  <2>3. plan.nodes[i].id \notin Lost
    BY <1>1 DEF Linked, Lost
  <2>4. QED
    BY <2>2, <2>3, AllAsked DEF PlanNode, FindsPeople
<1>6. Meant \subseteq FromValue(Results[plan.active])
  BY <1>4, <1>5 DEF Full, FromValue, Ops, SqlOps
<1>7. QED
  BY <1>2, <1>6 DEF CohortIds

-----------------------------------------------------------------------------
(* The invariant. *)

LEMMA UniverseTyped ==
  ASSUME NEW m \in Memory, Focused(m), NEW p
  PROVE  AfterUniverse(m, p) \in Memory /\ Focused(AfterUniverse(m, p))
BY DEF AfterUniverse, Memory, Focused

LEMMA IdsTyped ==
  ASSUME plan \in Plan, Closed(plan), before \in Memory, Chosen
  PROVE  /\ CohortIds(Results) \subseteq People
         /\ Listed(Results) \subseteq People
         /\ Entities(Results) \subseteq People
<1>1. \A id \in NodeIds : Results[id] \in Payloads
  BY ResultsTyped
<1>2. \A id \in NodeIds : /\ Results[id].ids \subseteq People
                          /\ FromValue(Results[id]) \subseteq People
                          /\ NamesIn(Results[id]) \subseteq People
  BY <1>1 DEF Payloads, FromValue, NamesIn
<1>3. CohortIds(Results) \subseteq People
  <2>1. ASSUME NEW at \in SUBSET (DOMAIN plan.nodes) PROVE LastIds(Results, at) \subseteq People
    BY <1>2, AllAsked DEF LastIds
  <2>2. ASSUME plan.active \notin NodeIds, NEW x \in CohortIds(Results)
        PROVE  \E at \in SUBSET (DOMAIN plan.nodes) : x \in LastIds(Results, at)
    <3> DEFINE at(ops) == {i \in DOMAIN plan.nodes : plan.nodes[i].op \in ops}
               naming(ops) == {i \in at(ops) : FromValue(Results[plan.nodes[i].id]) # {}}
               found == << LastIds(Results, at({"intersect"})), LastIds(Results, at({"extract"})),
                           LastIds(Results, naming(SqlOps)),
                           LastIds(Results, naming({"search", "fact"})) >>
    <3>1. PICK k \in 1..4 : x \in found[k]
      BY <2>2 DEF CohortIds
    <3>2. \A ops : at(ops) \subseteq DOMAIN plan.nodes /\ naming(ops) \subseteq DOMAIN plan.nodes
      OBVIOUS
    <3> HIDE DEF at, naming
    <3>3. k \in {1, 2, 3, 4}
      BY <3>1
    <3>4. QED
      BY <3>1, <3>2, <3>3
  <2>3. CASE plan.active \in NodeIds
    BY <1>2, <2>3 DEF CohortIds
  <2>4. QED
    BY <2>1, <2>2, <2>3
<1>4. Listed(Results) \subseteq People
  <2>1. \A i \in DOMAIN plan.nodes : plan.nodes[i].id \in NodeIds
    BY AllAsked
  <2> DEFINE names == [i \in DOMAIN plan.nodes |-> NamesIn(Results[plan.nodes[i].id])]
  <2>2. \A i \in DOMAIN names : names[i] \subseteq People
    BY <1>2, <2>1
  <2>3. \A x \in Listed(Results) : \E i \in DOMAIN names : x \in names[i]
    BY ZenonT(60) DEF Listed
  <2> HIDE DEF names
  <2>4. QED
    BY <2>2, <2>3
<1>5. Entities(Results) \subseteq People
  BY <1>2 DEF Entities
<1>6. QED
  BY <1>3, <1>4, <1>5

LEMMA CommittedTyped ==
  ASSUME plan \in Plan, Closed(plan), before \in Memory, Focused(before), Chosen,
         NEW m \in Memory, Focused(m), NEW c
  PROVE  Committed(m, c, Results) \in Memory /\ Focused(Committed(m, c, Results))
<1> DEFINE n == CohortPart(m, c, CohortIds(Results))
<1>1. n \in Memory /\ Focused(n)
  BY IdsTyped DEF CohortPart, Memory, Focused
<1>2. BoundPerson \subseteq People
      /\ (BoundPerson = {} \/ Cardinality(BoundPerson) = 1)
  BY DEF BoundPerson, Memory, Focused
<1> HIDE DEF n
<1>3. PersonPart(n, Results) \in Memory
  BY <1>1, <1>2, IdsTyped DEF PersonPart, Memory
<1>4. Focused(PersonPart(n, Results))
  BY <1>1, <1>2 DEF PersonPart, Memory, Focused
<1>5. QED
  BY <1>3, <1>4 DEF Committed, n

LEMMA InitIInv == Init => IInv
<1>1. Cardinality({}) = 0
  BY FS_EmptySet
<1>2. QED
  BY <1>1 DEF Init, IInv, Nobody, Memory, Focused

LEMMA SameResults ==
  ASSUME UNCHANGED <<plan, before, truth, weak, outcome>>
  PROVE  /\ Results' = Results
         /\ \A c, m : Committed(m, c, Results)' = Committed(m, c, Results)
         /\ RefusalCode(Results)' = RefusalCode(Results)
         /\ Chosen' = Chosen
<1>1. NodeIds' = NodeIds
  BY DEF NodeIds
<1>2. Results' = Results
  BY <1>1 DEF Results, Run, Search
<1>3. RefusalCode(Results)' = RefusalCode(Results)
  BY <1>1, <1>2 DEF RefusalCode, Ended, Failures, MissingAnswer
<1>4. CohortIds(Results)' = CohortIds(Results) /\ KeepsIds' = KeepsIds
  BY <1>1, <1>2 DEF CohortIds, LastIds, KeepsIds, Some
<1>5. Listed(Results)' = Listed(Results)
  BY <1>2 DEF Listed, NamesIn, Rank, Some
<1>6. Entities(Results)' = Entities(Results) /\ BoundPerson' = BoundPerson
  BY <1>1, <1>2 DEF Entities, BoundPerson, Some
<1>7. ASSUME NEW c, NEW m PROVE Committed(m, c, Results)' = Committed(m, c, Results)
  BY <1>1, <1>4, <1>5, <1>6 DEF Committed, PersonPart, CohortPart
<1>8. Chosen' = Chosen
  BY <1>1 DEF Chosen, Asked, Endings, Some
<1>9. QED
  BY <1>2, <1>3, <1>7, <1>8

LEMMA AskIInv ==
  ASSUME IInv, NEW p \in Plans, NEW shift \in BOOLEAN, Ask(p, shift)
  PROVE  IInv'
<1>1. AfterShift(shift) \in Memory /\ Focused(AfterShift(shift))
  <2>1. Nobody \in Memory /\ Focused(Nobody)
    BY FS_EmptySet DEF Nobody, Memory, Focused
  <2>2. QED
    BY <2>1 DEF AfterShift, IInv
<1>2. before' \in Memory /\ Focused(before)' /\ memory' \in Memory /\ Focused(memory)'
  BY <1>1, UniverseTyped DEF Ask, Focused
<1>3. CanPlan(plan, before)' /\ (memory = AfterUniverse(before, plan))'
  BY DEF Ask, CanPlan, AfterUniverse
<1>4. plan' \in Plans /\ phase' = "planned"
  BY DEF Ask
<1>5. QED
  BY <1>2, <1>3, <1>4 DEF IInv, Memory

LEMMA ExecuteIInv ==
  ASSUME IInv, Execute
  PROVE  IInv'
<1>1. /\ memory' = memory /\ before' = before /\ plan' = plan
      /\ phase = "planned" /\ phase' = "executed"
  BY DEF Execute
<1>2. NodeIds' = NodeIds /\ Asked' = Asked /\ Endings' = Endings
  BY <1>1 DEF NodeIds, Asked, Endings, Some
<1>3. truth' \in [Asked -> SUBSET People] /\ ("all" \in Asked => truth'["all"] = People)
  BY DEF Execute
<1>4. weak' \subseteq People /\ (weak' = {} \/ ("skill" \in Asked /\ weak' \cap truth'["skill"] = {}))
  BY <1>3 DEF Execute
<1>5. outcome' \in Endings
  BY DEF Execute
<1>6. Chosen'
  BY <1>2, <1>3, <1>4, <1>5 DEF Chosen
<1>7. (memory \in Memory /\ Focused(memory) /\ before \in Memory /\ Focused(before))'
  BY <1>1 DEF IInv, Memory, Focused
<1>8. (plan \in Plans /\ CanPlan(plan, before) /\ memory = AfterUniverse(before, plan))'
  BY <1>1 DEF IInv, CanPlan, AfterUniverse
<1>9. QED
  BY <1>1, <1>6, <1>7, <1>8 DEF IInv

LEMMA CommitIInv ==
  ASSUME IInv, Commit
  PROVE  IInv'
<1>1. /\ UNCHANGED <<plan, before, truth, weak, outcome>>
      /\ code' = RefusalCode(Results)
      /\ memory' = Committed(memory, RefusalCode(Results), Results)
      /\ phase = "executed" /\ phase' = "answered"
  BY DEF Commit
<1>2. plan \in Plan /\ Closed(plan)
  BY <1>1, OutcomeAssumption DEF IInv
<1>3. (memory \in Memory /\ Focused(memory))'
  BY <1>1, <1>2, CommittedTyped DEF IInv, Memory, Focused
<1>4. memory = AfterUniverse(before, plan)
  BY <1>1 DEF IInv
<1>5. code' = RefusalCode(Results)'
  BY <1>1, SameResults
<1>6. Committed(AfterUniverse(before, plan), code, Results)'
         = Committed(AfterUniverse(before, plan), code', Results)
  BY <1>1, SameResults DEF AfterUniverse
<1>7. Settled'
  BY <1>1, <1>4, <1>5, <1>6 DEF Settled
<1>8. (before \in Memory /\ Focused(before) /\ plan \in Plans /\ CanPlan(plan, before))'
  BY <1>1 DEF IInv, Memory, Focused, CanPlan
<1>9. Chosen'
  BY <1>1, SameResults DEF IInv
<1>10. QED
  BY <1>1, <1>3, <1>7, <1>8, <1>9 DEF IInv

LEMMA StutterIInv ==
  ASSUME IInv, UNCHANGED vars
  PROVE  IInv'
<1>1. UNCHANGED <<memory, phase, plan, before, truth, weak, outcome, code>>
  BY DEF vars
<1>2. Committed(AfterUniverse(before, plan), code, Results)'
         = Committed(AfterUniverse(before, plan), code, Results)
  BY <1>1, SameResults DEF AfterUniverse
<1>3. Settled' = Settled /\ Chosen' = Chosen
  BY <1>1, <1>2, SameResults DEF Settled
<1>4. QED
  BY <1>1, <1>3 DEF IInv, Memory, Focused, CanPlan, AfterUniverse

(* In every reachable state memory is what the phase of the turn says.     *)
THEOREM Invariance == Spec => []IInv
<1>1. ASSUME IInv, [Next]_vars PROVE IInv'
  <2>1. CASE Execute
    BY <1>1, <2>1, ExecuteIInv
  <2>2. CASE Commit
    BY <1>1, <2>2, CommitIInv
  <2>3. CASE \E p \in Plans, shift \in BOOLEAN : Ask(p, shift)
    BY <1>1, <2>3, AskIInv
  <2>4. CASE UNCHANGED vars
    BY <1>1, <2>4, StutterIInv
  <2>5. QED
    BY <1>1, <2>1, <2>2, <2>3, <2>4 DEF Next
<1>2. QED
  BY InitIInv, <1>1, PTL DEF Spec

-----------------------------------------------------------------------------
LEMMA CommittedCohort ==
  ASSUME NEW m \in Memory, NEW c, NEW r
  PROVE  /\ c \in PreserveCodes => Committed(m, c, r).cohort = m.cohort
         /\ c \notin PreserveCodes /\ plan.active \in NodeIds =>
               Committed(m, c, r).cohort = IF KeepsIds \/ CohortIds(r) = {}
                                           THEN CohortIds(r) ELSE m.cohort
<1> DEFINE n == CohortPart(m, c, CohortIds(r))
<1>1. DOMAIN n = {"cohort", "referent", "listed", "he"}
  BY DEF CohortPart, Memory
<1>2. /\ c \in PreserveCodes => n.cohort = m.cohort
      /\ c \notin PreserveCodes /\ plan.active \in NodeIds =>
            n.cohort = IF KeepsIds \/ CohortIds(r) = {} THEN CohortIds(r) ELSE m.cohort
  BY DEF CohortPart, Memory
<1> HIDE DEF n
<1>3. PersonPart(n, r).cohort = n.cohort
  BY <1>1 DEF PersonPart
<1>4. QED
  BY <1>2, <1>3 DEF Committed, n

LEMMA AnsweredState ==
  ASSUME IInv, Answered
  PROVE  /\ plan \in Plans /\ plan \in Plan /\ Closed(plan) /\ CanPlan(plan, before)
         /\ before \in Memory /\ Chosen /\ code = RefusalCode(Results)
         /\ AfterUniverse(before, plan) \in Memory
         /\ memory = Committed(AfterUniverse(before, plan), code, Results)
BY OutcomeAssumption, UniverseTyped DEF IInv, Answered, Settled

(* However the turns go, "them" is what the last referent is about, or one *)
(* person is (commit keeps cohort and referent together).                  *)
THEOREM ReferentFollows == Spec => []ReferentIsCurrent
<1>1. IInv => ReferentIsCurrent
  BY DEF IInv, Focused, ReferentIsCurrent
<1>2. QED
  BY <1>1, Invariance, PTL

(* A payload in which nobody is found. *)
Blank(p) ==
    \/ p.kind \in {"none", "candidates"}
    \/ /\ p.kind \in {"search", "list", "rows", "idrows", "generated", "reports"}
       /\ p.ids = {} /\ p.strong = {}

(* Nodes that found nobody publish nobody, whatever reads them.            *)
LEMMA RunIsBlank ==
  ASSUME plan \in Plan, Closed(plan), Chosen, NEW i \in DOMAIN plan.nodes,
         FoundNobody(plan.nodes[i]), NEW r, \A id \in NodeIds : Blank(r[id])
  PROVE  Blank(Run(plan.nodes[i], r))
<1> DEFINE n == plan.nodes[i]
<1> SUFFICES Blank(Run(n, r))
  OBVIOUS
<1>1. FoundNobody(n) /\ (n.op \in {"extract", "intersect"} => n.from \in NodeIds)
  BY DEF Closed, NodeIds
<1> HIDE DEF n
<1>2. RunCases(n, r)
  BY RunOf
<1>3. \A id \in NodeIds : AsIdList(r[id]) = {} /\ Extract(r[id]) = {}
  BY DEF Blank, AsIdList, Extract
<1>4. CASE outcome[n.id] \in Broken
  BY <1>2, <1>4 DEF RunCases, Broken, NoData, Payload, Blank
<1>5. CASE outcome[n.id] \notin Broken
  <2>1. CASE n.op = "extract"
    BY <1>1, <1>2, <1>3, <1>5, <2>1 DEF RunCases, Payload, Blank
  <2>2. CASE n.op = "intersect"
    <3>1. Run(n, r) = Payload("list", {})
      BY <1>1, <1>2, <1>3, <1>5, <2>2 DEF RunCases
    <3>2. QED
      BY <3>1 DEF Payload, Blank
  <2>3. CASE n.op = "search"
    <3>1. Hits(n) = {}
      BY <1>1, <1>5, <2>3 DEF FoundNobody, Broken, Hits
    <3>2. Run(n, r) = Search(n.crit, {}, BoundIds(n, r), Scoped(n))
      BY <1>2, <1>5, <2>3, <3>1 DEF RunCases
    <3>3. QED
      BY <3>2 DEF Search, Blank
  <2>4. CASE n.op \in {"rows", "idrows", "generated"}
    <3>1. truth[n.crit] = {}
      BY <1>1, <1>5, <2>4 DEF FoundNobody, Broken
    <3>2. Run(n, r) = Payload(n.op, {})
      BY <1>2, <1>5, <2>4, <3>1 DEF RunCases, SqlOps
    <3>3. QED
      BY <2>4, <3>2 DEF Payload, Blank
  <2>5. CASE n.op = "reports"
    <3>1. truth[n.crit] = {}
      BY <1>1, <1>5, <2>5 DEF FoundNobody, Broken
    <3>2. \/ Run(n, r) = Payload("candidates", truth["name"])
          \/ Run(n, r) = Payload("reports", {})
      BY <1>2, <1>5, <2>5, <3>1 DEF RunCases
    <3>3. QED
      BY <3>2 DEF Payload, Blank
  <2>6. QED
    BY <1>1, <1>5, <2>1, <2>2, <2>3, <2>4, <2>5 DEF FoundNobody, Broken
<1>6. QED
  BY <1>4, <1>5

LEMMA ResultsBlank ==
  ASSUME plan \in Plan, Closed(plan), Chosen,
         \A i \in DOMAIN plan.nodes : FoundNobody(plan.nodes[i])
  PROVE  \A id \in NodeIds : Blank(Results[id])
<1>1. PICK after : ResultsAfter(after) /\ Results = after[Len(plan.nodes)]
  BY ResultsDefined
<1>2. Len(plan.nodes) \in Nat /\ DOMAIN plan.nodes = 1..Len(plan.nodes)
  BY DEF Plan
<1> DEFINE S == {k \in Nat : k <= Len(plan.nodes) =>
                    DOMAIN after[k] = NodeIds /\ \A id \in NodeIds : Blank(after[k][id])}
<1>3. 0 \in S
  <2>1. after[0] = [id \in NodeIds |-> NoData]
    BY <1>1, <1>2 DEF ResultsAfter
  <2>2. Blank(NoData)
    BY DEF NoData, Payload, Blank
  <2>3. QED
    BY <2>1, <2>2
<1>4. ASSUME NEW k \in Nat, k \in S PROVE k + 1 \in S
  <2>1. SUFFICES ASSUME k + 1 <= Len(plan.nodes)
                 PROVE  /\ DOMAIN after[k + 1] = NodeIds
                        /\ \A id \in NodeIds : Blank(after[k + 1][id])
    OBVIOUS
  <2>2. k + 1 \in DOMAIN plan.nodes /\ k + 1 \in 0..Len(plan.nodes) /\ k + 1 # 0
        /\ (k + 1) - 1 = k /\ k <= Len(plan.nodes)
    BY <1>2, <2>1
  <2>3. after[k + 1] = [after[k] EXCEPT ![plan.nodes[k + 1].id] =
                           Run(plan.nodes[k + 1], after[k])]
    BY <1>1, <2>2 DEF ResultsAfter
  <2>4. DOMAIN after[k] = NodeIds /\ \A id \in NodeIds : Blank(after[k][id])
    BY <1>4, <2>2
  <2>5. Blank(Run(plan.nodes[k + 1], after[k]))
    BY <2>2, <2>4, RunIsBlank
  <2>6. QED
    BY <2>3, <2>4, <2>5
<1> HIDE DEF S
<1>5. Len(plan.nodes) \in S
  BY <1>2, <1>3, <1>4, Induct
<1>6. QED
  BY <1>1, <1>2, <1>5 DEF S

(* Whatever the plan, a turn in which something broke and nobody was found *)
(* is a refusal (resolve_refusal), and leaves "them" as its question did.  *)
THEOREM OutagesKeepCohort == Spec => []OutageKeepsCohort
<1>1. ASSUME IInv PROVE OutageKeepsCohort
  <2>1. SUFFICES ASSUME Answered, Failures # {},
                        \A i \in DOMAIN plan.nodes : FoundNobody(plan.nodes[i])
                 PROVE  memory.cohort = AfterUniverse(before, plan).cohort
    BY DEF OutageKeepsCohort
  <2>2. \A id \in NodeIds : Blank(Results[id])
    BY <1>1, <2>1, AnsweredState, ResultsBlank
  <2>3. \A id \in NodeIds : Results[id].kind = "candidates" \/ ~HasEvidence(Results[id])
    BY <2>2 DEF Blank, HasEvidence
  <2>4. plan.hint \in Hints
    BY <1>1, <2>1, AnsweredState DEF Plan
  <2>5. RefusalCode(Results) \in PreserveCodes
    BY <2>1, <2>3, <2>4 DEF RefusalCode, Hints, PreserveCodes
  <2>6. QED
    BY <1>1, <2>1, <2>5, AnsweredState, CommittedCohort
<1>2. QED
  BY <1>1, Invariance, PTL

(* Failed, caught or timed-out nodes never widen "them": if the plans are  *)
(* sound, nobody enters the cohort whom the question excludes, but by the  *)
(* scope that a generic search lost (run_node, tool.py).                   *)
THEOREM NeverWidened ==
  ASSUME SoundPlans
  PROVE  Spec => []NeverOrgWide
<1>1. ASSUME IInv PROVE NeverOrgWide
  <2>1. SUFFICES ASSUME Answered, plan.active \in NodeIds,
                        ~Some(LAMBDA n : n.op \in {"person", "fact"})
                 PROVE  memory.cohort \subseteq Meant \cup before.cohort
    BY DEF NeverOrgWide
  <2>2. FindsPeople(plan)
    BY <2>1 DEF FindsPeople, NodeIds, Some
  <2>3. code \notin PreserveCodes => CohortIds(Results) \subseteq Meant
    BY <1>1, <2>1, <2>2, AnsweredState, ActiveIsMeant DEF SoundPlans
  <2>4. AfterUniverse(before, plan).cohort \subseteq before.cohort
    BY <1>1, <2>1, AnsweredState DEF AfterUniverse, Memory
  <2>5. CASE code \in PreserveCodes
    BY <1>1, <2>1, <2>4, <2>5, AnsweredState, CommittedCohort
  <2>6. CASE code \notin PreserveCodes
    BY <1>1, <2>1, <2>3, <2>4, <2>6, AnsweredState, CommittedCohort
  <2>7. QED
    BY <2>5, <2>6
<1>2. QED
  BY <1>1, Invariance, PTL

(* When nothing fails, the cohort is exactly the people the question is    *)
(* about: the weak hits, the wider retrievals and the previous cohort are  *)
(* gone, unless cohort.py takes the answer for one about the company.      *)
THEOREM CohortIsExact ==
  ASSUME SoundPlans
  PROVE  Spec => []CohortIsAnswer
<1>1. ASSUME IInv PROVE CohortIsAnswer
  <2>1. SUFFICES ASSUME Answered, code = "ok", Failures = {}, plan.active \in NodeIds,
                        ~Some(LAMBDA n : n.op \in {"person", "fact"})
                 PROVE  memory.cohort = IF KeepsIds \/ Meant = {} THEN Meant
                                        ELSE AfterUniverse(before, plan).cohort
    BY DEF CohortIsAnswer
  <2>2. FindsPeople(plan)
    BY <2>1 DEF FindsPeople, NodeIds, Some
  <2>3. CohortIds(Results) \subseteq Meant
    BY <1>1, <2>1, <2>2, AnsweredState, ActiveIsMeant DEF SoundPlans, PreserveCodes
  <2>4. Meant \subseteq CohortIds(Results)
    BY <1>1, <2>1, <2>2, AnsweredState, MeantIsActive DEF SoundPlans
  <2>5. code \notin PreserveCodes
    BY <2>1 DEF PreserveCodes
  <2>6. memory.cohort = IF KeepsIds \/ CohortIds(Results) = {} THEN CohortIds(Results)
                        ELSE AfterUniverse(before, plan).cohort
    BY <1>1, <2>1, <2>5, AnsweredState, CommittedCohort
  <2>7. CohortIds(Results) = Meant
    BY <2>3, <2>4
  <2>8. QED
    BY <2>6, <2>7
<1>2. QED
  BY <1>1, Invariance, PTL
=============================================================================
