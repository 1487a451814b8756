----------------------------- MODULE TurnOutcome -----------------------------
(***************************************************************************)
(* What one chat session remembers across turns: ChatService.handle from   *)
(* prepare_turn to ContextManager.commit, with resolve_refusal between.    *)
(* A turn runs a plan over the employees; some nodes fail; what is         *)
(* published decides the refusal code, and the code what is remembered.    *)
(*                                                                         *)
(* The executor appears as the function from node outcomes to node         *)
(* results that PlanExecution justifies: every node reads the published    *)
(* results of its dependencies.  Ids are sets: the orders and caps of the  *)
(* lists are left out.                                                     *)
(***************************************************************************)
EXTENDS Naturals, FiniteSets, Sequences, TLC

CONSTANTS People,     \* employees
          Criteria,   \* conditions a question can put on an employee
          Plans       \* plan shapes the planner tiers emit

(* A plan node.  `from` and `other` name the nodes its bindings read;      *)
(* `prior` passes the session's cohort as a literal id list, `bound` the   *)
(* person the pronouns stand for; `crit` is the condition it evaluates:    *)
(* "skill" is searched by likeness, "place" and other attributes from the  *)
(* sections of the resumes; "filter" is a department, a position or a date *)
(* of hire.  A generated statement (nl2sql) takes no scope.                *)
SqlOps == {"rows", "idrows", "count", "generated"}
Ops == SqlOps \cup {"search", "extract", "intersect", "person", "reports", "fact",
                    "greeting"}

PlanNode == [id: STRING, op: Ops, crit: Criteria, from: STRING, other: STRING,
             prior: BOOLEAN, bound: BOOLEAN]

(* A plan: `active` is active_cohort_node, `hint` the refusal_code that    *)
(* resolve_refusal looks for; `universe` says that the question is an      *)
(* org-wide count, `howMany` that it has the words "how many employees".   *)
Hints == {"none", "out_of_scope", "unauthorized", "ambiguous"}
Plan == [nodes: Seq(PlanNode), active: STRING, hint: Hints, universe: BOOLEAN,
         howMany: BOOLEAN]

Ids(p) == {p.nodes[i].id : i \in DOMAIN p.nodes}

(* Every binding names a node of the plan, and those that must bind do.    *)
Closed(p) ==
    \A i \in DOMAIN p.nodes :
        LET n == p.nodes[i]
        IN  /\ n.id \notin {"none", "prior"}
            /\ n.from \in Ids(p) \cup {"none"} /\ n.other \in Ids(p) \cup {"none", "prior"}
            /\ n.op \in {"extract", "intersect"} \/ (n.op = "fact" /\ ~n.bound) =>
                   n.from # "none"
            /\ n.op = "intersect" => n.other # "none"
            /\ n.op = "generated" => n.from = "none" /\ ~n.prior

ASSUME OutcomeAssumption ==
    /\ "all" \in Criteria /\ "prior" \notin Criteria
    /\ Plans \subseteq Plan /\ \A p \in Plans : Closed(p)

VARIABLES memory, phase, plan,
          before,    \* memory that the plan was made from
          truth,     \* the employees that meet each criterion of the plan
          weak,      \* further search hits, below the operator's min_score
          outcome,   \* how each node ended
          code       \* refusal code of the turn

vars == <<memory, phase, plan, before, truth, weak, outcome, code>>

PreserveCodes == {"out_of_scope", "unauthorized", "ambiguous", "tool_error",
                  "missing_data"}

NoPlan == [nodes |-> <<>>, active |-> "none", hint |-> "none", universe |-> FALSE,
           howMany |-> FALSE]

Nobody == [cohort |-> {}, referent |-> {}, listed |-> {}, he |-> {}]

NodeIds == Ids(plan)
NodeOf(id) == plan.nodes[CHOOSE i \in DOMAIN plan.nodes : plan.nodes[i].id = id]
Some(P(_)) == \E i \in DOMAIN plan.nodes : P(plan.nodes[i])

(* The ends that each kind of node can have.  "failed" raises, times out   *)
(* or meets an open circuit; "caught" is resume_search's own except        *)
(* clause; "unsure" an inexact name; "stripped" a salary withheld from the *)
(* profile; "missing" a fact the resume lacks; "denied" a ForbiddenError.  *)
Outcomes(op) ==
    CASE op = "search"                      -> {"ok", "caught", "failed"}
      [] op = "fact"                        -> {"ok", "missing", "caught", "failed"}
      [] op \in SqlOps                      -> {"ok", "failed"}
      [] op = "person"        -> {"ok", "unsure", "stripped", "denied", "failed"}
      [] op = "reports"                     -> {"ok", "unsure", "denied", "failed"}
      [] OTHER                              -> {"ok"}

-----------------------------------------------------------------------------
(* Payloads.  `strong` are the ids of `ids` whose best score passes        *)
(* min_score; a count carries the set it counted, which nobody can read.   *)
Payload(kind, ids) == [kind |-> kind, ids |-> ids, strong |-> ids]
NoData == Payload("none", {})

(* node_runner._as_id_list of a bound payload: sql rows have no ids.       *)
AsIdList(p) ==
    IF p.kind \in {"list", "search", "fact", "reports", "person"} THEN p.ids ELSE {}

(* Mutant of Extract: no min_score. *)
ExtractUnscored(p) == p.ids

(* ExtractEmployeeIds.run. *)
Extract(p) ==
    IF p.kind \in {"search", "fact", "rows", "idrows", "generated", "reports"}
    THEN p.strong ELSE {}

(* resume_search.  An empty scope is nobody's where an attribute is asked  *)
(* for (_attribute_cohort), but the generic search takes it for none.      *)
Honoured(crit, scope, scoped) == scoped /\ (crit # "skill" \/ scope # {})
Search(crit, hits, scope, scoped) ==
    LET kept == IF Honoured(crit, scope, scoped) THEN hits \cap scope ELSE hits IN
    [kind |-> "search", ids |-> kept,
     strong |-> IF crit = "skill" THEN kept \ weak ELSE kept]

(* Mutant of SqlScope: an empty binding is taken for no binding. *)
SqlScopeOrAll(scope, scoped) == IF scoped /\ scope # {} THEN scope ELSE People

(* QueryBuilder: an empty id list is AND 1=0, a missing one no condition.  *)
SqlScope(scope, scoped) == IF scoped THEN scope ELSE People

(* EmployeeTool._resolve_by_name of the people whose names match. *)
ByName(matches, exact) ==
    IF matches = {} THEN Payload("nobody", {})
    ELSE IF exact /\ Cardinality(matches) = 1 THEN Payload("person", matches)
    ELSE Payload("candidates", matches)

(* run_node of node n, given the results r of the nodes before it. *)
Run(n, r) ==
    LET end == outcome[n.id]
        bound == IF n.from # "none" THEN AsIdList(r[n.from]) ELSE before.cohort
        scoped == n.from # "none" \/ n.prior
        found == truth[n.crit] \cap SqlScope(bound, scoped)
        other == IF n.other = "prior" THEN before.cohort ELSE AsIdList(r[n.other])
    IN IF end \in {"failed", "denied"} THEN NoData
       ELSE IF end = "caught" THEN Payload("search", {})
       ELSE CASE n.op = "search"     ->
                     Search(n.crit, IF n.crit = "skill" THEN truth[n.crit] \cup weak
                                    ELSE truth[n.crit], bound, scoped)
              [] n.op = "extract"    -> Payload("list", Extract(r[n.from]))
              [] n.op = "intersect"  -> Payload("list", AsIdList(r[n.from]) \cap other)
              [] n.op \in SqlOps     -> Payload(n.op, found)
              [] n.op = "reports"    ->
                     IF end = "unsure" THEN Payload("candidates", truth["name"])
                     ELSE Payload("reports", truth[n.crit])
              [] n.op = "person"     ->
                     IF n.bound THEN Payload("person", before.he)
                     ELSE ByName(truth[n.crit], end # "unsure")
              [] n.op = "fact"       ->
                     Payload("fact", IF n.bound THEN before.he ELSE AsIdList(r[n.from]))
              [] n.op = "greeting"   -> Payload("answer", {})

(* state.node_results: the nodes of a plan come after their dependencies. *)
Results ==
    LET after[i \in 0..Len(plan.nodes)] ==
            IF i = 0 THEN [id \in NodeIds |-> NoData]
            ELSE [after[i - 1] EXCEPT ![plan.nodes[i].id] =
                     Run(plan.nodes[i], after[i - 1])]
    IN after[Len(plan.nodes)]

-----------------------------------------------------------------------------
(* resolve_refusal. *)
Failures == {id \in DOMAIN outcome : outcome[id] \in {"caught", "failed", "denied"}}
Ended(s) == \E id \in DOMAIN outcome : outcome[id] = s

(* Mutant of HasEvidence: an empty list of rows or ids is evidence too. *)
HasEvidenceEmpty(p) == p.kind \notin {"none", "person", "nobody"}

(* _payload_has_evidence: a profile has none of the keys it looks for. *)
HasEvidence(p) ==
    \/ p.kind \in {"count", "candidates", "fact", "answer"}
    \/ p.kind \in {"search", "list", "rows", "idrows", "generated", "reports"}
          /\ p.ids # {}

(* A fact about nobody is answered with "couldn't find". *)
MissingAnswer(p) == p.kind = "fact" /\ (p.ids = {} \/ Ended("missing"))

RefusalCode(r) ==
    IF plan.hint # "none" THEN plan.hint
    ELSE IF \E id \in NodeIds : r[id].kind = "candidates" THEN "ambiguous"
    ELSE IF Ended("denied") \/ Ended("stripped") THEN "unauthorized"
    ELSE IF Failures # {} /\ \A id \in NodeIds : ~HasEvidence(r[id]) THEN "tool_error"
    ELSE IF \E id \in NodeIds : MissingAnswer(r[id]) THEN "missing_data"
    ELSE "ok"

-----------------------------------------------------------------------------
(* ContextManager.commit. *)

(* result_ids._from_value: every id the payload carries. *)
FromValue(p) ==
    IF p.kind \in {"search", "list", "rows", "idrows", "generated", "reports", "person",
                   "fact", "candidates"}
    THEN p.ids ELSE {}

(* The ids of the last node of the indices `at`. *)
LastIds(r, at) ==
    UNION {FromValue(r[plan.nodes[i].id]) : i \in {i \in at : \A j \in at : j <= i}}

(* extract_cohort_ids: the active node when it ran, else the first of four *)
(* kinds of nodes whose last one names anybody: intersections, extractions *)
(* and, passing over those that name nobody, statements and searches.      *)
CohortIds(r) ==
    LET at(ops) == {i \in DOMAIN plan.nodes : plan.nodes[i].op \in ops}
        naming(ops) == {i \in at(ops) : FromValue(r[plan.nodes[i].id]) # {}}
        found == << LastIds(r, at({"intersect"})), LastIds(r, at({"extract"})),
                    LastIds(r, naming(SqlOps)), LastIds(r, naming({"search", "fact"})) >>
    IN IF plan.active \in NodeIds THEN FromValue(r[plan.active])
       ELSE UNION {found[k] : k \in {k \in 1..4 : \A l \in 1..(k - 1) : found[l] = {}}}

(* should_update_last_employee_ids: the ids of a count of the company, of  *)
(* a generated statement or of "how many employees" are not kept unless    *)
(* something narrows them: resumes, ids, or an attribute it knows of.      *)
KeepsIds ==
    LET resume == Some(LAMBDA n : n.op \in {"search", "fact"})
        scoped(n) == n.op \in SqlOps /\ (n.prior \/ n.from # "none")
        attribute(n) == \/ n.op \in {"rows", "idrows", "count"} /\ n.crit = "filter"
                        \/ n.op = "search" /\ n.crit = "place"
        open(op) == Some(LAMBDA n : n.op = op /\ ~scoped(n) /\ ~attribute(n))
    IN  /\ ~open("count") \/ resume \/ Some(scoped)
        /\ ~open("generated") \/ resume
        /\ plan.howMany => resume \/ Some(scoped) \/ Some(attribute)

(* extract_listed_employees: the first node, the active one, then sql and  *)
(* employee nodes, then any, whose payload holds names.                    *)
NamesIn(p) ==
    IF p.kind \in {"rows", "reports"} THEN p.ids
    ELSE IF /\ p.kind = "search"
            /\ ~Some(LAMBDA n : n.op = "count")
            /\ ~Some(LAMBDA n : n.op = "fact")
         THEN p.ids ELSE {}

Rank(n) ==
    IF n.id = plan.active THEN 0
    ELSE IF n.op \in SqlOps \cup {"person", "reports"} THEN 1 ELSE 2

Listed(r) ==
    LET names == [i \in DOMAIN plan.nodes |-> NamesIn(r[plan.nodes[i].id])]
        rank == [i \in DOMAIN plan.nodes |-> Rank(plan.nodes[i])]
        named == {i \in DOMAIN names : names[i] # {}}
        first == {i \in named : \A j \in named :
                     rank[i] < rank[j] \/ (rank[i] = rank[j] /\ i <= j)}
    IN UNION {names[i] : i \in first}

(* extract_entities_from_state: everyone a payload names. *)
Entities(r) ==
    UNION {r[id].ids : id \in {i \in NodeIds : r[i].kind \in
               {"rows", "reports", "person", "candidates", "search", "fact"}}}

(* _bound_person_id_from_plan. *)
BoundPerson == IF Some(LAMBDA n : n.bound) THEN before.he ELSE {}

(* Mutant of CohortPart: the referent is kept. *)
CohortPartStale(m, c, ids) ==
    IF c \in PreserveCodes \/ (ids # {} /\ ~KeepsIds) THEN m
    ELSE IF ids # {} THEN [m EXCEPT !.cohort = ids, !.referent = ids]
    ELSE IF plan.active \in NodeIds
         THEN [m EXCEPT !.cohort = {}, !.listed = {}]
         ELSE m

(* The cohort, its referent and, when it is cleared, the list. *)
CohortPart(m, c, ids) ==
    IF c \in PreserveCodes \/ (ids # {} /\ ~KeepsIds) THEN m
    ELSE IF ids # {} THEN [m EXCEPT !.cohort = ids, !.referent = ids]
    ELSE IF plan.active \in NodeIds
         THEN [m EXCEPT !.cohort = {}, !.referent = {}, !.listed = {}]
         ELSE m

(* The list and the pronouns, whatever the code. *)
PersonPart(m, r) ==
    LET listed == IF Listed(r) # {} /\ BoundPerson = {} THEN Listed(r) ELSE m.listed
        he == IF BoundPerson # {} THEN BoundPerson
              ELSE IF Cardinality(Entities(r)) = 1 THEN Entities(r) ELSE m.he
    IN [m EXCEPT !.listed = listed, !.he = he,
                 !.referent = IF BoundPerson # {} THEN BoundPerson ELSE @]

Committed(m, c, r) == PersonPart(CohortPart(m, c, CohortIds(r)), r)

-----------------------------------------------------------------------------
Init ==
    /\ memory = Nobody /\ before = Nobody
    /\ phase = "idle"
    /\ plan = NoPlan
    /\ truth = <<>> /\ weak = {} /\ outcome = <<>>
    /\ code = "ok"

(* clear_referents, on an explicit change of topic. *)
AfterShift(shift) == IF shift THEN Nobody ELSE memory

(* apply_universe_marker: an org-wide count resets the cohort, when it is  *)
(* asked and not when it is answered. *)
AfterUniverse(m, p) ==
    IF p.universe THEN [m EXCEPT !.cohort = {}, !.referent = {}, !.listed = {}] ELSE m

(* A planner uses the prior set or the bound person only if there is one.  *)
CanPlan(p, m) ==
    \A i \in DOMAIN p.nodes :
        /\ p.nodes[i].prior \/ p.nodes[i].other = "prior" => m.cohort # {}
        /\ p.nodes[i].bound => m.he # {}

(* prepare_turn, the compiled and validated plan, merge_query_constraints. *)
Ask(p, shift) ==
    /\ phase \in {"idle", "answered"}
    /\ CanPlan(p, AfterShift(shift))
    /\ plan' = p
    /\ before' = AfterShift(shift)
    /\ memory' = AfterUniverse(AfterShift(shift), p)
    /\ phase' = "planned"
    /\ truth' = <<>> /\ weak' = {} /\ outcome' = <<>> /\ code' = "ok"

(* Criteria whose truth the answer depends on. *)
Asked ==
    {plan.nodes[i].crit : i \in DOMAIN plan.nodes}
        \cup (IF Some(LAMBDA n : n.op = "reports") THEN {"name"} ELSE {})

(* Every way in which the nodes can end. *)
Endings ==
    {f \in [NodeIds -> UNION {Outcomes(plan.nodes[i].op) : i \in DOMAIN plan.nodes}] :
        \A i \in DOMAIN plan.nodes : f[plan.nodes[i].id] \in Outcomes(plan.nodes[i].op)}

(* execute: every tool finds what is there, or ends in some other way. *)
Execute ==
    /\ phase = "planned"
    /\ truth' \in {f \in [Asked -> SUBSET People] : "all" \in Asked => f["all"] = People}
    /\ weak' \in IF "skill" \in Asked THEN SUBSET (People \ truth'["skill"]) ELSE {{}}
    /\ outcome' \in Endings
    /\ phase' = "executed"
    /\ UNCHANGED <<memory, plan, before, code>>

(* resolve_refusal, then commit with its code. *)
Commit ==
    /\ phase = "executed"
    /\ LET r == Results IN
          /\ code' = RefusalCode(r)
          /\ memory' = Committed(memory, RefusalCode(r), r)
    /\ phase' = "answered"
    /\ UNCHANGED <<plan, before, truth, weak, outcome>>

Next == Execute \/ Commit \/ \E p \in Plans, shift \in BOOLEAN : Ask(p, shift)

Spec == Init /\ [][Next]_vars

-----------------------------------------------------------------------------

Answered == phase = "answered"

(* A generic search whose scope is the result of node id. *)
GenericScope(p, id) ==
    /\ id \in Ids(p)
    /\ \E i \in DOMAIN p.nodes :
          p.nodes[i].op = "search" /\ p.nodes[i].crit = "skill" /\ p.nodes[i].from = id

(* The nodes that found nobody, which a generic search took for no scope.  *)
Lost == {id \in NodeIds : GenericScope(plan, id) /\ AsIdList(Results[id]) = {}}

(* The people the question is about: those who meet every condition of the *)
(* plan and, for a follow-up, belong to the cohort.  The filters of a      *)
(* count narrow the number it says, not whom it is about, and a lost scope *)
(* narrows nothing.                                                        *)
Asking == {n \in {plan.nodes[i] : i \in DOMAIN plan.nodes} :
              n.op # "count" /\ n.id \notin Lost}
Meant ==
    {x \in People :
        /\ \A n \in Asking : x \in truth[n.crit]
        /\ (\E n \in Asking : n.prior \/ n.other = "prior") => x \in before.cohort}

(* After an answer without failures, "them" is exactly the people the      *)
(* question was about: weak hits, the wider retrievals and the previous    *)
(* cohort have left no trace (active_cohort_node).  Only where cohort.py   *)
(* takes the answer for one about the company are they whom they were.     *)
CohortIsAnswer ==
    Answered /\ code = "ok" /\ Failures = {} /\ plan.active \in NodeIds
        /\ ~Some(LAMBDA n : n.op \in {"person", "fact"})
        => memory.cohort = IF KeepsIds \/ Meant = {} THEN Meant
                           ELSE AfterUniverse(before, plan).cohort

(* A failure never puts somebody into "them" whom the question excludes:   *)
(* an empty binding means nobody, never org-wide (run_node), but for the   *)
(* one of a generic search (Lost), where the tool says otherwise.          *)
NeverOrgWide ==
    Answered /\ plan.active \in NodeIds
        /\ ~Some(LAMBDA n : n.op \in {"person", "fact"})
        => memory.cohort \subseteq Meant \cup before.cohort

(* A node that broke, or had nobody to find. *)
FoundNobody(n) ==
    \/ n.op \in {"extract", "intersect"} \/ outcome[n.id] \in {"caught", "failed", "denied"}
    \/ /\ n.op \in {"search", "rows", "idrows", "generated", "reports"}
       /\ truth[n.crit] = {} /\ (n.crit = "skill" => weak = {})

(* A turn in which something broke and nobody was found leaves "them" as   *)
(* the question did: no empty result of a node behind a broken one is      *)
(* taken for the answer that it is about nobody (PRESERVE_COHORT_CODES).   *)
OutageKeepsCohort ==
    Answered /\ Failures # {} /\ (\A i \in DOMAIN plan.nodes : FoundNobody(plan.nodes[i]))
        => memory.cohort = AfterUniverse(before, plan).cohort

(* What "them" refers to is the cohort, unless a person is in focus: no    *)
(* sequence of turns leaves a referent to a set nobody talks about.        *)
ReferentIsCurrent ==
    memory.referent = memory.cohort \/ Cardinality(memory.referent) = 1

-----------------------------------------------------------------------------
(* What makes a plan right, whoever is employed and whatever fails.        *)

Both(conditions) == [all |-> conditions, best |-> conditions]

(* The conditions that everybody in the result of node n meets, and those  *)
(* that the best-scored do, if m says so of the nodes before it.  "prior"  *)
(* is to be in the session's cohort; a generic search has no scope if the  *)
(* node it is bound to is one of `lost`.                                   *)
Meets(n, m, lost) ==
    LET prior == IF n.prior THEN {"prior"} ELSE {}
        scope == IF n.from = "none" THEN prior ELSE m[n.from].all
        searched == IF n.crit = "skill" /\ n.from \in lost THEN {} ELSE scope
        other == IF n.other = "prior" THEN {"prior"} ELSE m[n.other].all
    IN CASE n.op = "search"    ->
                [all |-> searched \cup (IF n.crit = "skill" THEN {} ELSE {n.crit}),
                 best |-> searched \cup {n.crit}]
         [] n.op = "extract"   -> Both(m[n.from].best)
         [] n.op = "intersect" -> Both(m[n.from].all \cup other)
         [] n.op \in SqlOps    -> Both(scope \cup {n.crit})
         [] n.op = "reports"   -> Both({n.crit})
         [] OTHER              -> Both({})

Conditions(p, lost) ==
    LET after[i \in 0..Len(p.nodes)] ==
            IF i = 0 THEN [id \in Ids(p) |-> Both({})]
            ELSE [after[i - 1] EXCEPT ![p.nodes[i].id] = Meets(p.nodes[i], after[i - 1], lost)]
    IN after[Len(p.nodes)]

(* A node reads only nodes before it whose payloads it can read ids from.  *)
Readable(op) ==
    IF op = "extract" THEN {"search", "rows", "idrows", "generated", "reports"}
    ELSE {"search", "extract", "intersect", "reports"}

Reads(p, i, id) ==
    \E j \in 1..(i - 1) : p.nodes[j].id = id /\ p.nodes[j].op \in Readable(p.nodes[i].op)

(* ... and nothing but a generic search reads the scope of one.            *)
Linked(p) ==
    \A i \in DOMAIN p.nodes :
        LET n == p.nodes[i]
        IN  /\ \A j \in DOMAIN p.nodes : p.nodes[j].id = n.id => j = i
            /\ n.from # "none" => Reads(p, i, n.from)
            /\ n.other \notin {"none", "prior"} => Reads(p, i, n.other)
            /\ GenericScope(p, n.from) => n.op = "search" /\ n.crit = "skill"
            /\ ~GenericScope(p, n.other) /\ ~GenericScope(p, p.active)

(* The active node names people, and only those who meet every condition   *)
(* but the filters of counts and, whichever scopes are lost, theirs.       *)
Covered(p) ==
    \A lost \in SUBSET {id \in Ids(p) : GenericScope(p, id)} :
        LET met == Conditions(p, lost)[p.active].all
        IN  \A i \in DOMAIN p.nodes :
                LET n == p.nodes[i]
                IN  /\ n.op # "count" /\ n.id \notin lost =>
                           /\ n.crit \in met \cup {"all"}
                           /\ n.prior \/ n.other = "prior" => "prior" \in met
                    /\ n.id = p.active => n.op \notin {"count", "greeting"}

(* Plans about sets of people, not about one. *)
FindsPeople(p) ==
    /\ p.active \in Ids(p)
    /\ \A i \in DOMAIN p.nodes : p.nodes[i].op \notin {"person", "fact"}

SoundPlans == \A p \in Plans : FindsPeople(p) => Linked(p) /\ Covered(p)

=============================================================================
