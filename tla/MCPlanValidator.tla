--------------------------- MODULE MCPlanValidator ---------------------------
(* Every dependency graph over three nodes, and every two-node plan with   *)
(* any fault the scan can meet, for two roles.                             *)
EXTENDS PlanValidator

MCNodeIds == {"a", "b", "c", "ghost"}
MCTools == {"sql", "resume_search"}
MCCanUse == [employee |-> {"resume_search"}, recruiter |-> {"sql", "resume_search"}]

ToolNode(i, name, ok, deps) ==
    [id |-> i, kind |-> "tool", name |-> name, allowed |-> ok, deps |-> deps]
OpNode(i, name, deps) ==
    [id |-> i, kind |-> "operator", name |-> name, allowed |-> TRUE, deps |-> deps]

Abc == {"a", "b", "c"}

AllGraphs ==
    { << ToolNode("a", "resume_search", TRUE, d[1]),
         OpNode("b", "intersect_ids", d[2]),
         ToolNode("c", "resume_search", TRUE, d[3]) >> :
         d \in [1..3 -> SUBSET Abc] }

Faulty ==
    LET N == [id: {"a", "b"}, kind: {"tool", "operator"},
              name: {"sql", "intersect_ids", "mystery"}, allowed: BOOLEAN,
              deps: {{}, {"a"}, {"ghost"}}]
    IN {<<>>} \cup {<<n>> : n \in N} \cup {<<m, n>> : m, n \in N}

TooLong ==
    { << OpNode("a", "intersect_ids", {}), OpNode("b", "intersect_ids", {"a"}),
         OpNode("c", "intersect_ids", {"b"}),
         OpNode("ghost", "intersect_ids", {"c"}) >> }

MCPlans == AllGraphs \cup Faulty \cup TooLong

-----------------------------------------------------------------------------
(* Reference: reachability by composing the relation, for three nodes. *)
Step(deps, S) == UNION {deps[n] : n \in S \cap DOMAIN deps}
Reach3(deps, n) ==
    LET s1 == Step(deps, {n})
        s2 == s1 \cup Step(deps, s1)
    IN s2 \cup Step(deps, s2)

ASSUME AcyclicIsReachability ==
    \A deps \in [Abc -> SUBSET Abc] :
        Acyclic(deps) <=> \A n \in Abc : n \notin Reach3(deps, n)
=============================================================================
