--------------------------- MODULE MCPlanExecution ---------------------------
(* Plan shapes the planner tiers emit, an intersection of two retrievals   *)
(* and a single query, and a hybrid retrieval (r1 -> i1 -> s1) closed to a *)
(* cycle.                                                                  *)
EXTENDS PlanExecution, TLC

T(name, deps) == [kind |-> "tool", name |-> name, deps |-> deps, binds |-> deps]
O(name, deps) == [kind |-> "operator", name |-> name, deps |-> deps, binds |-> deps]

MCNodeIds == {"r1", "r2", "i1", "s1"}
MCTools == {"resume_search", "sql"}

Intersect == [n \in {"r1", "r2", "i1"} |->
    CASE n = "r1" -> T("resume_search", {})
      [] n = "r2" -> T("resume_search", {})
      [] n = "i1" -> [O("intersect_ids", {"r1", "r2"}) EXCEPT !.binds = {"r2"}]]

Single == [n \in {"s1"} |-> T("sql", {})]

(* What PlanValidator refuses: execute is also correct on it. *)
Cyclic == [n \in {"r1", "i1", "s1"} |->
    CASE n = "r1" -> T("resume_search", {})
      [] n = "i1" -> O("intersect_ids", {"r1", "s1"})
      [] n = "s1" -> T("sql", {"i1"})]

MCPlans == {Intersect, Single, Cyclic}
=============================================================================
