------------------------------ MODULE PlanGraph ------------------------------
(***************************************************************************)
(* The dependency graph of an ExecutionPlan, as the validator's            *)
(* `graph = {n.id: n.depends_on}` and the executor's `pending` dict see    *)
(* it: a function from node ids to the set of ids the node depends on.     *)
(***************************************************************************)
EXTENDS Naturals, FiniteSets, Sequences

(* The nodes of one wave: pending, with every dependency completed. *)
ReadyNodes(deps, pending, completed) ==
    {n \in pending : deps[n] \subseteq completed}

(* No node depends on an id that is not in the plan. *)
Closed(deps) == \A n \in DOMAIN deps : deps[n] \subseteq DOMAIN deps

(* Some node of S depends on no node of S. *)
HasSource(deps, S) == \E n \in S : deps[n] \cap S = {}

(* A finite graph has no cycle iff every non-empty set of its nodes has a  *)
(* source.  (MCPlanValidator compares this with reachability.)             *)
Acyclic(deps) == \A S \in SUBSET DOMAIN deps : S # {} => HasSource(deps, S)

(* Ids and graph of a list of plan nodes (ids unique). *)
IdsOf(plan) == {plan[i].id : i \in DOMAIN plan}

UniqueIds(plan) ==
    \A i, j \in DOMAIN plan : plan[i].id = plan[j].id => i = j

DepsOf(plan) ==
    [n \in IdsOf(plan) |-> plan[CHOOSE i \in DOMAIN plan : plan[i].id = n].deps]
=============================================================================
