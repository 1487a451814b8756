---------------------------- MODULE PlanValidator ----------------------------
(***************************************************************************)
(* PlanValidator.validate (application/planning/plan_validator.py): shape  *)
(* checks, one pass over the nodes, then the depth-first cycle search.     *)
(* Every plan a planner tier produces passes through it before it runs.    *)
(*                                                                         *)
(* The recursion of `dfs` is its stack: stack[i + 1] is the dependency     *)
(* that the frame of stack[i] is visiting, todo[n] the dependencies the    *)
(* loop of n's frame has not reached.  The order of the loops over `ids`   *)
(* and `depends_on` is left open: no result depends on it.                 *)
(***************************************************************************)
EXTENDS PlanGraph

CONSTANTS NodeIds,      \* ids a plan may mention, also ids of no node
          Tools,        \* ToolRegistry.names()
          Operators,    \* OperatorRegistry.names()
          Roles,        \* roles of the AuthContext
          CanUseTool,   \* rbac.can_use_tool: the tools of each role
          MaxNodes,     \* settings.max_plan_nodes (12)
          Plans         \* the plans offered for validation

(* A node: `allowed` abstracts its params (sql mode and fields, employee   *)
(* action, resume_search purpose) to whether the validator admits them.    *)
Node == [id: NodeIds, kind: {"tool", "operator"}, name: STRING,
         allowed: BOOLEAN, deps: SUBSET NodeIds]

ASSUME ValidatorAssumption ==
    /\ MaxNodes \in Nat
    /\ CanUseTool \in [Roles -> SUBSET Tools]
    /\ Plans \subseteq Seq(Node)

VARIABLES plan, role,
          hasClarify,   \* plan.clarify_question is set
          phase,        \* "shape", "scan", "dfs" or "done"
          pos,          \* index of the node the scan is at
          roots,        \* ids the outer dfs loop has not reached
          stack, visiting, visited, todo,
          verdict       \* "none" until the call returns or raises

vars == <<plan, role, hasClarify, phase, pos, roots, stack, visiting,
          visited, todo, verdict>>
input == <<plan, role, hasClarify>>
search == <<roots, stack, visiting, visited, todo>>

Ids == IdsOf(plan)
Graph == DepsOf(plan)

Errors == {"no_nodes", "too_many", "duplicate_ids", "unknown_dep",
           "unknown_tool", "not_permitted", "bad_params",
           "unknown_operator", "cycle"}

(* Mutant of NodeError: the role is not asked. *)
NodeErrorAnyRole(n) ==
    CASE ~(n.deps \subseteq Ids)                        -> "unknown_dep"
      [] n.kind = "tool" /\ n.name \notin Tools         -> "unknown_tool"
      [] n.kind = "tool" /\ ~n.allowed                  -> "bad_params"
      [] n.kind = "operator" /\ n.name \notin Operators -> "unknown_operator"
      [] OTHER                                          -> "none"

(* The first PlanInvalidError the body of the node loop would raise. *)
NodeError(n) ==
    CASE ~(n.deps \subseteq Ids)                        -> "unknown_dep"
      [] n.kind = "tool" /\ n.name \notin Tools         -> "unknown_tool"
      [] n.kind = "tool" /\ n.name \notin CanUseTool[role] -> "not_permitted"
      [] n.kind = "tool" /\ ~n.allowed                  -> "bad_params"
      [] n.kind = "operator" /\ n.name \notin Operators -> "unknown_operator"
      [] OTHER                                          -> "none"

Init ==
    /\ plan \in Plans
    /\ role \in Roles
    /\ hasClarify \in BOOLEAN
    /\ phase = "shape"
    /\ pos = 1
    /\ roots = {} /\ stack = <<>> /\ visiting = {} /\ visited = {}
    /\ todo = <<>>
    /\ verdict = "none"

Return(v) == phase' = "done" /\ verdict' = v

(* No nodes, too many nodes, duplicate ids. *)
CheckShape ==
    /\ phase = "shape"
    /\ \/ plan = <<>> /\ hasClarify /\ Return("ok")
       \/ plan = <<>> /\ ~hasClarify /\ Return("no_nodes")
       \/ Len(plan) > MaxNodes /\ Return("too_many")
       \/ /\ Len(plan) \in 1..MaxNodes
          /\ ~UniqueIds(plan)
          /\ Return("duplicate_ids")
       \/ /\ Len(plan) \in 1..MaxNodes
          /\ UniqueIds(plan)
          /\ phase' = "scan"
          /\ UNCHANGED verdict
    /\ UNCHANGED <<input, pos, search>>

(* One iteration of the loop over plan.nodes. *)
CheckNode ==
    /\ phase = "scan"
    /\ pos <= Len(plan)
    /\ IF NodeError(plan[pos]) = "none"
       THEN pos' = pos + 1 /\ UNCHANGED <<phase, verdict>>
       ELSE Return(NodeError(plan[pos])) /\ UNCHANGED pos
    /\ UNCHANGED <<input, search>>

(* visiting, visited and graph are built once the loop is through. *)
StartSearch ==
    /\ phase = "scan"
    /\ pos > Len(plan)
    /\ phase' = "dfs"
    /\ roots' = Ids
    /\ todo' = Graph
    /\ UNCHANGED <<input, pos, stack, visiting, visited, verdict>>

(* dfs(n) past its two membership tests: n goes on the stack. *)
Push(n) ==
    /\ stack' = Append(stack, n)
    /\ visiting' = visiting \cup {n}
    /\ UNCHANGED <<visited, phase, verdict>>

(* `for nid in ids: dfs(nid)` with an empty stack. *)
VisitRoot(n) ==
    /\ phase = "dfs"
    /\ stack = <<>>
    /\ n \in roots
    /\ roots' = roots \ {n}
    /\ IF n \in visited
       THEN UNCHANGED <<stack, visiting, visited, phase, verdict>>
       ELSE Push(n)
    /\ UNCHANGED <<input, pos, todo>>

Top == stack[Len(stack)]

(* Mutant of VisitDep: the loop does not move on. *)
VisitDepAgain(d) ==
    /\ phase = "dfs"
    /\ stack # <<>>
    /\ d \in todo[Top]
    /\ \/ d \in visiting /\ Return("cycle")
                         /\ UNCHANGED <<stack, visiting, visited>>
       \/ /\ d \notin visiting /\ d \in visited
          /\ UNCHANGED <<stack, visiting, visited, phase, verdict>>
       \/ d \notin visiting /\ d \notin visited /\ Push(d)
    /\ UNCHANGED <<input, pos, roots, todo>>

(* `for dep in graph[node_id]: dfs(dep)` in the innermost frame. *)
VisitDep(d) ==
    /\ phase = "dfs"
    /\ stack # <<>>
    /\ d \in todo[Top]
    /\ todo' = [todo EXCEPT ![Top] = @ \ {d}]
    /\ \/ d \in visiting /\ Return("cycle")
                         /\ UNCHANGED <<stack, visiting, visited>>
       \/ /\ d \notin visiting /\ d \in visited
          /\ UNCHANGED <<stack, visiting, visited, phase, verdict>>
       \/ d \notin visiting /\ d \notin visited /\ Push(d)
    /\ UNCHANGED <<input, pos, roots>>

(* The innermost frame returns. *)
Leave ==
    /\ phase = "dfs"
    /\ stack # <<>>
    /\ todo[Top] = {}
    /\ visiting' = visiting \ {Top}
    /\ visited' = visited \cup {Top}
    /\ stack' = SubSeq(stack, 1, Len(stack) - 1)
    /\ UNCHANGED <<input, pos, roots, todo, phase, verdict>>

(* validate returns. *)
Accept ==
    /\ phase = "dfs"
    /\ stack = <<>>
    /\ roots = {}
    /\ Return("ok")
    /\ UNCHANGED <<input, pos, search>>

Next ==
    \/ CheckShape
    \/ CheckNode
    \/ StartSearch
    \/ \E n \in NodeIds : VisitRoot(n) \/ VisitDep(n)
    \/ Leave
    \/ Accept

Spec == Init /\ [][Next]_vars

(* validate is one synchronous call: it keeps running until it returns. *)
FairSpec == Spec /\ WF_vars(Next)

-----------------------------------------------------------------------------
(* Every variable has its type; the search variables range over the plan's *)
(* ids only.                                                               *)
TypeOK ==
    /\ plan \in Plans /\ role \in Roles /\ hasClarify \in BOOLEAN
    /\ phase \in {"shape", "scan", "dfs", "done"}
    /\ pos \in 1..(Len(plan) + 1)
    /\ roots \subseteq Ids /\ visiting \subseteq Ids /\ visited \subseteq Ids
    /\ stack \in Seq(Ids)
    /\ todo \in {<<>>} \cup [Ids -> SUBSET NodeIds]
    /\ verdict \in {"none", "ok"} \cup Errors

(* What an executor needs of a plan, stated without the algorithm. *)
Runnable ==
    /\ Len(plan) \in 1..MaxNodes
    /\ UniqueIds(plan)
    /\ Closed(Graph)
    /\ Acyclic(Graph)
    /\ \A i \in DOMAIN plan :
          IF plan[i].kind = "tool"
          THEN plan[i].name \in Tools \cap CanUseTool[role] /\ plan[i].allowed
          ELSE plan[i].name \in Operators

(* A validated plan is empty with a clarification, or runnable, and every  *)
(* other plan is refused: validate decides exactly this (the executor and  *)
(* the registries rely on it: a cycle would deadlock the waves, an unknown *)
(* name would raise out of asyncio.gather).                                *)
VerdictExact ==
    phase = "done" =>
        (verdict = "ok" <=> (plan = <<>> /\ hasClarify) \/ Runnable)

(* "Plan contains a cycle" is raised only when the frames on the recursion *)
(* stack close a cycle: from the repeated dependency up, each node has a   *)
(* dependency among them.                                                  *)
CycleIsReal ==
    verdict = "cycle" =>
        \E S \in SUBSET Ids : S # {} /\ \A n \in S : Graph[n] \cap S # {}

(* Every call of validate returns or raises, whatever the graph. *)
Returns == <>(phase = "done")
=============================================================================
