--------------------------- MODULE PlanningProofs ---------------------------
(***************************************************************************)
(* Proofs about both ends of planning: PlanValidator, which every plan     *)
(* passes, and FollowUps, the planners that answer without a model.        *)
(*                                                                         *)
(* PlanValidator.  The argument is the correctness of a depth-first cycle  *)
(* search.  The stack is a path of the graph (so a dependency already on   *)
(* it closes a cycle), and `visited` is closed under dependencies and      *)
(* acyclic (so when every id is visited the whole graph is).               *)
(*                                                                         *)
(* FollowUps.  Each planner keeps a fact about the plans it returns, one   *)
(* lemma per planner: a plan is Sound; a question about "them" is planned  *)
(* Inside them; a Fresh question is planned alike whatever is remembered;  *)
(* a question that states one condition Selects by it.  What commit makes  *)
(* of a sound plan gives the invariant, Remembers, and the rest follows.   *)
(***************************************************************************)
EXTENDS PlanValidator, FollowUps, TLAPS, SequenceTheorems, FiniteSetTheorems

(* PlanValidator: the search in progress, phase "dfs". *)
StackIsPath ==
    /\ visiting = {stack[i] : i \in 1..Len(stack)}
    /\ \A i, j \in 1..Len(stack) : stack[i] = stack[j] => i = j
    /\ \A i \in 1..(Len(stack) - 1) : stack[i + 1] \in Graph[stack[i]]

ExploredIsKnown ==
    /\ \A i \in 1..(Len(stack) - 1) :
          Graph[stack[i]] \ todo[stack[i]] \subseteq visited \cup {stack[i + 1]}
    /\ stack # <<>> => Graph[Top] \ todo[Top] \subseteq visited
    /\ \A n \in Ids : todo[n] \subseteq Graph[n]
    /\ \A n \in Ids \ (visiting \cup visited) : todo[n] = Graph[n]

VisitedIsAcyclic ==
    /\ \A n \in visited : Graph[n] \subseteq visited
    /\ \A S \in SUBSET visited : S # {} => HasSource(Graph, S)

SearchInv ==
    /\ todo \in [Ids -> SUBSET NodeIds]
    /\ visiting \cap visited = {}
    /\ Ids \ roots \subseteq visiting \cup visited
    /\ StackIsPath
    /\ ExploredIsKnown
    /\ VisitedIsAcyclic

(* The nodes the scan has passed have no error. *)
ScanInv ==
    /\ Len(plan) \in 1..MaxNodes
    /\ UniqueIds(plan)
    /\ \A i \in 1..(pos - 1) : NodeError(plan[i]) = "none"

IInv ==
    /\ TypeOK
    /\ phase # "done" => verdict = "none"
    /\ phase = "shape" => pos = 1
    /\ phase \in {"shape", "scan"} => stack = <<>> /\ visiting = {} /\ visited = {}
    /\ phase \in {"scan", "dfs"} => ScanInv
    /\ phase = "dfs" => pos = Len(plan) + 1 /\ SearchInv
    /\ VerdictExact
    /\ CycleIsReal

-----------------------------------------------------------------------------
(* What a node with no error guarantees. *)
NodeSound(n) ==
    /\ n.deps \subseteq Ids
    /\ IF n.kind = "tool"
       THEN n.name \in Tools \cap CanUseTool[role] /\ n.allowed
       ELSE n.name \in Operators

LEMMA NodeErrorExact ==
    ASSUME NEW n \in Node
    PROVE  NodeError(n) = "none" <=> NodeSound(n)
BY DEF NodeError, NodeSound, Node

LEMMA NodeErrorType ==
    ASSUME NEW n \in Node
    PROVE  NodeError(n) \in Errors \cup {"none"} /\ NodeError(n) \notin {"ok", "cycle"}
BY DEF NodeError, Errors

(* With unique ids, the graph maps each node's id to its dependencies. *)
LEMMA GraphOfPlan ==
    ASSUME plan \in Seq(Node), UniqueIds(plan)
    PROVE  /\ Graph \in [Ids -> SUBSET NodeIds]
           /\ \A i \in DOMAIN plan : plan[i].id \in Ids /\ Graph[plan[i].id] = plan[i].deps
           /\ \A n \in Ids : \E i \in DOMAIN plan : plan[i].id = n /\ Graph[n] = plan[i].deps
<1> DEFINE at(n) == CHOOSE i \in DOMAIN plan : plan[i].id = n
<1>1. \A i \in DOMAIN plan : plan[i] \in Node
  OBVIOUS
<1>2. Graph = [n \in Ids |-> plan[at(n)].deps]
  BY DEF Graph, DepsOf, Ids
<1>3. \A n \in Ids : at(n) \in DOMAIN plan /\ plan[at(n)].id = n
  BY DEF Ids, IdsOf
<1>4. \A i \in DOMAIN plan : plan[i].id \in Ids /\ at(plan[i].id) = i
  BY <1>3 DEF Ids, IdsOf, UniqueIds
<1>5. \A n \in Ids : plan[at(n)].deps \in SUBSET NodeIds
  BY <1>1, <1>3 DEF Node
<1> HIDE DEF at
<1>6. QED BY <1>2, <1>3, <1>4, <1>5

(* The declarative condition, node by node. *)
LEMMA RunnableByNodes ==
    ASSUME plan \in Seq(Node), UniqueIds(plan)
    PROVE  Runnable <=> /\ Len(plan) \in 1..MaxNodes
                        /\ \A i \in DOMAIN plan : NodeError(plan[i]) = "none"
                        /\ Acyclic(Graph)
<1>1. \A i \in DOMAIN plan : plan[i] \in Node
  OBVIOUS
<1>2. \A i \in DOMAIN plan : NodeError(plan[i]) = "none" <=> NodeSound(plan[i])
  BY <1>1, NodeErrorExact
<1>3. DOMAIN Graph = Ids
  BY GraphOfPlan
<1>4. Closed(Graph) <=> \A i \in DOMAIN plan : plan[i].deps \subseteq Ids
  BY <1>3, GraphOfPlan DEF Closed
<1>5. QED
  BY <1>2, <1>4 DEF Runnable, NodeSound

LEMMA PlanIsSeq == plan \in Plans => plan \in Seq(Node)
BY ValidatorAssumption

(* Facts every step below starts from. *)
LEMMA InputUnchanged ==
    ASSUME UNCHANGED input
    PROVE  /\ Ids' = Ids /\ Graph' = Graph /\ plan' = plan
           /\ UniqueIds(plan)' = UniqueIds(plan)
           /\ Runnable' = Runnable
           /\ \A i \in DOMAIN plan : NodeError(plan[i])' = NodeError(plan[i])
BY DEF input, Ids, Graph, Runnable, NodeError, UniqueIds

LEMMA InitInv == Init => IInv
<1> SUFFICES ASSUME Init PROVE IInv
  OBVIOUS
<1>1. plan \in Seq(Node)
  BY PlanIsSeq DEF Init
<1>2. TypeOK
  BY <1>1 DEF Init, TypeOK
<1>3. QED
  BY <1>2 DEF Init, IInv, VerdictExact, CycleIsReal

(* Outside the search: the shape and scan phases. *)
LEMMA ShapeStep ==
    ASSUME IInv, CheckShape
    PROVE  IInv'
<1>0. plan \in Seq(Node) /\ phase = "shape" /\ verdict = "none" /\ pos = 1
  BY PlanIsSeq DEF IInv, TypeOK, CheckShape
<1>1. UNCHANGED <<input, pos, search>>
  BY DEF CheckShape
<1>2. TypeOK'
  BY <1>1, InputUnchanged
     DEF IInv, TypeOK, CheckShape, Return, input, search, Errors
<1>3. (phase' # "done" => verdict' = "none") /\ verdict' # "cycle" /\ phase' # "dfs"
  BY <1>0 DEF CheckShape, Return
<1>4. (phase' = "scan" => ScanInv')
  <2> SUFFICES ASSUME phase' = "scan" PROVE ScanInv'
    OBVIOUS
  <2>1. Len(plan) \in 1..MaxNodes /\ UniqueIds(plan)
    BY DEF CheckShape, Return
  <2>2. pos' = pos /\ plan' = plan
    BY <1>1 DEF input
  <2>3. \A i \in 1..(pos - 1) : NodeError(plan[i]) = "none"
    BY DEF CheckShape, IInv, TypeOK
  <2>4. QED
    BY <2>1, <2>2, <2>3, <1>0, <1>1, InputUnchanged DEF ScanInv
<1>5. VerdictExact'
  <2> SUFFICES ASSUME phase' = "done"
               PROVE  verdict' = "ok" <=> (plan = <<>> /\ hasClarify) \/ Runnable
    BY <1>1, InputUnchanged DEF VerdictExact, input
  <2>1. CASE plan = <<>>
    <3>1. ~Runnable
      BY <2>1 DEF Runnable
    <3>2. QED
      BY <2>1, <3>1, ValidatorAssumption DEF CheckShape, Return
  <2>2. CASE plan # <<>>
    BY <2>2, <1>0, ValidatorAssumption DEF CheckShape, Return, Runnable
  <2>3. QED
    BY <2>1, <2>2
<1>6. phase' \in {"shape", "scan"} =>
         stack' = <<>> /\ visiting' = {} /\ visited' = {}
  BY <1>0, <1>1 DEF IInv, search
<1>7. phase' # "shape"
  BY DEF CheckShape, Return
<1>8. QED
  BY <1>2, <1>3, <1>4, <1>5, <1>6, <1>7 DEF IInv, CycleIsReal

LEMMA ScanStep ==
    ASSUME IInv, CheckNode
    PROVE  IInv'
<1>0. /\ plan \in Seq(Node) /\ phase = "scan" /\ verdict = "none"
      /\ pos \in 1..Len(plan) /\ ScanInv /\ Len(plan) \in Nat
  BY PlanIsSeq DEF IInv, TypeOK, CheckNode
<1>1. UNCHANGED <<input, search>>
  BY DEF CheckNode
<1>2. pos \in DOMAIN plan /\ plan[pos] \in Node
  BY <1>0
<1>3. CASE NodeError(plan[pos]) = "none"
  <2>1. pos' = pos + 1 /\ UNCHANGED <<phase, verdict>>
    BY <1>3 DEF CheckNode
  <2>2. TypeOK'
    BY <1>0, <1>1, <2>1, InputUnchanged DEF IInv, TypeOK, input, search
  <2>3. ScanInv'
    <3>1. \A i \in 1..pos : NodeError(plan[i]) = "none" /\ i \in DOMAIN plan
      BY <1>0, <1>3 DEF ScanInv
    <3>2. QED
      BY <3>1, <2>1, <1>0, <1>1, InputUnchanged DEF ScanInv
  <2>4. stack' = <<>> /\ visiting' = {} /\ visited' = {}
    BY <1>0, <1>1 DEF IInv, search
  <2>5. QED
    BY <2>1, <2>2, <2>3, <2>4, <1>0 DEF IInv, VerdictExact, CycleIsReal
<1>4. CASE NodeError(plan[pos]) # "none"
  <2>1. phase' = "done" /\ verdict' = NodeError(plan[pos]) /\ pos' = pos
    BY <1>4 DEF CheckNode, Return
  <2>2. verdict' \in Errors /\ verdict' \notin {"ok", "cycle"}
    BY <2>1, <1>2, <1>4, NodeErrorType
  <2>3. TypeOK'
    BY <1>0, <1>1, <2>1, <2>2, InputUnchanged DEF IInv, TypeOK, input, search
  <2>4. ~Runnable /\ plan # <<>>
    BY <1>0, <1>2, <1>4, RunnableByNodes DEF ScanInv
  <2>5. QED
    BY <2>1, <2>2, <2>3, <2>4, <1>1, InputUnchanged
       DEF IInv, VerdictExact, CycleIsReal, input
<1>5. QED
  BY <1>3, <1>4

LEMMA StartStep ==
    ASSUME IInv, StartSearch
    PROVE  IInv'
<1>0. /\ plan \in Seq(Node) /\ verdict = "none" /\ phase = "scan"
      /\ pos = Len(plan) + 1 /\ ScanInv /\ Len(plan) \in Nat
      /\ stack = <<>> /\ visiting = {} /\ visited = {}
  BY PlanIsSeq DEF IInv, TypeOK, StartSearch
<1>1. UNCHANGED <<input, pos, stack, visiting, visited, verdict>>
  BY DEF StartSearch
<1>2. phase' = "dfs" /\ roots' = Ids /\ todo' = Graph
  BY DEF StartSearch
<1>3. Graph \in [Ids -> SUBSET NodeIds]
  BY <1>0, GraphOfPlan DEF ScanInv
<1>4. TypeOK'
  BY <1>0, <1>1, <1>2, <1>3, InputUnchanged DEF IInv, TypeOK, input
<1>5. ScanInv'
  BY <1>0, <1>1, InputUnchanged DEF ScanInv, input
<1>6. Ids' = Ids /\ Graph' = Graph
  BY <1>1, InputUnchanged
<1>7. SearchInv'
  <2>1. Len(stack') = 0
    BY <1>0, <1>1
  <2>2. StackIsPath'
    BY <1>0, <1>1, <2>1 DEF StackIsPath
  <2>3. ExploredIsKnown'
    BY <1>0, <1>1, <1>2, <1>6, <2>1 DEF ExploredIsKnown
  <2>4. VisitedIsAcyclic'
    BY <1>0, <1>1 DEF VisitedIsAcyclic
  <2>5. QED
    BY <1>0, <1>1, <1>2, <1>3, <1>6, <2>2, <2>3, <2>4 DEF SearchInv
<1>8. QED
  BY <1>0, <1>1, <1>2, <1>4, <1>5, <1>7
     DEF IInv, VerdictExact, CycleIsReal, input

-----------------------------------------------------------------------------
(* The search.  Once the scan is through, the graph is closed and only the *)
(* cycle condition is open.                                                *)
LEMMA SearchFacts ==
    ASSUME IInv, phase = "dfs"
    PROVE  /\ Graph \in [Ids -> SUBSET Ids]
           /\ Runnable <=> Acyclic(Graph)
           /\ plan # <<>>
           /\ stack \in Seq(Ids) /\ Len(stack) \in Nat
           /\ \A i \in 1..Len(stack) : stack[i] \in Ids
           /\ verdict = "none" /\ SearchInv /\ ScanInv /\ TypeOK
<1>1. /\ plan \in Seq(Node) /\ ScanInv /\ pos = Len(plan) + 1 /\ SearchInv /\ TypeOK
      /\ verdict = "none" /\ stack \in Seq(Ids)
  BY PlanIsSeq DEF IInv, TypeOK
<1>2. \A i \in DOMAIN plan : NodeError(plan[i]) = "none"
  BY <1>1 DEF ScanInv
<1>3. Runnable <=> Acyclic(Graph)
  BY <1>1, <1>2, RunnableByNodes DEF ScanInv
<1>4. \A i \in DOMAIN plan : plan[i].deps \subseteq Ids
  BY <1>1, <1>2, NodeErrorExact DEF NodeSound
<1>5. Graph \in [Ids -> SUBSET NodeIds] /\ \A n \in Ids : Graph[n] \subseteq Ids
  BY <1>1, <1>4, GraphOfPlan DEF ScanInv
<1>6. Graph \in [Ids -> SUBSET Ids]
  BY <1>5
<1>7. QED
  BY <1>1, <1>3, <1>6 DEF ScanInv

(* In phase "dfs" every step keeps the input; what is left is SearchInv. *)
LEMMA StaysInSearch ==
    ASSUME IInv, phase = "dfs", phase' = "dfs", verdict' = verdict,
           UNCHANGED <<input, pos>>, TypeOK', SearchInv'
    PROVE  IInv'
<1>1. ScanInv' /\ pos' = Len(plan') + 1
  BY SearchFacts, InputUnchanged DEF IInv, ScanInv, input
<1>2. verdict = "none"
  BY SearchFacts
<1>3. QED
  BY <1>1, <1>2 DEF IInv, VerdictExact, CycleIsReal

(* A node new to the search goes on the stack, as root or as dependency. *)
LEMMA RootStep ==
    ASSUME IInv, NEW n \in NodeIds, VisitRoot(n)
    PROVE  IInv'
<1>0. phase = "dfs" /\ stack = <<>> /\ n \in roots /\ roots' = roots \ {n}
  BY DEF VisitRoot
<1>1. UNCHANGED <<input, pos, todo>>
  BY DEF VisitRoot
<1>2. Ids' = Ids /\ Graph' = Graph /\ n \in Ids
  BY <1>0, <1>1, InputUnchanged DEF IInv, TypeOK
<1>3. Graph \in [Ids -> SUBSET Ids] /\ SearchInv /\ TypeOK /\ Len(stack) = 0
  BY <1>0, SearchFacts
<1>4. CASE n \in visited
  <2>1. UNCHANGED <<stack, visiting, visited, phase, verdict>>
    BY <1>4 DEF VisitRoot
  <2>2. TypeOK'
    BY <1>0, <1>1, <1>2, <1>3, <2>1 DEF TypeOK, input
  <2>3. StackIsPath' /\ ExploredIsKnown' /\ VisitedIsAcyclic'
    BY <1>1, <1>2, <1>3, <2>1
       DEF SearchInv, StackIsPath, ExploredIsKnown, VisitedIsAcyclic, Top
  <2>4. SearchInv'
    BY <1>0, <1>1, <1>2, <1>3, <1>4, <2>1, <2>3 DEF SearchInv
  <2>5. QED
    BY <1>0, <1>1, <2>1, <2>2, <2>4, StaysInSearch
<1>5. CASE n \notin visited
  <2>1. /\ stack' = Append(stack, n) /\ visiting' = visiting \cup {n}
        /\ UNCHANGED <<visited, phase, verdict>>
    BY <1>5 DEF VisitRoot, Push
  <2>2. visiting = {}
    BY <1>3 DEF SearchInv, StackIsPath
  <2>3. stack' = <<n>> /\ Len(stack') = 1 /\ stack'[1] = n /\ visiting' = {n}
    BY <1>0, <2>1, <2>2
  <2>4. TypeOK'
    BY <1>0, <1>1, <1>2, <1>3, <2>1, <2>3 DEF TypeOK, input
  <2>5. todo[n] = Graph[n]
    BY <1>2, <1>3, <1>5, <2>2 DEF SearchInv, ExploredIsKnown
  <2>6. StackIsPath'
    BY <2>3 DEF StackIsPath
  <2>7. ExploredIsKnown'
    BY <1>1, <1>2, <1>3, <2>1, <2>2, <2>3, <2>5 DEF SearchInv, ExploredIsKnown, Top
  <2>8. VisitedIsAcyclic'
    BY <1>2, <1>3, <2>1 DEF SearchInv, VisitedIsAcyclic
  <2>9. SearchInv'
    BY <1>0, <1>1, <1>2, <1>3, <1>5, <2>1, <2>2, <2>3, <2>6, <2>7, <2>8
       DEF SearchInv
  <2>10. QED
    BY <1>0, <1>1, <2>1, <2>4, <2>9, StaysInSearch
<1>6. QED
  BY <1>4, <1>5

LEMMA LeaveStep ==
    ASSUME IInv, Leave
    PROVE  IInv'
<1> DEFINE m == Len(stack)
<1>0. /\ phase = "dfs" /\ stack # <<>> /\ todo[Top] = {}
      /\ visiting' = visiting \ {Top} /\ visited' = visited \cup {Top}
      /\ stack' = SubSeq(stack, 1, m - 1)
      /\ UNCHANGED <<input, pos, roots, todo, phase, verdict>>
  BY DEF Leave
<1>1. Ids' = Ids /\ Graph' = Graph
  BY <1>0, InputUnchanged
<1>2. /\ Graph \in [Ids -> SUBSET Ids] /\ SearchInv /\ TypeOK
      /\ stack \in Seq(Ids) /\ m \in Nat \ {0} /\ Top = stack[m] /\ Top \in Ids
  BY <1>0, SearchFacts DEF Top
<1>3. /\ Len(stack') = m - 1 /\ stack' \in Seq(Ids)
      /\ \A i \in 1..(m - 1) : stack'[i] = stack[i]
  <2>1. m - 1 \in Nat /\ 1 \in Int /\ \A i \in 1..(m - 1) : stack[i] \in Ids
    BY <1>2
  <2>2. /\ SubSeq(stack, 1, m - 1) \in Seq(Ids)
        /\ Len(SubSeq(stack, 1, m - 1)) = IF 1 <= m - 1 THEN (m - 1) - 1 + 1 ELSE 0
        /\ \A i \in 1..((m - 1) - 1 + 1) : SubSeq(stack, 1, m - 1)[i] = stack[1 + i - 1]
    BY <2>1, SubSeqProperties
  <2>3. \A i \in 1..(m - 1) : i \in 1..((m - 1) - 1 + 1) /\ 1 + i - 1 = i
    BY <2>1
  <2>4. \A i \in 1..(m - 1) : SubSeq(stack, 1, m - 1)[i] = stack[i]
    BY <2>2, <2>3
  <2>5. Len(SubSeq(stack, 1, m - 1)) = m - 1
    <3>1. CASE m = 1
      BY <2>2, <3>1
    <3>2. CASE m # 1
      <4>0. m \in Nat \ {0}
        BY <1>2
      <4> HIDE DEF m
      <4>1. 1 <= m - 1 /\ (m - 1) - 1 + 1 = m - 1
        BY <4>0, <3>2
      <4>2. QED
        BY <2>2, <4>1
    <3>3. QED
      BY <3>1, <3>2
  <2>6. QED
    BY <1>0, <2>2, <2>4, <2>5
<1> HIDE DEF m
<1>4. /\ \A i, j \in 1..m : stack[i] = stack[j] => i = j
      /\ visiting = {stack[i] : i \in 1..m}
      /\ \A i \in 1..(m - 1) : stack[i + 1] \in Graph[stack[i]]
  BY <1>2 DEF SearchInv, StackIsPath, m
<1>5. Top \in visiting /\ Top \notin visited /\ Graph[Top] \subseteq visited
  BY <1>0, <1>2, <1>4 DEF SearchInv, ExploredIsKnown
<1>6. TypeOK'
  BY <1>0, <1>1, <1>2, <1>3 DEF TypeOK, input
<1>7. visiting' = {stack[i] : i \in 1..(m - 1)}
  BY <1>0, <1>2, <1>4
<1>8. StackIsPath'
  <2>1. visiting' = {stack'[i] : i \in 1..Len(stack')}
    BY <1>2, <1>3, <1>7
  <2>2. \A i, j \in 1..Len(stack') : stack'[i] = stack'[j] => i = j
    BY <1>2, <1>3, <1>4
  <2>3. \A i \in 1..(Len(stack') - 1) : stack'[i + 1] \in Graph[stack'[i]]
    <3>1. SUFFICES ASSUME NEW i \in 1..(Len(stack') - 1)
                   PROVE  stack'[i + 1] \in Graph[stack'[i]]
      OBVIOUS
    <3>2. i \in 1..(m - 1) /\ i + 1 \in 1..(m - 1)
      BY <1>2, <1>3, <3>1
    <3>3. stack'[i] = stack[i] /\ stack'[i + 1] = stack[i + 1]
      BY <1>3, <3>2
    <3>4. stack[i + 1] \in Graph[stack[i]]
      BY <1>4, <3>2
    <3>5. QED
      BY <3>3, <3>4
  <2>4. QED
    BY <1>1, <2>1, <2>2, <2>3 DEF StackIsPath
<1>9. ExploredIsKnown'
  <2>1. \A i \in 1..(m - 1) :
           Graph[stack[i]] \ todo[stack[i]] \subseteq visited \cup {stack[i + 1]}
    BY <1>2 DEF SearchInv, ExploredIsKnown, m
  <2>2. \A i \in 1..(Len(stack') - 1) :
           Graph[stack'[i]] \ todo[stack'[i]] \subseteq visited' \cup {stack'[i + 1]}
    BY <1>0, <1>2, <1>3, <2>1
  <2>3. stack' # <<>> => Graph[Top'] \ todo[Top'] \subseteq visited'
    <3>1. SUFFICES ASSUME stack' # <<>> PROVE Graph[Top'] \ todo[Top'] \subseteq visited'
      OBVIOUS
    <3>2. m - 1 \in 1..(m - 1) /\ Top' = stack[m - 1]
      BY <1>2, <1>3, <3>1 DEF Top
    <3>3. QED
      BY <1>0, <1>2, <2>1, <3>2
  <2>4. \A k \in Ids \ (visiting' \cup visited') : todo[k] = Graph[k]
    BY <1>0, <1>2 DEF SearchInv, ExploredIsKnown
  <2>5. QED
    BY <1>0, <1>1, <1>2, <2>2, <2>3, <2>4 DEF SearchInv, ExploredIsKnown
<1>10. VisitedIsAcyclic'
  <2>1. \A k \in visited' : Graph[k] \subseteq visited'
    BY <1>0, <1>2, <1>5 DEF SearchInv, VisitedIsAcyclic
  <2>2. ASSUME NEW S \in SUBSET visited', S # {}
        PROVE  HasSource(Graph, S)
    <3>1. CASE S \cap visited = {}
      BY <1>0, <1>5, <2>2, <3>1 DEF HasSource
    <3>2. CASE S \cap visited # {}
      <4>1. PICK k \in S \cap visited : Graph[k] \cap (S \cap visited) = {}
        BY <1>2, <3>2 DEF SearchInv, VisitedIsAcyclic, HasSource
      <4>2. Graph[k] \subseteq visited
        BY <1>2, <4>1 DEF SearchInv, VisitedIsAcyclic
      <4>3. QED
        BY <4>1, <4>2 DEF HasSource
    <3>3. QED
      BY <3>1, <3>2
  <2>3. QED
    BY <1>1, <2>1, <2>2 DEF VisitedIsAcyclic
<1>11. SearchInv'
  BY <1>0, <1>1, <1>2, <1>5, <1>8, <1>9, <1>10 DEF SearchInv
<1>12. QED
  BY <1>0, <1>6, <1>11, StaysInSearch

(* A dependency of the innermost frame: seen on the stack, seen finished,  *)
(* or new.                                                                 *)
LEMMA DepStep ==
    ASSUME IInv, NEW d \in NodeIds, VisitDep(d)
    PROVE  IInv'
<1> DEFINE m == Len(stack)
<1>0. /\ phase = "dfs" /\ stack # <<>> /\ d \in todo[Top]
      /\ todo' = [todo EXCEPT ![Top] = @ \ {d}]
      /\ UNCHANGED <<input, pos, roots>>
  BY DEF VisitDep
<1>1. Ids' = Ids /\ Graph' = Graph
  BY <1>0, InputUnchanged
<1>2. /\ Graph \in [Ids -> SUBSET Ids] /\ SearchInv /\ TypeOK
      /\ stack \in Seq(Ids) /\ m \in Nat \ {0} /\ Top = stack[m] /\ Top \in Ids
      /\ Runnable <=> Acyclic(Graph)
      /\ plan # <<>>
  BY <1>0, SearchFacts DEF Top
<1>3. /\ \A i, j \in 1..m : stack[i] = stack[j] => i = j
      /\ visiting = {stack[i] : i \in 1..m}
      /\ \A i \in 1..(m - 1) : stack[i + 1] \in Graph[stack[i]]
      /\ \A i \in 1..m : stack[i] \in Ids
  <2>1. StackIsPath
    BY <1>2 DEF SearchInv
  <2>2. \A i \in 1..m : stack[i] \in Ids
    BY <1>2
  <2> HIDE DEF m
  <2>3. QED
    BY <2>1, <2>2, Zenon DEF StackIsPath, m
<1>4. d \in Graph[Top] /\ d \in Ids /\ todo \in [Ids -> SUBSET NodeIds]
  BY <1>0, <1>2 DEF SearchInv, ExploredIsKnown
<1>5. /\ todo'[Top] = todo[Top] \ {d}
      /\ \A k \in Ids \ {Top} : todo'[k] = todo[k]
      /\ todo' \in [Ids -> SUBSET NodeIds]
  BY <1>0, <1>2, <1>4
<1>6. CASE d \in visiting
  <2>1. /\ phase' = "done" /\ verdict' = "cycle"
        /\ UNCHANGED <<stack, visiting, visited>>
    BY <1>2, <1>6 DEF VisitDep, Return, SearchInv
  <2>2. TypeOK'
    BY <1>0, <1>1, <1>2, <1>5, <2>1 DEF TypeOK, input, Errors
  <2>3. PICK j \in 1..m : stack[j] = d
    BY <1>3, <1>6
  <2> DEFINE S == {stack[i] : i \in j..m}
  <2>4. S \in SUBSET Ids /\ d \in S
    BY <1>2, <1>3, <2>3
  <2>5. \A n \in S : Graph[n] \cap S # {}
    <3>1. ASSUME NEW i \in j..m
          PROVE  \E x \in j..m : stack[x] \in Graph[stack[i]]
      <4>1. CASE i = m
        BY <1>2, <1>4, <2>3, <4>1
      <4>2. CASE i # m
        <5>1. i \in 1..(m - 1) /\ i + 1 \in j..m
          BY <1>2, <4>2
        <5>2. QED
          BY <1>3, <5>1
      <4>3. QED
        BY <4>1, <4>2
    <3>2. SUFFICES ASSUME NEW n \in S PROVE Graph[n] \cap S # {}
      OBVIOUS
    <3>3. PICK i \in j..m : n = stack[i]
      OBVIOUS
    <3>4. PICK x \in j..m : stack[x] \in Graph[n]
      BY <3>1, <3>3
    <3>5. QED
      BY <3>4
  <2> HIDE DEF S
  <2>6. ~Acyclic(Graph)
    BY <1>2, <2>4, <2>5 DEF Acyclic, HasSource
  <2>7. CycleIsReal'
    BY <1>1, <2>1, <2>4, <2>5 DEF CycleIsReal
  <2>8. VerdictExact'
    BY <1>0, <1>2, <2>1, <2>6, InputUnchanged DEF VerdictExact, input
  <2>9. QED
    BY <2>1, <2>2, <2>7, <2>8 DEF IInv
<1>7. CASE d \notin visiting /\ d \in visited
  <2>1. UNCHANGED <<stack, visiting, visited, phase, verdict>>
    BY <1>7 DEF VisitDep
  <2>2. TypeOK'
    BY <1>0, <1>1, <1>2, <1>5, <2>1 DEF TypeOK, input
  <2>3. StackIsPath'
    BY <1>1, <1>2, <2>1 DEF SearchInv, StackIsPath
  <2>4. ExploredIsKnown'
    <3>1. Top \in visiting
      BY <1>2, <1>3
    <3>2. \A i \in 1..(m - 1) : stack[i] # Top /\ stack[i] \in Ids
      BY <1>2, <1>3
    <3>3. \A i \in 1..(m - 1) :
             Graph[stack[i]] \ todo'[stack[i]] \subseteq visited \cup {stack[i + 1]}
      BY <1>2, <1>5, <3>2 DEF SearchInv, ExploredIsKnown
    <3>4. Graph[Top] \ todo'[Top] \subseteq visited
      BY <1>0, <1>2, <1>5, <1>7 DEF SearchInv, ExploredIsKnown
    <3>5. \A n \in Ids : todo'[n] \subseteq Graph[n]
      BY <1>2, <1>5 DEF SearchInv, ExploredIsKnown
    <3>6. \A n \in Ids \ (visiting \cup visited) : todo'[n] = Graph[n]
      BY <1>2, <1>5, <3>1 DEF SearchInv, ExploredIsKnown
    <3>7. Top' = Top
      BY <2>1 DEF Top
    <3>8. QED
      BY <1>1, <2>1, <3>3, <3>4, <3>5, <3>6, <3>7 DEF ExploredIsKnown
  <2>5. VisitedIsAcyclic'
    BY <1>1, <1>2, <2>1 DEF SearchInv, VisitedIsAcyclic
  <2>6. SearchInv'
    BY <1>0, <1>1, <1>2, <1>5, <2>1, <2>3, <2>4, <2>5 DEF SearchInv
  <2>7. QED
    BY <1>0, <2>1, <2>2, <2>6, StaysInSearch
<1>8. CASE d \notin visiting /\ d \notin visited
  <2>1. /\ stack' = Append(stack, d) /\ visiting' = visiting \cup {d}
        /\ UNCHANGED <<visited, phase, verdict>>
    BY <1>8 DEF VisitDep, Push
  <2>2. /\ stack' \in Seq(Ids) /\ Len(stack') = m + 1 /\ stack'[m + 1] = d
        /\ \A i \in 1..m : stack'[i] = stack[i]
    BY <1>2, <1>4, <2>1, AppendProperties
  <2> HIDE DEF m
  <2>3. TypeOK'
    BY <1>0, <1>1, <1>2, <1>4, <1>5, <2>1, <2>2 DEF TypeOK, input
  <2>4. Top' = d /\ d # Top /\ Top \in visiting
    BY <1>2, <1>3, <1>8, <2>2 DEF Top
  <2>5. StackIsPath'
    <3>1. visiting' = {stack'[i] : i \in 1..Len(stack')}
      BY <1>2, <1>3, <2>1, <2>2
    <3>2. \A i, j \in 1..Len(stack') : stack'[i] = stack'[j] => i = j
      BY <1>2, <1>3, <1>8, <2>2
    <3>3. \A i \in 1..(Len(stack') - 1) : stack'[i + 1] \in Graph[stack'[i]]
      <4>1. SUFFICES ASSUME NEW i \in 1..m PROVE stack'[i + 1] \in Graph[stack'[i]]
        BY <1>2, <2>2
      <4>2. CASE i = m
        BY <1>2, <1>4, <2>2, <4>2
      <4>3. CASE i # m
        <5>1. i \in 1..(m - 1) /\ i + 1 \in 1..m
          BY <1>2, <4>3
        <5>2. QED
          BY <1>3, <2>2, <5>1
      <4>4. QED
        BY <4>2, <4>3
    <3>4. QED
      BY <1>1, <3>1, <3>2, <3>3 DEF StackIsPath
  <2>6. ExploredIsKnown'
    <3>1. \A i \in 1..(m - 1) : stack[i] # Top /\ stack[i] \in Ids
      BY <1>2, <1>3
    <3>2. \A i \in 1..(m - 1) :
             Graph[stack[i]] \ todo'[stack[i]] \subseteq visited \cup {stack[i + 1]}
      BY <1>2, <1>5, <3>1 DEF SearchInv, ExploredIsKnown, m
    <3>3. Graph[Top] \ todo'[Top] \subseteq visited \cup {d}
      BY <1>0, <1>2, <1>5 DEF SearchInv, ExploredIsKnown
    <3>4. \A i \in 1..(Len(stack') - 1) :
             Graph[stack'[i]] \ todo'[stack'[i]] \subseteq visited \cup {stack'[i + 1]}
      <4>1. SUFFICES ASSUME NEW i \in 1..m
                     PROVE  Graph[stack'[i]] \ todo'[stack'[i]]
                              \subseteq visited \cup {stack'[i + 1]}
        BY <1>2, <2>2
      <4>2. CASE i = m
        BY <1>2, <2>2, <3>3, <4>2
      <4>3. CASE i # m
        <5>1. i \in 1..(m - 1) /\ i + 1 \in 1..m
          BY <1>2, <4>3
        <5>2. QED
          BY <2>2, <3>2, <5>1
      <4>4. QED
        BY <4>2, <4>3
    <3>5. \A n \in Ids : todo'[n] \subseteq Graph[n]
      BY <1>2, <1>5 DEF SearchInv, ExploredIsKnown
    <3>6. \A n \in Ids \ (visiting' \cup visited) : todo'[n] = Graph[n]
      BY <1>2, <1>5, <2>1, <2>4 DEF SearchInv, ExploredIsKnown
    <3>7. Graph[d] \ todo'[d] = {}
      BY <1>2, <1>4, <1>5, <1>8, <2>4 DEF SearchInv, ExploredIsKnown
    <3>8. QED
      BY <1>1, <2>1, <2>4, <3>4, <3>5, <3>6, <3>7 DEF ExploredIsKnown
  <2>7. VisitedIsAcyclic'
    BY <1>1, <1>2, <2>1 DEF SearchInv, VisitedIsAcyclic
  <2>8. SearchInv'
    BY <1>0, <1>1, <1>2, <1>5, <1>8, <2>1, <2>5, <2>6, <2>7 DEF SearchInv
  <2>9. QED
    BY <1>0, <2>1, <2>3, <2>8, StaysInSearch
<1>9. QED
  BY <1>6, <1>7, <1>8

LEMMA AcceptStep ==
    ASSUME IInv, Accept
    PROVE  IInv'
<1>1. /\ phase = "dfs" /\ stack = <<>> /\ roots = {}
      /\ phase' = "done" /\ verdict' = "ok" /\ UNCHANGED <<input, pos, search>>
  BY DEF Accept, Return
<1>2. /\ Graph \in [Ids -> SUBSET Ids] /\ SearchInv /\ TypeOK /\ Len(stack) = 0
      /\ Runnable <=> Acyclic(Graph)
  BY <1>1, SearchFacts
<1>3. visited = Ids
  <2>1. visiting = {}
    BY <1>2 DEF SearchInv, StackIsPath
  <2>2. QED
    BY <1>1, <1>2, <2>1 DEF SearchInv, TypeOK
<1>4. Acyclic(Graph)
  BY <1>2, <1>3 DEF SearchInv, VisitedIsAcyclic, Acyclic
<1>5. VerdictExact'
  BY <1>1, <1>2, <1>4, InputUnchanged DEF VerdictExact, input
<1>6. TypeOK'
  BY <1>1, <1>2, InputUnchanged DEF TypeOK, input, search
<1>7. QED
  BY <1>1, <1>5, <1>6 DEF IInv, CycleIsReal

-----------------------------------------------------------------------------
(* IInv is inductive. *)
LEMMA StepInv == IInv /\ [Next]_vars => IInv'
<1> SUFFICES ASSUME IInv, [Next]_vars PROVE IInv'
  OBVIOUS
<1>1. CASE CheckShape
  BY <1>1, ShapeStep
<1>2. CASE CheckNode
  BY <1>2, ScanStep
<1>3. CASE StartSearch
  BY <1>3, StartStep
<1>4. ASSUME NEW n \in NodeIds, VisitRoot(n) PROVE IInv'
  BY <1>4, RootStep
<1>5. ASSUME NEW n \in NodeIds, VisitDep(n) PROVE IInv'
  BY <1>5, DepStep
<1>6. CASE Leave
  BY <1>6, LeaveStep
<1>7. CASE Accept
  BY <1>7, AcceptStep
<1>8. CASE UNCHANGED vars
  <2>1. UNCHANGED input /\ UNCHANGED search /\ UNCHANGED <<phase, pos, verdict>>
    BY <1>8 DEF vars, input, search
  <2>2. Ids' = Ids /\ Graph' = Graph /\ Runnable' = Runnable
    BY <2>1, InputUnchanged
  <2>3. TypeOK' /\ VerdictExact' /\ CycleIsReal'
    BY <2>1, <2>2 DEF IInv, TypeOK, VerdictExact, CycleIsReal, input, search
  <2>4. ScanInv' <=> ScanInv
    BY <1>8 DEF ScanInv, vars, NodeError, Ids, IdsOf, UniqueIds
  <2>5. SearchInv' <=> SearchInv
    BY <2>1, <2>2 DEF SearchInv, StackIsPath, ExploredIsKnown, VisitedIsAcyclic,
                      Top, search
  <2>6. QED
    BY <2>1, <2>3, <2>4, <2>5 DEF IInv, input, search
<1>9. QED
  BY <1>1, <1>2, <1>3, <1>4, <1>5, <1>6, <1>7, <1>8 DEF Next

(* The variables keep their types for any plans, roles and registries. *)
THEOREM TypeCorrect == Spec => []TypeOK
<1>1. IInv => TypeOK
  BY DEF IInv
<1>2. QED
  BY InitInv, StepInv, <1>1, PTL DEF Spec

(* PlanValidator.validate accepts exactly the runnable plans (and the      *)
(* empty clarifications), for every size of plan and every registry.       *)
THEOREM VerdictIsExact == Spec => []VerdictExact
<1>1. IInv => VerdictExact
  BY DEF IInv
<1>2. QED
  BY InitInv, StepInv, <1>1, PTL DEF Spec

(* "Plan contains a cycle" is never raised for an acyclic plan. *)
THEOREM CyclesAreReal == Spec => []CycleIsReal
<1>1. IInv => CycleIsReal
  BY DEF IInv
<1>2. QED
  BY InitInv, StepInv, <1>1, PTL DEF Spec

-----------------------------------------------------------------------------
(* FollowUps: what is remembered. *)
Remembers(m) ==
    /\ DOMAIN m = {"cohort", "listed", "constraints", "facet", "counted", "he", "known"}
    /\ m.cohort \subseteq People
    /\ m.listed \subseteq People
    /\ DOMAIN m.constraints \subseteq Remembered
    /\ m.counted \in BOOLEAN
    /\ m.he \in People \cup {None}
    /\ m.known \subseteq People

Known == Remembered \cup {"hire_date_gte", "hire_date_gt"}

(* What every plan is. *)
Sound(p) ==
    /\ p.among # None => p.among \subseteq People
    /\ p.does \in {"person", "skills", "manager", "team"} => p.who \in People
    /\ p.who # None => p.who \in People
    /\ p.does = "count" => DOMAIN p.filters \subseteq Known
    /\ Lists(p) => p.dim = None

-----------------------------------------------------------------------------
LEMMA OverDomain ==
  ASSUME NEW f, NEW g
  PROVE  DOMAIN Over(f, g) = DOMAIN f \cup DOMAIN g
  BY DEF Over

LEMMA PartDomain ==
  ASSUME NEW f
  PROVE  /\ DOMAIN Place(f) = DOMAIN f \cap PlaceFields
         /\ DOMAIN Sql(f) = DOMAIN f \ PlaceFields
         /\ DOMAIN Department(f) = DOMAIN f \cap {"department"}
  BY DEF Place, Sql, Department, Restrict

LEMMA MentionedDomain ==
  ASSUME NEW q
  PROVE  DOMAIN Mentioned(q) \subseteq {"department"}
<1>1. DOMAIN <<>> = {}
  OBVIOUS
<1> QED
  BY <1>1 DEF Mentioned, Only

LEMMA PlanFields ==
  ASSUME NEW does, NEW among, NEW filters, NEW skill
  PROVE  LET p == Plan(does, among, filters, skill)
         IN  /\ p.does = does /\ p.among = among /\ p.filters = filters /\ p.skill = skill
             /\ p.dim = None /\ p.who = None /\ p.code = None
  BY DEF Plan

LEMMA SayFields ==
  ASSUME NEW code
  PROVE  Say(code).does = "say" /\ Sound(Say(code))
  BY DEF Say, Plan, Sound, Lists

LEMMA ValuesFields ==
  ASSUME NEW dim, NEW does
  PROVE  /\ Values(dim, does).does = does
         /\ does \in {"values", "count values"} => Sound(Values(dim, does))
  BY DEF Values, Plan, Sound, Lists

LEMMA PersonFields ==
  ASSUME NEW p, NEW does
  PROVE  /\ Person(p, does).does = does
         /\ does \in {"person", "skills", "manager"} /\ p \in People => Sound(Person(p, does))
  BY DEF Person, Plan, Sound, Lists

LEMMA EmptyDomain == DOMAIN <<>> = {}
  OBVIOUS

LEMMA PlainSound ==
  ASSUME NEW does, NEW among, NEW filters, NEW skill,
         does \notin {"person", "skills", "manager", "team"},
         among # None => among \subseteq People,
         does = "count" => DOMAIN filters \subseteq Known
  PROVE  Sound(Plan(does, among, filters, skill))
  BY PlanFields DEF Sound, Lists

LEMMA TeamSound ==
  ASSUME NEW p \in People, NEW skill, NEW place
  PROVE  /\ Team(p, skill, place).does = "team"
         /\ Sound(Team(p, skill, place))
  BY DEF Team, Plan, Sound, Lists, ReportsTo

-----------------------------------------------------------------------------
(* What extraction finds: conditions of known fields, an intent that says  *)
(* what the question named, and conditions for whatever is listed.         *)
LEMMA ReadFields ==
  ASSUME NEW intent, NEW filters, NEW sure
  PROVE  LET x == Read(intent, filters, sure)
         IN  x.intent = intent /\ x.filters = filters /\ x.sure = sure
  BY DEF Read

LEMMA QuestionFacts ==
  ASSUME NEW q \in Questions
  PROVE  /\ DOMAIN q.filters \subseteq Remembered
         /\ DOMAIN q.hired \subseteq {"hire_date_gte", "hire_date_gt"}
         /\ q.says \cap {"about", "manager", "reports", "whereabouts"} # {} => q.who \in People
         /\ q.says \cap {"names", "meta"} # {} => Says(q, "refers")
         /\ Says(q, "headcount") => ~Says(q, "refers")
         /\ Says(q, "bare skill") => q.skill # None
  BY FollowUpAssumption DEF Says

LEMMA MergedFacts ==
  ASSUME NEW q, NEW m, NEW own, DOMAIN own \subseteq Known,
         DOMAIN m.constraints \subseteq Remembered
  PROVE  /\ DOMAIN own \subseteq DOMAIN Merged(q, m, own)
         /\ DOMAIN Merged(q, m, own) \subseteq Known
  BY OverDomain DEF Merged, Known

Intends(q, x) ==
    /\ x.intent \in {"unsupported", "count", "list", "tenure_agg", "longest_tenured",
                     "skill_search", "reports", "manager", "profile", "facet_count",
                     "facet_list", "unknown"}
    /\ x.intent = "manager" => Says(q, "manager")
    /\ x.intent = "profile" => Says(q, "about")
    /\ x.intent = "reports" => Says(q, "reports")
    /\ x.intent = "longest_tenured" => Says(q, "longest")
    /\ DOMAIN x.filters \subseteq Known

LEMMA ExtractedIntends ==
  ASSUME NEW q \in Questions, NEW m, Remembers(m)
  PROVE  Intends(q, Extracted(q, m))
<1> DEFINE own == Over(q.filters, q.hired)
<1>1. DOMAIN own \subseteq Known /\ DOMAIN q.filters \subseteq Known
  BY QuestionFacts, OverDomain DEF Known
<1>2. DOMAIN Merged(q, m, own) \subseteq Known /\ DOMAIN Merged(q, m, q.filters) \subseteq Known
  BY <1>1, MergedFacts DEF Remembers
<1> DEFINE intends(i, f) == \A b \in BOOLEAN : Intends(q, Read(i, f, b))
<1> HIDE DEF own
<1>3. \A i \in {"count", "list", "tenure_agg", "skill_search"} :
         intends(i, Merged(q, m, own)) /\ intends(i, Merged(q, m, q.filters))
  BY <1>2, ReadFields DEF Intends
<1>4. \A i \in {"facet_count", "facet_list", "unknown"} : intends(i, own)
  BY <1>1, ReadFields DEF Intends
<1>5. /\ Says(q, "longest") => intends("longest_tenured", Merged(q, m, q.filters))
      /\ Says(q, "reports") => intends("reports", Merged(q, m, own))
      /\ Says(q, "manager") => intends("manager", own)
      /\ Says(q, "about") => intends("profile", own)
  BY <1>1, <1>2, ReadFields DEF Intends
<1>6. intends("unsupported", <<>>)
  BY EmptyDomain, ReadFields DEF Intends
<1>7. Intends(q, ExtractedSet(q, m, own))
  BY <1>3, <1>4 DEF ExtractedSet, Empty, Says
<1> QED
  BY <1>3, <1>4, <1>5, <1>6, <1>7 DEF Extracted, own

-----------------------------------------------------------------------------
(* Every planner's plans are sound.                                        *)
LEMMA DeclinesSound == Declines.does = "decline" /\ Sound(Declines)
  BY PlainSound, PlanFields, EmptyDomain DEF Declines

LEMMA SmallSound ==
  /\ \A code : Sound(Say(code))
  /\ \A dim : Sound(Values(dim, "values")) /\ Sound(Values(dim, "count values"))
  /\ \A p \in People :
        Sound(Person(p, "person")) /\ Sound(Person(p, "skills")) /\ Sound(Person(p, "manager"))
  /\ \A p : Sound(Reports(p))
  BY SayFields, ValuesFields, PersonFields, PlainSound DEF Reports

(* Conditions of a list or of a count. *)
LEMMA FilteredSound ==
  ASSUME NEW filters, DOMAIN filters \subseteq Known,
         NEW does \in {"list", "count", "headcount", "tenure"}
  PROVE  Sound(Filtered(does, filters))
  BY PlainSound DEF Filtered

LEMMA OverIdsSound ==
  ASSUME NEW m, Remembers(m), NEW extra, DOMAIN extra \subseteq Known,
         NEW does \in {"list", "count"}
  PROVE  Sound(OverIds(does, m.cohort, extra)) /\ Sound(OverIds(does, m.listed, extra))
  BY PlainSound DEF OverIds, Remembers

LEMMA AmongType ==
  ASSUME NEW q, NEW m, Remembers(m)
  PROVE  Among(q, m) # None => Among(q, m) \subseteq People
  BY DEF Among, Remembers

(* Parts of what is asked and of what is remembered. *)
LEMMA ConditionsKnown ==
  ASSUME NEW q \in Questions, NEW m, Remembers(m)
  PROVE  /\ DOMAIN Place(q.filters) \subseteq Known
         /\ DOMAIN Department(q.filters) \subseteq Known
         /\ DOMAIN Mentioned(q) \subseteq Known
         /\ DOMAIN q.hired \subseteq Known
         /\ DOMAIN Place(m.constraints) \subseteq Known
         /\ DOMAIN Sql(m.constraints) \subseteq Known
<1>1. DOMAIN q.filters \subseteq Known /\ DOMAIN q.hired \subseteq Known
  BY QuestionFacts DEF Known
<1>2. DOMAIN m.constraints \subseteq Known
  BY DEF Known, Remembers
<1>3. DOMAIN Mentioned(q) \subseteq Known
  BY MentionedDomain DEF Known, Remembered
<1> QED
  BY <1>1, <1>2, <1>3, PartDomain

LEMMA OverKnown ==
  ASSUME NEW f, NEW g, DOMAIN f \subseteq Known, DOMAIN g \subseteq Known
  PROVE  DOMAIN Over(f, g) \subseteq Known
  BY OverDomain

LEMMA DoesType ==
  ASSUME NEW q
  PROVE  CountOr(q, "list") \in {"list", "count"} /\ Refine(q) \in {"list", "count"}
  BY DEF CountOr, Refine

LEMMA RepeatSound == \A m : Remembers(m) => Sound(Repeat(m))
  BY SmallSound, OverIdsSound, EmptyDomain DEF Repeat

LEMMA OneOfThem == \A people : IsOne(people) => TheOne(people) \in People
  BY DEF IsOne, TheOne

LEMMA PronounSound == \A m : Remembers(m) => Sound(Pronoun(m))
  BY SmallSound, OneOfThem DEF Pronoun, Remembers

LEMMA EllipticalSound == \A q, m : Remembers(m) => Sound(Elliptical(q, m))
<1> SUFFICES ASSUME NEW q, NEW m, Remembers(m)
             PROVE  Sound(Elliptical(q, m))
  OBVIOUS
<1>1. m.he # None => m.he \in People
  BY DEF Remembers
<1> QED
  BY <1>1, OneOfThem, SmallSound, DeclinesSound DEF Elliptical

LEMMA StructuredSound ==
  ASSUME NEW q \in Questions, NEW x, Intends(q, x), NEW m, Remembers(m)
  PROVE  Sound(Structured(q, x, m))
<1>1. DOMAIN x.filters \subseteq Known /\ DOMAIN Department(x.filters) \subseteq Known
  BY PartDomain DEF Intends
<1>2. \A does \in {"list", "count"} : \A skill :
         Sound(Plan(does, Among(q, m), x.filters, skill))
  BY <1>1, AmongType, PlainSound
<1>3. /\ Sound(Filtered("tenure", Department(x.filters)))
      /\ Sound(Filtered("list", Department(x.filters)))
      /\ Sound(Filtered("headcount", <<>>))
      /\ Sound(OverIds("list", m.cohort, <<>>))
  BY <1>1, FilteredSound, OverIdsSound, EmptyDomain
<1>4. CountOr(q, "list") \in {"list", "count"}
  BY DoesType
<1>5. x.intent \in {"manager", "profile"} => q.who \in People
  BY QuestionFacts DEF Intends, Says
<1> QED
  BY <1>2, <1>3, <1>4, <1>5, SmallSound, DeclinesSound DEF Structured

LEMMA ClaimedSound ==
  ASSUME NEW q \in Questions, NEW m, Remembers(m)
  PROVE  Sound(Claimed(q, m))
<1> DEFINE scope == Sql(m.constraints)
<1>1. DOMAIN scope \subseteq Known /\ DOMAIN Mentioned(q) \subseteq Known
  BY ConditionsKnown
<1>2. /\ Sound(Filtered("count", <<>>))
      /\ Sound(Filtered("count", Mentioned(q)))
  BY <1>1, FilteredSound, EmptyDomain
<1>3. /\ Sound(Plan("count", m.cohort, <<>>, q.skill))
      /\ Sound(Plan("list", None, scope, q.skill))
      /\ Sound(Plan("count", None, scope, q.skill))
  BY <1>1, PlainSound, EmptyDomain DEF Remembers
<1>4. Familiar(q, m) => q.who \in People
  BY DEF Familiar, Remembers
<1> QED
  BY <1>2, <1>3, <1>4, SmallSound, RepeatSound, PronounSound, EllipticalSound, DeclinesSound
  DEF Claimed

LEMMA NamedOrListedSound ==
  ASSUME NEW q \in Questions, NEW m, Remembers(m)
  PROVE  Sound(NamedOrListed(q, m))
<1>1. Says(q, "reports") \/ Says(q, "manager") \/ Says(q, "whereabouts") =>
         q.who \in People
  BY QuestionFacts DEF Says
<1>2. Sound(OverIds("list", m.cohort, <<>>))
  BY OverIdsSound, EmptyDomain
<1> QED
  BY <1>1, <1>2, SmallSound, TeamSound, DeclinesSound DEF NamedOrListed

LEMMA AboutThemSound ==
  ASSUME NEW q \in Questions, NEW m, Remembers(m)
  PROVE  Sound(AboutThem(q, m))
<1> DEFINE place == Over(Place(q.filters), Place(m.constraints))
           scope == Sql(m.constraints)
<1>1. /\ DOMAIN Place(q.filters) \subseteq Known
      /\ DOMAIN Department(q.filters) \subseteq Known
      /\ DOMAIN scope \subseteq Known
      /\ DOMAIN Over(place, scope) \subseteq Known
  BY ConditionsKnown, OverKnown
<1>2. \A does \in {"list", "count"} :
         /\ Sound(Plan(does, m.cohort, Place(q.filters), None))
         /\ Sound(OverIds(does, m.cohort, Department(q.filters)))
         /\ Sound(OverIds(does, m.cohort, <<>>))
         /\ Sound(Filtered(does, Over(place, scope)))
         /\ Sound(Filtered(does, scope))
  BY <1>1, PlainSound, OverIdsSound, FilteredSound, EmptyDomain DEF Remembers
<1> QED
  BY <1>2, DoesType, DeclinesSound DEF AboutThem

LEMMA OrgWideSound ==
  ASSUME NEW q \in Questions, NEW m, Remembers(m)
  PROVE  Sound(OrgWide(q, m))
<1> DEFINE place == Place(q.filters)
           kept(f) == Over(Over(place, Place(m.constraints)), f)
<1>1. /\ DOMAIN Mentioned(q) \subseteq Known
      /\ DOMAIN place \subseteq Known
      /\ DOMAIN Over(place, Mentioned(q)) \subseteq Known
      /\ DOMAIN q.hired \subseteq Known
      /\ DOMAIN kept(Sql(m.constraints)) \subseteq Known
      /\ DOMAIN kept(<<>>) \subseteq Known
  BY ConditionsKnown, OverKnown, EmptyDomain
<1>2. \A does \in {"list", "count"} :
         /\ Sound(Filtered(does, Over(place, Mentioned(q))))
         /\ Sound(Filtered(does, place))
         /\ Sound(Filtered(does, q.hired))
         /\ Sound(Plan(does, Among(q, m), kept(Sql(m.constraints)), q.skill))
         /\ Sound(Plan(does, Among(q, m), kept(<<>>), q.skill))
  BY <1>1, AmongType, PlainSound, FilteredSound
<1>3. /\ Sound(Filtered("tenure", Mentioned(q)))
      /\ Sound(Filtered("list", Mentioned(q)))
  BY <1>1, FilteredSound
<1>4. "position" \in DOMAIN q.filters =>
         Sound(Filtered("list", Only("position", q.filters["position"])))
  <2>1. DOMAIN Only("position", q.filters["position"]) \subseteq Known
    BY DEF Only, Known, Remembered
  <2> QED  BY <2>1, FilteredSound
<1> HIDE DEF place
<1> QED
  BY <1>2, <1>3, <1>4, DoesType, DeclinesSound DEF OrgWide, place

LEMMA LastChanceSound ==
  ASSUME NEW q \in Questions
  PROVE  Sound(LastChance(q))
<1>1. DOMAIN Place(q.filters) \subseteq Known /\ DOMAIN Mentioned(q) \subseteq Known
  BY PartDomain, QuestionFacts, MentionedDomain DEF Known, Remembered
<1>2. /\ Sound(Filtered(CountOr(q, "list"), Place(q.filters)))
      /\ Sound(Filtered("count", Mentioned(q)))
      /\ Sound(Filtered("count", <<>>))
  BY <1>1, FilteredSound, DoesType, EmptyDomain
<1>3. Says(q, "about") => q.who \in People
  BY QuestionFacts DEF Says
<1> QED
  BY <1>2, <1>3, SmallSound, DeclinesSound DEF LastChance

LEMMA HeuristicSound ==
  ASSUME NEW q \in Questions, NEW m, Remembers(m)
  PROVE  Sound(Heuristic(q, m))
  BY ClaimedSound, NamedOrListedSound, AboutThemSound, OrgWideSound, LastChanceSound
  DEF Heuristic, OrElse

LEMMA PersonGuardSound ==
  ASSUME NEW q \in Questions, NEW m, Remembers(m)
  PROVE  Sound(PersonGuard(q, m))
<1>1. Says(q, "about") => q.who \in People
  BY QuestionFacts DEF Says
<1>2. Sound(Filtered("count", <<>>))
  BY FilteredSound, EmptyDomain
<1> QED
  BY <1>1, <1>2, OneOfThem, SmallSound, RepeatSound, PronounSound, DeclinesSound
  DEF PersonGuard

LEMMA SetGuardSound ==
  ASSUME NEW q \in Questions, NEW x, Intends(q, x), NEW m, Remembers(m)
  PROVE  Sound(SetGuard(q, x, m))
<1>1. DOMAIN q.hired \subseteq Known /\ DOMAIN Place(q.filters) \subseteq Known
  BY ConditionsKnown
<1>2. /\ Sound(OverIds("list", m.cohort, <<>>))
      /\ Sound(OverIds("list", m.listed, <<>>))
      /\ Sound(Filtered(CountOr(q, "list"), q.hired))
      /\ Sound(Plan(Refine(q), m.cohort, Place(q.filters), None))
  BY <1>1, OverIdsSound, FilteredSound, PlainSound, DoesType, EmptyDomain DEF Remembers
<1> QED
  BY <1>2, SmallSound, StructuredSound, EllipticalSound, DeclinesSound DEF SetGuard

LEMMA CompileSound ==
  ASSUME NEW q \in Questions, NEW m, Remembers(m)
  PROVE  Sound(Compile(q, m))
  BY ExtractedIntends, PersonGuardSound, SetGuardSound, StructuredSound, HeuristicSound,
     SmallSound
  DEF Compile, OrElse

-----------------------------------------------------------------------------
(* What a plan's nodes return are people.                                  *)
LEMMA ReturnsPeople ==
  ASSUME NEW p, Sound(p)
  PROVE  /\ Retrieved(p) \subseteq People
         /\ Found(p) \subseteq Retrieved(p)
         /\ InPlace(p) \subseteq People
         /\ Skilled(p) \subseteq People
<1>1. p.among = None \/ p.among \subseteq People
  BY DEF Sound
<1>2. Retrieved(p) \subseteq People /\ Skilled(p) \subseteq People
  BY <1>1 DEF Retrieved, Skilled
<1> QED
  BY <1>2 DEF Found, InPlace

LEMMA ManagersArePeople ==
  ASSUME NEW p \in People
  PROVE  Managers(p) \subseteq People
  BY FollowUpAssumption DEF Managers

LEMMA PublishedPeople ==
  ASSUME NEW p, Sound(p)
  PROVE  Published(p) \subseteq People /\ Saved(p) \subseteq People
<1>1. p.does \in {"person", "skills", "manager"} => p.who \in People
  BY DEF Sound
<1>2. p.does = "manager" => Managers(p.who) \subseteq People
  BY <1>1, ManagersArePeople
<1>3. Published(p) \subseteq People
  BY <1>1, <1>2, ReturnsPeople DEF Published
<1> QED
  BY <1>3 DEF Saved

LEMMA ListedPeople ==
  ASSUME NEW p, Sound(p)
  PROVE  Listed(p) \subseteq People
<1>1. p.does = "skills" => p.who \in People
  BY DEF Sound
<1>2. ReportsTo(p.who) \subseteq People
  BY DEF ReportsTo
<1> QED
  BY <1>1, <1>2, ReturnsPeople DEF Listed

LEMMA EntitiesPeople ==
  ASSUME NEW p, Sound(p)
  PROVE  Entities(p) \subseteq People
<1>1. p.who # None => p.who \in People
  BY DEF Sound
<1>2. ReportsTo(p.who) \subseteq People
  BY DEF ReportsTo
<1> QED
  BY <1>1, <1>2, ReturnsPeople DEF Entities

-----------------------------------------------------------------------------
(* What a turn does to each part of the memory. *)
LEMMA ShiftedFields ==
  ASSUME NEW q, NEW m, Remembers(m)
  PROVE  /\ Remembers(Shifted(q, m))
         /\ Shifted(q, m).constraints = m.constraints
  BY DEF Shifted, Remembers

LEMMA WithConstraints ==
  ASSUME NEW m, Remembers(m), NEW all, DOMAIN all \subseteq Remembered
  PROVE  Remembers([m EXCEPT !.constraints = all])
  BY DEF Remembers

LEMMA ConstrainedRemembers ==
  ASSUME NEW q \in Questions, NEW m, Remembers(m)
  PROVE  Remembers(Constrained(q, m))
<1>1. ASSUME NEW k, Remembers(k)
      PROVE  Remembers([k EXCEPT !.constraints = Over(q.filters, k.constraints)])
  <2>1. DOMAIN k.constraints \subseteq Remembered /\ DOMAIN q.filters \subseteq Remembered
    BY <1>1, QuestionFacts DEF Remembers
  <2>2. DOMAIN Over(q.filters, k.constraints) \subseteq Remembered
    BY <2>1, OverDomain
  <2> QED  BY <1>1, <2>2, WithConstraints
<1>2. Remembers([m EXCEPT !.cohort = {}, !.listed = {}, !.constraints = <<>>])
  BY EmptyDomain DEF Remembers
<1> QED
  BY <1>1, <1>2 DEF Constrained

LEMMA AfterFields ==
  ASSUME NEW m, Remembers(m), NEW p
  PROVE  LET n == After(m, p)
         IN  /\ DOMAIN n = DOMAIN m
             /\ n.cohort = IF Saved(p) # {} THEN Saved(p)
                           ELSE IF Cleared(p) THEN {} ELSE m.cohort
             /\ n.listed = IF Listed(p) # {} THEN Listed(p)
                           ELSE IF Cleared(p) THEN {} ELSE m.listed
             /\ n.constraints = m.constraints
             /\ n.facet = FacetAfter(m, p)
             /\ n.counted \in BOOLEAN
             /\ n.he = IF IsOne(Entities(p)) THEN TheOne(Entities(p)) ELSE m.he
             /\ n.known = m.known \cup Entities(p)
  BY DEF After, Remembers

LEMMA AfterRemembers ==
  ASSUME NEW m, Remembers(m), NEW p, Sound(p)
  PROVE  Remembers(After(m, p))
<1> DEFINE n == After(m, p)
<1>1. n.cohort \subseteq People /\ n.listed \subseteq People
  BY AfterFields, PublishedPeople, ListedPeople DEF Remembers
<1>2. n.he \in People \cup {None}
  BY AfterFields, OneOfThem DEF Remembers
<1>3. n.known \subseteq People
  BY AfterFields, EntitiesPeople DEF Remembers
<1> QED
  BY <1>1, <1>2, <1>3, AfterFields DEF Remembers

LEMMA TurnRemembers ==
  ASSUME NEW q \in Questions, NEW m, Remembers(m)
  PROVE  /\ Sound(Answer(q, m))
         /\ Remembers(Constrained(q, Shifted(q, m)))
         /\ Remembers(Turn(q, m, Answer(q, m)))
<1>1. Remembers(Shifted(q, m))
  BY ShiftedFields
<1>2. Sound(Answer(q, m))
  BY <1>1, CompileSound DEF Answer
<1>3. Remembers(Constrained(q, Shifted(q, m)))
  BY <1>1, ConstrainedRemembers
<1> QED
  BY <1>2, <1>3, AfterRemembers DEF Turn

(* What commit, clear_referents and merge_query_constraints leave in the   *)
(* session is what the planners take it for, whatever is asked and in      *)
(* whatever order: ids of employees in both lists, only conditions that    *)
(* may be carried over, and nobody or an employee where one person is      *)
(* remembered.  The other theorems about FollowUps rest on it.             *)
THEOREM MemoryIsTyped == FollowUpSpec => []Remembers(memory)
<1>1. FollowUpInit => Remembers(memory)
  BY EmptyDomain DEF FollowUpInit, Nobody, Remembers
<1>2. Remembers(memory) /\ [FollowUpNext]_memory => Remembers(memory)'
  <2> SUFFICES ASSUME Remembers(memory), [FollowUpNext]_memory
               PROVE  Remembers(memory')
    BY DEF Remembers
  <2>1. ASSUME NEW q \in Questions, Ask(q)
        PROVE  Remembers(memory')
    BY <2>1, TurnRemembers DEF Ask
  <2>2. CASE Expire
    BY <2>2 DEF Expire, Remembers
  <2>3. CASE UNCHANGED memory
    BY <2>3
  <2> QED  BY <2>1, <2>2, <2>3 DEF FollowUpNext
<1> QED
  BY <1>1, <1>2, PTL DEF FollowUpSpec

-----------------------------------------------------------------------------
(* Whoever is counted under a condition is saved: a condition is one of    *)
(* the place, which retrieves, or one of those that save.                  *)
LEMMA CountIsSaved ==
  ASSUME NEW p, Sound(p), p.does = "count",
         \/ Retrieves(p) \/ p.among # None
         \/ DOMAIN p.filters \ {"hire_date_gte"} # {}
  PROVE  Saved(p) = Published(p)
<1>1. DOMAIN p.filters \subseteq Known
  BY DEF Sound
<1>2. CASE DOMAIN p.filters \cap PlaceFields # {}
  BY <1>2, PartDomain DEF Saved, Retrieves, Empty
<1>3. CASE DOMAIN p.filters \cap PlaceFields = {}
  <2>1. DOMAIN p.filters \subseteq {"department", "position", "hire_date_gte", "hire_date_gt"}
    BY <1>1, <1>3 DEF Known, Remembered, PlaceFields
  <2> QED  BY <2>1 DEF Saved
<1> QED
  BY <1>2, <1>3

LEMMA CountIsThem ==
  ASSUME Remembers(memory)
  PROVE  CountedAreThem
<1> SUFFICES ASSUME NEW q \in Questions,
                    Answer(q, memory).does = "count",
                    LET p == Answer(q, memory)
                    IN  \/ Retrieves(p) \/ p.among # None
                        \/ DOMAIN p.filters \ {"hire_date_gte"} # {}
             PROVE  Found(Answer(q, memory)) \subseteq
                        Turn(q, memory, Answer(q, memory)).cohort
  BY DEF CountedAreThem
<1> DEFINE p == Answer(q, memory)
           m == Constrained(q, Shifted(q, memory))
<1>1. Sound(p) /\ Remembers(m)
  BY TurnRemembers
<1>2. Saved(p) = Published(p)
  BY <1>1, CountIsSaved
<1>3. Found(p) \subseteq Published(p)
  BY <1>1, ReturnsPeople DEF Published
<1>4. After(m, p).cohort = IF Saved(p) # {} THEN Saved(p)
                           ELSE IF Cleared(p) THEN {} ELSE m.cohort
  BY <1>1, AfterFields
<1> QED
  BY <1>2, <1>3, <1>4 DEF Turn

(* Nobody who is counted under a condition is missing from "them" when     *)
(* commit is done: the nodes that count return no ids, but those that      *)
(* retrieve do, and every condition of an sql node saves its ids.          *)
THEOREM CountsBecomeThem == FollowUpSpec => []CountedAreThem
  BY MemoryIsTyped, CountIsThem, PTL

-----------------------------------------------------------------------------
LEMMA ListIsSaved ==
  ASSUME NEW p, Lists(p)
  PROVE  Saved(p) = Found(p)
  BY DEF Lists, Saved, Published

(* All of the people one talks about meet no condition at all. *)
LEMMA FoundOverIds ==
  ASSUME NEW ids \in SUBSET People
  PROVE  Found(OverIds("list", ids, <<>>)) = ids
<1> DEFINE p == OverIds("list", ids, <<>>)
<1>1. p.among = ids /\ p.skill = None /\ p.filters = <<>>
  BY PlanFields DEF OverIds
<1>2. ids # None
  BY FollowUpAssumption
<1>3. DOMAIN Place(<<>>) = {} /\ DOMAIN Sql(<<>>) = {}
  BY PartDomain, EmptyDomain
<1>4. \A e : Meets(e, Place(<<>>)) /\ Meets(e, Sql(<<>>))
  BY <1>3 DEF Meets
<1> HIDE DEF p
<1>5. Retrieved(p) = ids
  BY <1>1, <1>2, <1>4 DEF Retrieved
<1>6. Found(p) = ids
  BY <1>1, <1>4, <1>5 DEF Found
<1> QED
  BY <1>6 DEF p

(* The question whose names are meant is decided by the guards. *)
LEMMA NamesAreThem ==
  ASSUME NEW r \in Questions, Says(r, "names"), r.says \cap Elsewhere = {},
         NEW m, Remembers(m), m.cohort # {}, m.facet = None
  PROVE  Compile(r, m) = OverIds("list", m.cohort, <<>>)
<1>1. Says(r, "refers") /\ ~Says(r, "headcount")
  BY QuestionFacts DEF Says
<1>2. \A s \in Elsewhere : ~Says(r, s)
  BY DEF Says
<1>3. PersonGuard(r, m) = Declines
  BY <1>1, <1>2 DEF PersonGuard, Elsewhere
<1>4. \A x : SetGuard(r, x, m) = OverIds("list", m.cohort, <<>>)
  BY <1>2 DEF SetGuard, Elsewhere
<1>5. OverIds("list", m.cohort, <<>>) # Declines
  BY PlanFields DEF OverIds, Declines
<1> QED
  BY <1>3, <1>4, <1>5 DEF Compile, OrElse

LEMMA ListIsThem ==
  ASSUME Remembers(memory)
  PROVE  ListedIsThem
<1> SUFFICES ASSUME NEW q \in Questions,
                    Lists(Answer(q, memory)), Found(Answer(q, memory)) # {}
             PROVE  LET p == Answer(q, memory)
                        next == Turn(q, memory, p)
                    IN  /\ next.cohort = Found(p)
                        /\ \A r \in Questions :
                              Says(r, "names") /\ r.says \cap Elsewhere = {} =>
                                  Found(Compile(r, next)) = next.cohort
  BY DEF ListedIsThem
<1> DEFINE p == Answer(q, memory)
           m == Constrained(q, Shifted(q, memory))
           next == Turn(q, memory, p)
<1>1. Sound(p) /\ Remembers(m) /\ Remembers(next)
  BY TurnRemembers
<1>2. Saved(p) = Found(p)
  BY ListIsSaved
<1>3. next.cohort = Found(p)
  BY <1>1, <1>2, AfterFields DEF Turn
<1>4. next.facet = None
  BY <1>1, <1>2, AfterFields DEF Turn, FacetAfter, Sound
<1>5. Found(p) \in SUBSET People
  BY <1>1, ReturnsPeople
<1>6. ASSUME NEW r \in Questions, Says(r, "names"), r.says \cap Elsewhere = {}
      PROVE  Found(Compile(r, next)) = next.cohort
  <2> HIDE DEF p, m, next
  <2>1. Compile(r, next) = OverIds("list", next.cohort, <<>>)
    BY <1>1, <1>3, <1>4, <1>6, NamesAreThem DEF p
  <2> QED  BY <1>3, <1>5, <2>1, FoundOverIds
<1> QED
  BY <1>3, <1>6

(* Whoever an answer lists is what commit remembers as "them", and the     *)
(* guards answer "names please" with the same people again: the facet that *)
(* was talked about before is forgotten with it.                           *)
THEOREM ListsBecomeThem == FollowUpSpec => []ListedIsThem
  BY MemoryIsTyped, ListIsThem, PTL

-----------------------------------------------------------------------------
(* A question about "them" is understood, or else it states no condition   *)
(* and does not count.                                                     *)
Understood(q, x) ==
    \/ x.sure /\ x.intent # "unknown"
    \/ ~Says(q, "count") /\ ~Says(q, "bare dept") /\ Empty(q.filters)

LEMMA ThemIsUnderstood ==
  ASSUME NEW q, NEW m, Says(q, "refers")
  PROVE  Understood(q, Extracted(q, m))
<1> DEFINE own == Over(q.filters, q.hired)
<1>1. Empty(own) => Empty(q.filters)
  BY OverDomain DEF Empty
<1> HIDE DEF own
<1>2. \A i, f : i # "unknown" => \A b \in BOOLEAN : b => Understood(q, Read(i, f, b))
  BY Zenon DEF Read, Understood
<1>3. CASE ~Says(q, "bare dept")
  <2>1. Empty(q.filters) /\ ~Says(q, "count") =>
           \A b \in BOOLEAN : Understood(q, Read("unknown", own, b))
    BY <1>3 DEF Understood
  <2>2. Understood(q, ExtractedSet(q, m, own))
    BY <1>1, <1>2, <2>1 DEF ExtractedSet, Counts
  <2> QED  BY <1>2, <2>2 DEF Extracted, own
<1>4. CASE Says(q, "bare dept")
  BY <1>2, <1>4 DEF Extracted
<1> QED
  BY <1>3, <1>4

(* A plan that lists or counts does so among `them`. *)
Inside(p, them) == Lists(p) \/ Counted(p) => p.among = them

(* A question about "them" that FollowUpsStayInside is about. *)
AsksAboutThem(q, m) ==
    /\ Says(q, "refers") /\ Empty(q.hired)
    /\ ~Says(q, "reports") /\ ~Says(q, "longest")
    /\ m.cohort # {}

LEMMA PlainInside ==
  ASSUME NEW does, NEW filters, NEW skill, NEW them
  PROVE  /\ Inside(Plan(does, them, filters, skill), them)
         /\ Inside(OverIds(does, them, filters), them)
  BY PlanFields DEF Inside, OverIds

LEMMA OthersInside ==
  ASSUME NEW them
  PROVE  /\ \A code : Inside(Say(code), them)
         /\ \A dim : /\ Inside(Values(dim, "values"), them)
                     /\ Inside(Values(dim, "count values"), them)
         /\ \A p : /\ Inside(Person(p, "person"), them) /\ Inside(Person(p, "skills"), them)
                   /\ Inside(Person(p, "manager"), them)
         /\ \A f : Inside(Filtered("tenure", f), them)
         /\ Inside(Declines, them)
<1>2. \A code : Inside(Say(code), them)
  BY SayFields DEF Inside, Lists, Counted
<1>3. \A dim : Inside(Values(dim, "values"), them) /\ Inside(Values(dim, "count values"), them)
  BY ValuesFields DEF Inside, Lists, Counted
<1>4. \A p : /\ Inside(Person(p, "person"), them) /\ Inside(Person(p, "skills"), them)
             /\ Inside(Person(p, "manager"), them)
  BY PersonFields DEF Inside, Lists, Counted
<1>5. \A f : Inside(Filtered("tenure", f), them)
  BY PlanFields DEF Filtered, Inside, Lists, Counted
<1>6. Inside(Declines, them)
  BY DeclinesSound DEF Inside, Lists, Counted
<1> QED
  BY <1>2, <1>3, <1>4, <1>5, <1>6

LEMMA AmongThem ==
  ASSUME NEW q, NEW m, AsksAboutThem(q, m)
  PROVE  Among(q, m) = m.cohort
  BY DEF AsksAboutThem, Among

LEMMA StructuredInside ==
  ASSUME NEW q, NEW m, AsksAboutThem(q, m), Remembers(m), NEW x, Intends(q, x)
  PROVE  /\ Inside(Structured(q, x, m), m.cohort)
         /\ x.sure /\ x.intent # "unknown" => Structured(q, x, m) # Declines
<1> DEFINE s == Structured(q, x, m)
<1>1. Among(q, m) = m.cohort /\ m.cohort # None
  BY AmongThem, FollowUpAssumption DEF Remembers
<1>2. x.intent # "reports" /\ x.intent # "longest_tenured"
  BY DEF Intends, AsksAboutThem
<1>3. Inside(s, m.cohort)
  BY <1>1, <1>2, PlainInside, OthersInside DEF Structured, AsksAboutThem
<1>4. x.sure /\ x.intent # "unknown" => s # Declines
  <2>1. \A p : p.does # "decline" => p # Declines
    BY DeclinesSound
  <2>2. /\ \A code : Say(code) # Declines
        /\ \A p : Person(p, "person") # Declines /\ Person(p, "manager") # Declines
    BY <2>1, SayFields, PersonFields
  <2>4. \A dim : Values(dim, "values") # Declines /\ Values(dim, "count values") # Declines
    <3>1. \A dim : /\ Values(dim, "values").does = "values"
                   /\ Values(dim, "count values").does = "count values"
      BY ValuesFields
    <3> QED  BY <3>1, DeclinesSound
  <2>5. \A among, filters, skill : /\ Plan("list", among, filters, skill) # Declines
                                   /\ Plan("count", among, filters, skill) # Declines
                                   /\ Plan("tenure", among, filters, skill) # Declines
    BY <2>1, PlanFields
  <2>3. CountOr(q, "list") \in {"list", "count"}
    BY DoesType
  <2> QED  BY <1>1, <1>2, <2>2, <2>3, <2>4, <2>5 DEF Structured, AsksAboutThem, Filtered, OverIds
<1> QED
  BY <1>3, <1>4

LEMMA FocusInside ==
  ASSUME NEW m, m.cohort # {}
  PROVE  /\ Inside(Repeat(m), m.cohort)
         /\ Inside(Pronoun(m), m.cohort)
         /\ \A q : Inside(Elliptical(q, m), m.cohort)
<1>1. Inside(Repeat(m), m.cohort)
  BY PlainInside, OthersInside DEF Repeat
<1>2. Inside(Pronoun(m), m.cohort)
  BY OthersInside DEF Pronoun
<1>3. \A q : Inside(Elliptical(q, m), m.cohort)
  BY OthersInside DEF Elliptical
<1> QED
  BY <1>1, <1>2, <1>3

(* The heuristics come last: they meet only what was not understood. *)
LEMMA HeuristicInside ==
  ASSUME NEW q \in Questions, NEW m, AsksAboutThem(q, m), Remembers(m),
         ~Says(q, "count"), ~Says(q, "bare dept"), Empty(q.filters)
  PROVE  Inside(Heuristic(q, m), m.cohort)
<1> DEFINE them == m.cohort
<1>1. ~Says(q, "headcount")
  BY QuestionFacts DEF AsksAboutThem
<1>2. Empty(Place(q.filters))
  BY PartDomain DEF Empty
<1>3. Among(q, m) = them
  BY AmongThem
<1> HIDE DEF them
<1>4. Inside(Claimed(q, m), them)
  BY <1>1, PlainInside, OthersInside, FocusInside DEF Claimed, AsksAboutThem, them
<1>5. Inside(NamedOrListed(q, m), them)
  BY PlainInside, OthersInside DEF NamedOrListed, AsksAboutThem, them
<1>6. Inside(AboutThem(q, m), them)
  BY PlainInside, OthersInside DEF AboutThem, AsksAboutThem, them
<1>7. Inside(OrgWide(q, m), them)
  BY <1>3, PlainInside, OthersInside DEF OrgWide, AsksAboutThem, them
<1>8. Inside(LastChance(q), them)
  BY <1>2, OthersInside DEF LastChance
<1> QED
  BY <1>4, <1>5, <1>6, <1>7, <1>8 DEF Heuristic, OrElse, them

LEMMA PersonGuardInside ==
  ASSUME NEW q \in Questions, NEW m, AsksAboutThem(q, m)
  PROVE  Inside(PersonGuard(q, m), m.cohort)
<1>1. ~Says(q, "headcount")
  BY QuestionFacts DEF AsksAboutThem
<1> QED
  BY <1>1, OthersInside, FocusInside DEF PersonGuard, AsksAboutThem

LEMMA SetGuardInside ==
  ASSUME NEW q, NEW m, AsksAboutThem(q, m), Remembers(m), NEW x, Intends(q, x)
  PROVE  Inside(SetGuard(q, x, m), m.cohort)
  BY PlainInside, OthersInside, FocusInside, StructuredInside DEF SetGuard, AsksAboutThem

LEMMA CompileInside ==
  ASSUME NEW q \in Questions, NEW m, AsksAboutThem(q, m), Remembers(m)
  PROVE  Inside(Compile(q, m), m.cohort)
<1> DEFINE x == Extracted(q, m)
<1>1. Intends(q, x) /\ Understood(q, x)
  BY ExtractedIntends, ThemIsUnderstood DEF AsksAboutThem
<1> HIDE DEF x
<1>2. /\ Inside(PersonGuard(q, m), m.cohort)
      /\ Inside(SetGuard(q, x, m), m.cohort)
      /\ Inside(Structured(q, x, m), m.cohort)
      /\ Inside(Say("unavailable"), m.cohort)
  BY <1>1, PersonGuardInside, SetGuardInside, StructuredInside, OthersInside
<1>3. Structured(q, x, m) = Declines => Inside(Heuristic(q, m), m.cohort)
  BY <1>1, StructuredInside, HeuristicInside DEF Understood
<1> QED
  BY <1>2, <1>3 DEF Compile, OrElse, x

LEMMA FollowUpInside ==
  ASSUME Remembers(memory)
  PROVE  FollowUpsStayInside
<1> SUFFICES ASSUME memory.cohort # {}, NEW q \in Questions,
                    Says(q, "refers"), Empty(q.hired),
                    q.says \cap {"reports", "longest"} = {},
                    Lists(Compile(q, memory)) \/ Counted(Compile(q, memory))
             PROVE  Found(Compile(q, memory)) \subseteq memory.cohort
  BY DEF FollowUpsStayInside
<1> DEFINE p == Compile(q, memory)
<1>1. AsksAboutThem(q, memory)
  BY DEF AsksAboutThem, Says
<1>2. p.among = memory.cohort
  BY <1>1, CompileInside DEF Inside
<1>3. p.among # None
  BY <1>2, FollowUpAssumption DEF Remembers
<1> HIDE DEF p
<1>4. Found(p) \subseteq memory.cohort
  BY <1>2, <1>3 DEF Found, Retrieved
<1> QED
  BY <1>4 DEF p

(* Whichever of _compile_pair's guards, plan_from_query_state and          *)
(* try_heuristic_plan answers a question about "them", whoever it lists or *)
(* counts is one of them: each intersects with the ids it remembers, and   *)
(* none of them leaves such a question to a planner that does not.         *)
THEOREM FollowUpsAreInside == FollowUpSpec => []FollowUpsStayInside
  BY MemoryIsTyped, FollowUpInside, PTL

-----------------------------------------------------------------------------
(* A question that refers to nobody. *)
Fresh(q) ==
    /\ q.says \cap {"refers", "pronoun", "previous", "attribute", "skills of"} = {}
    /\ q.skill = None

LEMMA FreshFacts ==
  ASSUME NEW q \in Questions, Fresh(q)
  PROVE  /\ ~Says(q, "refers") /\ ~Says(q, "pronoun") /\ ~Says(q, "previous")
         /\ ~Says(q, "attribute") /\ ~Says(q, "skills of")
         /\ ~Says(q, "names") /\ ~Says(q, "meta") /\ ~Says(q, "bare skill")
         /\ q.skill = None
<1>1. /\ ~Says(q, "refers") /\ ~Says(q, "pronoun") /\ ~Says(q, "previous")
      /\ ~Says(q, "attribute") /\ ~Says(q, "skills of") /\ q.skill = None
  BY DEF Fresh, Says
<1>2. ~Says(q, "names") /\ ~Says(q, "meta") /\ ~Says(q, "bare skill")
  BY <1>1, QuestionFacts DEF Says
<1> QED
  BY <1>1, <1>2

LEMMA FreshExtracted ==
  ASSUME NEW q \in Questions, Fresh(q), NEW m, NEW n
  PROVE  Extracted(q, m) = Extracted(q, n)
<1>1. \A own : Merged(q, m, own) = own /\ Merged(q, n, own) = own
  BY FreshFacts DEF Merged
<1>2. \A own : ExtractedSet(q, m, own) = ExtractedSet(q, n, own)
  BY <1>1 DEF ExtractedSet
<1> QED
  BY <1>1, <1>2 DEF Extracted

(* What is listed without a "them" is listed under a condition. *)
LEMMA FreshListHasCondition ==
  ASSUME NEW q \in Questions, Fresh(q), NEW m
  PROVE  LET x == Extracted(q, m)
         IN  x.intent = "list" /\ x.sure => ~Empty(x.filters)
<1> DEFINE own == Over(q.filters, q.hired)
           ok(x) == x.intent = "list" /\ x.sure => ~Empty(x.filters)
<1>1. Merged(q, m, own) = own
  BY FreshFacts DEF Merged
<1>2. "hire_date_gte" \in DOMAIN q.hired => ~Empty(own)
  BY OverDomain DEF Empty
<1> HIDE DEF own
<1>3. \A i, f, s : i # "list" => ok(Read(i, f, s))
  BY ReadFields
<1>4. ~Empty(own) => \A i, s : ok(Read(i, own, s))
  BY ReadFields
<1>5. Empty(own) => ok(Read("list", own, ~Empty(own) \/ Says(q, "refers")))
  BY FreshFacts, Zenon DEF Read
<1> HIDE DEF ok
<1>6. ok(ExtractedSet(q, m, own))
  BY <1>1, <1>3, <1>4, <1>5 DEF ExtractedSet
<1>7. ok(Extracted(q, m))
  BY <1>1, <1>2, <1>3, <1>4, <1>6 DEF Extracted, own
<1> QED
  BY <1>7 DEF ok

LEMMA FreshStructured ==
  ASSUME NEW q \in Questions, Fresh(q), NEW m, NEW n,
         NEW x, Intends(q, x), x.intent = "list" /\ x.sure => ~Empty(x.filters)
  PROVE  Structured(q, x, m) = Structured(q, x, n)
<1>1. Among(q, m) = None /\ Among(q, n) = None
  BY FreshFacts DEF Among
<1> QED
  BY <1>1, FreshFacts DEF Structured, Intends

(* The answer to a name alone, when the session has heard of it. *)
ByName(q, m, p) == Familiar(q, m) /\ p = Person(q.who, "person")

LEMMA FreshHeuristic ==
  ASSUME NEW q \in Questions, Fresh(q), NEW m, NEW n, ~Familiar(q, n)
  PROVE  Heuristic(q, m) = Heuristic(q, n) \/ ByName(q, m, Heuristic(q, m))
<1>1. Claimed(q, m) = Claimed(q, n) \/ ByName(q, m, Claimed(q, m))
  BY FreshFacts DEF Claimed, ByName
<1>2. NamedOrListed(q, m) = NamedOrListed(q, n)
  BY FreshFacts DEF NamedOrListed
<1>3. AboutThem(q, m) = AboutThem(q, n)
  BY FreshFacts DEF AboutThem
<1>4. OrgWide(q, m) = OrgWide(q, n)
  BY FreshFacts DEF OrgWide
<1>5. Person(q.who, "person") # Declines
  BY PersonFields, DeclinesSound
<1> QED
  BY <1>1, <1>2, <1>3, <1>4, <1>5 DEF Heuristic, OrElse, ByName

LEMMA FreshGuards ==
  ASSUME NEW q \in Questions, Fresh(q), NEW m, NEW n,
         NEW x, Intends(q, x), x.intent = "list" /\ x.sure => ~Empty(x.filters)
  PROVE  /\ PersonGuard(q, m) = PersonGuard(q, n)
         /\ SetGuard(q, x, m) = SetGuard(q, x, n)
<1>1. PersonGuard(q, m) = PersonGuard(q, n)
  BY FreshFacts DEF PersonGuard
<1>2. Structured(q, x, m) = Structured(q, x, n)
  BY FreshStructured
<1>3. SetGuard(q, x, m) = SetGuard(q, x, n)
  BY <1>2, FreshFacts DEF SetGuard
<1> QED
  BY <1>1, <1>3

LEMMA FreshCompile ==
  ASSUME NEW q \in Questions, Fresh(q), NEW m, Remembers(m), NEW n, ~Familiar(q, n)
  PROVE  Compile(q, m) = Compile(q, n) \/ ByName(q, m, Compile(q, m))
<1> DEFINE x == Extracted(q, m)
<1>1. x = Extracted(q, n)
  BY FreshExtracted
<1>2. Intends(q, x) /\ (x.intent = "list" /\ x.sure => ~Empty(x.filters))
  BY ExtractedIntends, FreshListHasCondition
<1> HIDE DEF x
<1>3. /\ PersonGuard(q, m) = PersonGuard(q, n)
      /\ SetGuard(q, x, m) = SetGuard(q, x, n)
      /\ Structured(q, x, m) = Structured(q, x, n)
      /\ Heuristic(q, m) = Heuristic(q, n) \/ ByName(q, m, Heuristic(q, m))
  BY <1>2, FreshGuards, FreshStructured, FreshHeuristic
<1>4. Person(q.who, "person") # Declines
  BY PersonFields, DeclinesSound
<1> QED
  BY <1>1, <1>3, <1>4 DEF Compile, OrElse, ByName, x

LEMMA FreshIsAlone ==
  ASSUME Remembers(memory)
  PROVE  FreshStandsAlone
<1>1. \A q : ~Familiar(q, Nobody)
  BY DEF Familiar, Nobody
<1> QED
  BY <1>1, FreshCompile DEF FreshStandsAlone, Fresh, ByName

(* A question that refers to nobody is planned as the first one of a       *)
(* session: whatever is remembered, none of the guards and planners looks  *)
(* at it unless the question has a pattern that refers, or names somebody  *)
(* the session has heard of and is answered about nobody else.             *)
THEOREM FreshIsPlannedAlone == FollowUpSpec => []FreshStandsAlone
  BY MemoryIsTyped, FreshIsAlone, PTL

-----------------------------------------------------------------------------
(* Patterns that claim a question for themselves, in an order that the     *)
(* planners do not share.                                                  *)
Claims ==
    {"bare dept", "bare skill", "skills of", "about", "reports", "previous",
     "facet count", "facet list", "tenure", "longest", "unknown place"}

(* A question, of the company or of "them", that states at most one        *)
(* condition: a place, a department, a skill somebody knows, or, of the    *)
(* company, a window of hire dates.                                        *)
AsksOneThing(q) ==
    /\ q.says \cap Claims = {}
    /\ \/ DOMAIN q.filters \subseteq PlaceFields /\ q.dept = None /\ q.skill = None
       \/ DOMAIN q.filters = {"department"} /\ Mentioned(q) = q.filters /\ q.skill = None
       \/ Empty(q.filters) /\ q.dept = None /\ Says(q, "knowing") /\ q.skill # None
    /\ ~Empty(q.hired) =>
          Empty(q.filters) /\ q.dept = None /\ q.skill = None /\ ~Says(q, "refers")

(* A question for those who report to somebody, and for nothing else.      *)
AsksForReports(q) ==
    /\ Says(q, "reports")
    /\ ~Says(q, "names") /\ ~Says(q, "attribute")
    /\ ~Says(q, "unsupported") /\ ~Says(q, "whereabouts")
    /\ q.says \cap (Claims \ {"reports"}) = {}
    /\ Empty(q.filters) /\ Empty(q.hired) /\ q.dept = None /\ q.skill = None

(* With a "them" and no condition remembered, whenever try_heuristic_plan  *)
(* lists or counts somebody for a question of one condition, the guards    *)
(* and plan_from_query_state list or count the same people; and it answers *)
(* one for reports as they do, unless by the name the session has heard.   *)
TiersAgreeOnOneThing ==
    memory.cohort # {} /\ Empty(memory.constraints) =>
        \A q \in Questions :
            LET p == Heuristic(q, memory)
                c == Compile(q, memory)
            IN  /\ AsksOneThing(q) /\ Finds(p) => Alike(p, c)
                /\ AsksForReports(q) =>
                      \/ p = c
                      \/ Says(q, "person") /\ ByName(q, memory, p)

LEMMA Unclaimed ==
  ASSUME NEW q, q.says \cap (Claims \ {"reports"}) = {}
  PROVE  /\ ~Says(q, "bare dept") /\ ~Says(q, "bare skill") /\ ~Says(q, "skills of")
         /\ ~Says(q, "about") /\ ~Says(q, "previous")
         /\ ~Says(q, "facet count") /\ ~Says(q, "facet list") /\ ~Says(q, "tenure")
         /\ ~Says(q, "longest") /\ ~Says(q, "unknown place")
<1>1. \A c \in Claims \ {"reports"} : ~Says(q, c)
  BY DEF Says
<1>2. Claims \ {"reports"} = {"bare dept", "bare skill", "skills of", "about", "previous",
                             "facet count", "facet list", "tenure", "longest",
                             "unknown place"}
  BY DEF Claims
<1> QED
  BY <1>1, <1>2

LEMMA NoReports ==
  ASSUME NEW q, q.says \cap Claims = {}
  PROVE  q.says \cap (Claims \ {"reports"}) = {} /\ ~Says(q, "reports")
  BY DEF Claims, Says

LEMMA FindsFields ==
  /\ ~Finds(Declines)
  /\ \A code : ~Finds(Say(code))
  /\ \A dim : ~Finds(Values(dim, "values")) /\ ~Finds(Values(dim, "count values"))
  /\ \A p : ~Finds(Person(p, "person")) /\ ~Finds(Person(p, "manager"))
  BY SayFields, ValuesFields, PersonFields, DeclinesSound DEF Finds, Lists, Counted

(* A question that is not answered, or answered alike, before the planners *)
(* come to what it asks for: not out of scope, not about one person, not   *)
(* repeated.                                                               *)
Open(q, m) ==
    /\ ~Says(q, "meta") /\ ~Says(q, "headcount")
    /\ ~Says(q, "unsupported") /\ ~Says(q, "whereabouts")
    /\ ~Says(q, "reports") => ~Says(q, "manager")
    /\ ~Says(q, "person") \/ (~Says(q, "pronoun") /\ ~Familiar(q, m))
    /\ Says(q, "attribute") => Elliptical(q, m) = Declines

LEMMA RepeatAnswers ==
  ASSUME NEW m
  PROVE  Repeat(m) # Declines
<1>1. OverIds("count", m.cohort, <<>>).does = "count"
  BY PlanFields DEF OverIds
<1>2. Say("repeat").does = "say" /\ Say("nothing counted").does = "say"
  BY SayFields
<1>3. Repeat(m).does # "decline"
  BY <1>1, <1>2, Zenon DEF Repeat
<1> QED
  BY <1>3, DeclinesSound

LEMMA OpenOrAlike ==
  ASSUME NEW q \in Questions, q.says \cap (Claims \ {"reports"}) = {},
         NEW m, Finds(Heuristic(q, m))
  PROVE  Open(q, m) \/ Compile(q, m) = Heuristic(q, m)
<1>1. Finds(Claimed(q, m)) => Heuristic(q, m) = Claimed(q, m)
  BY FindsFields DEF Heuristic, OrElse
<1>2. Claimed(q, m) # Declines => Finds(Claimed(q, m))
  BY DEF Heuristic, OrElse
<1>3. ~Says(q, "unsupported")
  BY <1>2, FindsFields, SayFields, DeclinesSound DEF Claimed
<1>4. CASE Says(q, "headcount")
  <2>1. Claimed(q, m) = Filtered("count", <<>>)
    BY <1>3, <1>4 DEF Claimed
  <2>2. Finds(Filtered("count", <<>>))
    BY PlanFields DEF Filtered, Finds, Counted
  <2>3. ~Says(q, "meta")
    BY <1>4, QuestionFacts DEF Says
  <2>4. PersonGuard(q, m) = Filtered("count", <<>>)
    BY <1>4, <2>3 DEF PersonGuard
  <2> QED  BY <1>1, <2>1, <2>2, <2>4, FindsFields DEF Compile, OrElse
<1>5. CASE Says(q, "meta")
  <2>1. Claimed(q, m) = Repeat(m) /\ PersonGuard(q, m) = Repeat(m)
    <3>1. ~Says(q, "headcount")
      BY <1>5, QuestionFacts DEF Says
    <3> QED  BY <1>3, <1>5, <3>1, Unclaimed DEF Claimed, PersonGuard
  <2>2. Repeat(m) # Declines
    BY RepeatAnswers
  <2> QED  BY <1>1, <1>2, <2>1, <2>2 DEF Compile, OrElse
<1>6. CASE ~Says(q, "headcount") /\ ~Says(q, "meta")
  <2>1. Says(q, "attribute") => Elliptical(q, m) = Declines
    <3>1. ~Finds(Elliptical(q, m))
      BY FindsFields DEF Elliptical
    <3> QED  BY <1>2, <1>3, <1>6, <3>1, Unclaimed DEF Claimed
  <2>2. ~Says(q, "person") \/ (~Says(q, "pronoun") /\ ~Familiar(q, m))
    <3>1. ~Finds(Pronoun(m)) /\ Pronoun(m) # Declines
      BY FindsFields, SayFields, PersonFields, DeclinesSound DEF Pronoun
    <3>2. ~Finds(Person(q.who, "person")) /\ Person(q.who, "person") # Declines
      BY FindsFields, PersonFields, DeclinesSound
    <3> QED  BY <1>2, <1>3, <1>6, <2>1, <3>1, <3>2, Unclaimed DEF Claimed
  <2>3. ~Says(q, "whereabouts") /\ (~Says(q, "reports") => ~Says(q, "manager"))
    <3>1. Claimed(q, m) = Declines
      BY <1>3, <1>6, <2>1, <2>2, Unclaimed DEF Claimed
    <3>2. ASSUME Says(q, "whereabouts") \/ (~Says(q, "reports") /\ Says(q, "manager"))
          PROVE  NamedOrListed(q, m) \in {Person(q.who, "person"), Person(q.who, "manager")}
      BY <3>2 DEF NamedOrListed
    <3>3. Person(q.who, "manager") # Declines /\ Person(q.who, "person") # Declines
      BY PersonFields, DeclinesSound
    <3> QED  BY <3>1, <3>2, <3>3, FindsFields DEF Heuristic, OrElse
  <2> QED  BY <1>3, <1>6, <2>1, <2>2, <2>3 DEF Open
<1> QED
  BY <1>4, <1>5, <1>6

(* No guard or planner addresses an open question before that.             *)
LEMMA OpenDeclines ==
  ASSUME NEW q, q.says \cap (Claims \ {"reports"}) = {}, NEW m, Open(q, m)
  PROVE  /\ PersonGuard(q, m) = Declines
         /\ Claimed(q, m) = Declines
         /\ ~Says(q, "names") /\ ~Says(q, "reports") => NamedOrListed(q, m) = Declines
  BY Unclaimed DEF PersonGuard, Claimed, NamedOrListed, Open

(* A plan that finds those, of "them" or of everybody, who meet the        *)
(* question's condition.                                                   *)
Selects(p, q, m) ==
    /\ p.among = Among(q, m)
    /\ p.skill = q.skill
    /\ \A e : Meets(e, Place(p.filters)) /\ Meets(e, Sql(p.filters)) <=> Meets(e, q.filters)

LEMMA MeetsParts ==
  ASSUME NEW e, NEW f
  PROVE  Meets(e, Place(f)) /\ Meets(e, Sql(f)) <=> Meets(e, f)
  BY DEF Meets, Place, Sql, Restrict

LEMMA MeetsOver ==
  ASSUME NEW e, NEW f, NEW g, Empty(g)
  PROVE  /\ Meets(e, Over(f, g)) <=> Meets(e, f)
         /\ Meets(e, Over(g, f)) <=> Meets(e, f)
  BY DEF Meets, Over, Empty

LEMMA EmptyOver ==
  ASSUME NEW f, NEW g, Empty(g)
  PROVE  /\ Empty(Over(f, g)) <=> Empty(f)
         /\ Empty(Over(g, f)) <=> Empty(f)
<1>1. DOMAIN g = {}
  BY DEF Empty
<1>2. DOMAIN Over(f, g) = DOMAIN f \cup DOMAIN g /\ DOMAIN Over(g, f) = DOMAIN g \cup DOMAIN f
  BY OverDomain, Zenon
<1>3. DOMAIN Over(f, g) = DOMAIN f /\ DOMAIN Over(g, f) = DOMAIN f
  BY <1>1, <1>2
<1> QED
  BY <1>3 DEF Empty

LEMMA SelectedAlike ==
  ASSUME NEW q, NEW m, NEW p, NEW r, Selects(p, q, m), Selects(r, q, m)
  PROVE  Found(p) = Found(r)
<1> DEFINE base == IF Among(q, m) = None THEN People ELSE Among(q, m)
<1>1. ASSUME NEW s, Selects(s, q, m)
      PROVE  Found(s) = {e \in base : /\ Meets(e, q.filters)
                                      /\ q.skill # None => q.skill \in Record[e].skills}
  BY <1>1 DEF Selects, Found, Retrieved
<1> QED
  BY <1>1

(* What the query state makes of it. *)
Restates(q, x) ==
    /\ x.intent \in {"list", "count", "skill_search", "unknown"}
    /\ x.intent = "skill_search" <=> q.skill # None
    /\ x.intent = "list" /\ Empty(q.filters) => ~Says(q, "count")
    /\ Empty(x.filters) <=> Empty(q.filters)
    /\ \A e : Meets(e, x.filters) <=> Meets(e, q.filters)

LEMMA OneThingRestated ==
  ASSUME NEW q \in Questions, AsksOneThing(q), ~Says(q, "names"), Empty(q.hired),
         NEW m, Empty(m.constraints), Open(q, m)
  PROVE  Restates(q, Extracted(q, m))
<1> DEFINE own == Over(q.filters, q.hired)
           same(f) == /\ Empty(f) <=> Empty(q.filters)
                      /\ \A e : Meets(e, f) <=> Meets(e, q.filters)
<1>1. "hire_date_gte" \notin DOMAIN q.hired
  BY DEF Empty
<1>2. same(own)
  BY MeetsOver, EmptyOver
<1> HIDE DEF own
<1>3. same(Merged(q, m, own))
  <2>1. Merged(q, m, own) = Over(own, m.constraints) \/ Merged(q, m, own) = own
    BY DEF Merged
  <2>2. Empty(Over(own, m.constraints)) <=> Empty(own)
    BY EmptyOver
  <2> QED  BY <1>2, <2>1, <2>2, MeetsOver
<1> HIDE DEF same
<1>4. q.skill # None => Says(q, "knowing")
  BY DEF AsksOneThing
<1>5. \A i, f, b : /\ i \in {"list", "count", "unknown"} /\ q.skill = None /\ same(f)
                   /\ i = "list" /\ Empty(q.filters) => ~Says(q, "count")
                   => Restates(q, Read(i, f, b))
  BY ReadFields DEF Restates, same
<1>6. \A f, b : q.skill # None /\ same(f) => Restates(q, Read("skill_search", f, b))
  BY ReadFields DEF Restates, same
<1>7. q.skill = None => Restates(q, ExtractedSet(q, m, own))
  <2>1. Empty(own) <=> Empty(q.filters)
    BY <1>2 DEF same
  <2> QED  BY <1>2, <1>3, <1>5, <2>1 DEF ExtractedSet, Counts
<1>8. q.says \cap Claims = {}
  BY DEF AsksOneThing
<1> QED
  BY <1>1, <1>3, <1>4, <1>6, <1>7, <1>8, NoReports, Unclaimed DEF Extracted, own, Open

LEMMA PlainSelects ==
  ASSUME NEW q, NEW m, NEW does, NEW filters,
         \A e : Meets(e, filters) <=> Meets(e, q.filters)
  PROVE  Selects(Plan(does, Among(q, m), filters, q.skill), q, m)
<1> DEFINE p == Plan(does, Among(q, m), filters, q.skill)
<1>1. p.among = Among(q, m) /\ p.skill = q.skill /\ p.filters = filters
  BY PlanFields
<1> HIDE DEF p
<1>2. Selects(p, q, m)
  BY <1>1, MeetsParts DEF Selects
<1> QED
  BY <1>2 DEF p

LEMMA MeetsEmpty ==
  ASSUME NEW e, NEW f, Empty(f)
  PROVE  Meets(e, f)
  BY DEF Empty, Meets

LEMMA MeetsPart ==
  ASSUME NEW e, NEW f
  PROVE  /\ DOMAIN f \subseteq PlaceFields => (Meets(e, Place(f)) <=> Meets(e, f))
         /\ DOMAIN f \subseteq {"department"} => (Meets(e, Department(f)) <=> Meets(e, f))
  BY DEF Meets, Place, Department, Restrict

(* The one part of the condition is the condition. *)
LEMMA ConditionParts ==
  ASSUME NEW q, AsksOneThing(q)
  PROVE  /\ ~Empty(Place(q.filters)) =>
               /\ \A e : Meets(e, Place(q.filters)) <=> Meets(e, q.filters)
               /\ q.skill = None /\ q.dept = None
         /\ ~Empty(Department(q.filters)) =>
               /\ \A e : Meets(e, Department(q.filters)) <=> Meets(e, q.filters)
               /\ q.skill = None /\ q.dept # None /\ Empty(Place(q.filters))
         /\ q.dept # None => ~Empty(Department(q.filters)) /\ Mentioned(q) = q.filters
         /\ q.dept = None => Empty(Mentioned(q))
         /\ Empty(Place(q.filters)) /\ Empty(Department(q.filters)) => Empty(q.filters)
         /\ "position" \notin DOMAIN q.filters
<1> DEFINE f == q.filters
<1>1. /\ DOMAIN Place(f) = DOMAIN f \cap PlaceFields
      /\ DOMAIN Department(f) = DOMAIN f \cap {"department"}
  BY PartDomain
<1>2. q.dept = None => Empty(Mentioned(q))
  BY EmptyDomain DEF Mentioned, Empty
<1>3. CASE DOMAIN f \subseteq PlaceFields /\ q.dept = None /\ q.skill = None
  <2>1. Empty(Department(f)) /\ (Empty(Place(f)) => Empty(f)) /\ "position" \notin DOMAIN f
    BY <1>1, <1>3 DEF Empty, PlaceFields
  <2> QED  BY <1>2, <1>3, <2>1, MeetsPart
<1>4. CASE DOMAIN f = {"department"} /\ Mentioned(q) = f /\ q.skill = None
  <2>1. q.dept # None
    BY <1>4, EmptyDomain DEF Mentioned
  <2>2. Empty(Place(f)) /\ ~Empty(Department(f)) /\ ~Empty(f) /\ "position" \notin DOMAIN f
    BY <1>1, <1>4 DEF Empty, PlaceFields
  <2> QED  BY <1>2, <1>4, <2>1, <2>2, MeetsPart
<1>5. CASE Empty(f) /\ q.dept = None
  <2>1. Empty(Place(f)) /\ Empty(Department(f)) /\ "position" \notin DOMAIN f
    BY <1>1, <1>5 DEF Empty
  <2> QED  BY <1>2, <1>5, <2>1
<1> QED
  BY <1>3, <1>4, <1>5 DEF AsksOneThing

(* A list of "them" all, without "names": the heuristics leave it. *)
BareList(q) ==
    /\ Says(q, "refers") /\ ~Says(q, "count")
    /\ q.skill = None /\ Empty(q.filters)

LEMMA ThemSelected ==
  ASSUME NEW q \in Questions, AsksOneThing(q), ~Says(q, "names"), Says(q, "refers"),
         NEW m, m.cohort # {}, Empty(m.constraints), Open(q, m),
         Finds(Heuristic(q, m))
  PROVE  Selects(Heuristic(q, m), q, m) /\ ~BareList(q)
<1> DEFINE fits(p) == Selects(p, q, m)
           them == m.cohort
<1>1. q.says \cap Claims = {} /\ Empty(q.hired)
  BY DEF AsksOneThing
<1>2. Claimed(q, m) = Declines /\ NamedOrListed(q, m) = Declines
  BY <1>1, OpenDeclines, NoReports
<1>3. Among(q, m) = them
  BY DEF Among
<1>4. /\ ~Empty(Place(q.filters)) => \A does : fits(Plan(does, them, Place(q.filters), None))
      /\ ~Empty(Department(q.filters)) =>
            \A does : fits(OverIds(does, them, Department(q.filters)))
      /\ Empty(q.filters) /\ q.skill = None => \A does : fits(OverIds(does, them, <<>>))
  BY <1>3, ConditionParts, PlainSelects, MeetsEmpty, EmptyDomain DEF OverIds, Empty
<1>5. Empty(q.filters) => Empty(Place(q.filters)) /\ Empty(Department(q.filters))
  BY PartDomain DEF Empty
<1>6. Empty(Place(m.constraints))
  BY PartDomain DEF Empty
<1>7. \A g : Empty(g) /\ Empty(q.filters) =>
         \A does : fits(Plan(does, them, Over(Over(Place(q.filters), Place(m.constraints)), g),
                             q.skill))
  <2>1. ASSUME NEW g, Empty(g), Empty(q.filters)
        PROVE  Empty(Over(Over(Place(q.filters), Place(m.constraints)), g))
    BY <1>5, <1>6, <2>1, EmptyOver
  <2>2. \A f : Empty(f) /\ Empty(q.filters) =>
                 \A e : Meets(e, f) <=> Meets(e, q.filters)
    BY MeetsEmpty
  <2>3. ASSUME NEW f, Empty(f), Empty(q.filters), NEW does
        PROVE  fits(Plan(does, them, f, q.skill))
    BY <1>3, <2>2, <2>3, PlainSelects
  <2> QED  BY <2>1, <2>3
<1>8. AboutThem(q, m) = Declines \/ fits(AboutThem(q, m))
  <2>1. Empty(Place(q.filters)) /\ Empty(Department(q.filters)) => Empty(q.filters)
    BY ConditionParts
  <2> HIDE DEF fits
  <2> QED  BY <1>4, <2>1 DEF AboutThem, them
<1>9. BareList(q) => AboutThem(q, m) = Declines
  BY <1>5 DEF AboutThem, BareList
<1>10. AboutThem(q, m) = Declines =>
          /\ Empty(q.filters) /\ q.dept = None
          /\ Says(q, "count") => q.skill # None
  <2>1. \A does \in {"list", "count"} : \A ids, f : Plan(does, ids, f, None) # Declines
    BY PlanFields, DeclinesSound
  <2>2. CountOr(q, "list") \in {"list", "count"} /\ Refine(q) \in {"list", "count"}
    BY DoesType
  <2>3. AboutThem(q, m) = Declines =>
           /\ Empty(Place(q.filters)) /\ Empty(Department(q.filters))
           /\ Says(q, "count") => q.skill # None
    BY <2>1, <2>2 DEF AboutThem, OverIds
  <2> QED  BY <2>3, ConditionParts
<1> HIDE DEF fits
<1>11. Empty(q.filters) => OrgWide(q, m) = Declines \/ fits(OrgWide(q, m))
  BY <1>1, <1>3, <1>7, EmptyDomain, NoReports, Unclaimed DEF OrgWide, Empty, them
<1>12. BareList(q) => OrgWide(q, m) = Declines
  BY <1>1, NoReports, Unclaimed DEF OrgWide, BareList
<1>13. AboutThem(q, m) = Declines => ~Finds(LastChance(q))
  <2>1. Empty(q.filters) => Empty(Place(q.filters))
    BY <1>5
  <2> QED  BY <1>1, <1>10, <2>1, FindsFields, NoReports, Unclaimed DEF LastChance
<1> QED
  BY <1>2, <1>8, <1>9, <1>10, <1>11, <1>12, <1>13, FindsFields DEF Heuristic, OrElse, fits

LEMMA CompanySelected ==
  ASSUME NEW q \in Questions, AsksOneThing(q), ~Says(q, "refers"), Empty(q.hired),
         NEW m, Empty(m.constraints), Open(q, m), Finds(Heuristic(q, m))
  PROVE  Selects(Heuristic(q, m), q, m)
<1> DEFINE fits(p) == Selects(p, q, m)
           f == q.filters
<1>1. q.says \cap Claims = {} /\ ~Says(q, "names")
  BY QuestionFacts DEF AsksOneThing, Says
<1>2. Claimed(q, m) = Declines /\ NamedOrListed(q, m) = Declines /\ AboutThem(q, m) = Declines
  BY <1>1, OpenDeclines, NoReports DEF AboutThem
<1>3. Among(q, m) = None
  BY DEF Among
<1>4. /\ ~Empty(Place(f)) => \A does : fits(Filtered(does, Place(f)))
      /\ Empty(f) /\ q.skill = None => \A does : fits(Filtered(does, <<>>))
  BY <1>3, ConditionParts, PlainSelects, MeetsEmpty, EmptyDomain DEF Filtered, Empty
<1>5. q.dept # None => \A does : /\ fits(Filtered(does, Mentioned(q)))
                                 /\ fits(Filtered(does, Over(Place(f), Mentioned(q))))
  BY <1>3, ConditionParts, PlainSelects, MeetsOver DEF Filtered
<1>6. q.skill # None =>
         \A does : fits(Plan(does, None, Over(Over(Place(f), Place(m.constraints)), <<>>),
                             q.skill))
  <2>1. Empty(Place(m.constraints)) /\ (q.skill # None => Empty(Place(f)) /\ Empty(f))
    BY PartDomain, ConditionParts DEF Empty, AsksOneThing
  <2>2. Empty(<<>>)
    BY EmptyDomain DEF Empty
  <2>3. q.skill # None => Empty(Over(Over(Place(f), Place(m.constraints)), <<>>))
    BY <2>1, <2>2, EmptyOver
  <2> QED  BY <1>3, <2>1, <2>3, MeetsEmpty, PlainSelects
<1> HIDE DEF fits
<1>7. OrgWide(q, m) = Declines \/ fits(OrgWide(q, m))
  BY <1>1, <1>3, <1>4, <1>5, <1>6, ConditionParts, NoReports, Unclaimed DEF OrgWide
<1>8. Finds(LastChance(q)) => fits(LastChance(q))
  BY <1>1, <1>4, <1>5, ConditionParts, FindsFields, NoReports, Unclaimed DEF LastChance
<1> QED
  BY <1>2, <1>7, <1>8 DEF Heuristic, OrElse, fits

Picks(p, q, m) == Selects(p, q, m) /\ Finds(p)

LEMMA PlainFinds ==
  ASSUME NEW does \in {"list", "count", "headcount"}, NEW among, NEW filters, NEW skill
  PROVE  Finds(Plan(does, among, filters, skill))
  BY PlanFields DEF Finds, Lists, Counted

LEMMA StructuredSelects ==
  ASSUME NEW q, NEW x, Restates(q, x), Empty(q.hired), NEW m
  PROVE  \/ Structured(q, x, m) = Declines
         \/ Picks(Structured(q, x, m), q, m)
         \/ BareList(q)
<1>1. \A does \in {"list", "count"} :
         Picks(Plan(does, Among(q, m), x.filters, q.skill), q, m)
  BY PlainSelects, PlainFinds DEF Restates, Picks
<1>2. CASE x.intent = "skill_search"
  BY <1>1, <1>2, DoesType DEF Structured
<1>3. CASE x.intent = "count"
  <2>1. q.skill = None
    BY <1>3 DEF Restates
  <2>2. Among(q, m) = None /\ Empty(q.filters) => Selects(Filtered("headcount", <<>>), q, m)
    BY <2>1, PlainSelects, MeetsEmpty, EmptyDomain DEF Filtered, Empty
  <2>3. Finds(Filtered("headcount", <<>>))
    BY PlainFinds DEF Filtered
  <2> QED  BY <1>1, <1>3, <2>1, <2>2, <2>3 DEF Structured, Restates, Picks
<1>4. CASE x.intent = "list"
  BY <1>1, <1>4 DEF Structured, Restates, BareList
<1>5. CASE x.intent = "unknown"
  BY <1>5 DEF Structured
<1> QED
  BY <1>2, <1>3, <1>4, <1>5 DEF Restates

LEMMA CompileSelects ==
  ASSUME NEW q \in Questions, AsksOneThing(q), ~Says(q, "names"), Empty(q.hired),
         NEW m, m.cohort # {}, Empty(m.constraints), Open(q, m), ~BareList(q),
         Finds(Heuristic(q, m))
  PROVE  Compile(q, m) = Heuristic(q, m) \/ Picks(Compile(q, m), q, m)
<1> DEFINE x == Extracted(q, m)
<1>1. q.says \cap Claims = {}
  BY DEF AsksOneThing
<1>2. Restates(q, x)
  BY OneThingRestated
<1> HIDE DEF x
<1>3. Structured(q, x, m) = Declines \/ Picks(Structured(q, x, m), q, m)
  BY <1>2, StructuredSelects
<1>4. PersonGuard(q, m) = Declines
  BY <1>1, OpenDeclines, NoReports
<1>5. Says(q, "refers") /\ ~Empty(Place(q.filters)) =>
         \A does \in {"list", "count"} :
            Picks(Plan(does, m.cohort, Place(q.filters), None), q, m)
  <2>1. Says(q, "refers") => Among(q, m) = m.cohort
    BY DEF Among
  <2> QED  BY <2>1, ConditionParts, PlainSelects, PlainFinds DEF Picks
<1>6. SetGuard(q, x, m) = Declines \/ Picks(SetGuard(q, x, m), q, m)
  BY <1>1, <1>2, <1>3, <1>5, DoesType, NoReports, Unclaimed DEF SetGuard, Restates, Open
<1> QED
  BY <1>3, <1>4, <1>6, FindsFields DEF Compile, OrElse, x

(* "Names please", and who was hired in a window, are answered alike       *)
(* before either looks at anything else.                                   *)
LEMMA NamesAlike ==
  ASSUME NEW q, q.says \cap Claims = {}, Says(q, "names"),
         NEW m, m.cohort # {}, Open(q, m)
  PROVE  Compile(q, m) = Heuristic(q, m)
<1> DEFINE answer == IF m.facet # None THEN Values(m.facet, "values")
                     ELSE OverIds("list", m.cohort, <<>>)
<1>1. answer # Declines
  <2>1. Values(m.facet, "values").does = "values"
    BY ValuesFields
  <2>2. OverIds("list", m.cohort, <<>>).does = "list"
    BY PlanFields DEF OverIds
  <2> QED  BY <2>1, <2>2, DeclinesSound
<1>2. PersonGuard(q, m) = Declines /\ Claimed(q, m) = Declines
  BY OpenDeclines, NoReports
<1>3. NamedOrListed(q, m) = answer
  BY NoReports, Unclaimed DEF NamedOrListed, Open
<1>4. \A x : SetGuard(q, x, m) = answer
  BY NoReports, Unclaimed DEF SetGuard
<1> HIDE DEF answer
<1> QED
  BY <1>1, <1>2, <1>3, <1>4 DEF Compile, Heuristic, OrElse

LEMMA HiredAlike ==
  ASSUME NEW q \in Questions, AsksOneThing(q), ~Empty(q.hired), NEW m, Open(q, m)
  PROVE  Compile(q, m) = Heuristic(q, m)
<1> DEFINE answer == Filtered(CountOr(q, "list"), q.hired)
<1>1. /\ q.says \cap Claims = {} /\ ~Says(q, "refers") /\ ~Says(q, "names")
      /\ Empty(q.filters) /\ q.dept = None /\ q.skill = None
  BY QuestionFacts DEF AsksOneThing, Says
<1>2. answer # Declines
  BY DoesType, PlanFields, DeclinesSound DEF Filtered
<1>3. PersonGuard(q, m) = Declines
  BY <1>1, OpenDeclines, NoReports
<1>4. Claimed(q, m) = Declines /\ NamedOrListed(q, m) = Declines /\ AboutThem(q, m) = Declines
  BY <1>1, OpenDeclines, NoReports DEF AboutThem
<1>5. Empty(Place(q.filters)) /\ Empty(Mentioned(q)) /\ "position" \notin DOMAIN q.filters
  BY <1>1, PartDomain, EmptyDomain DEF Empty, Mentioned
<1>6. OrgWide(q, m) = answer
  BY <1>1, <1>5, NoReports, Unclaimed DEF OrgWide
<1>7. \A x : SetGuard(q, x, m) = answer
  BY <1>1, NoReports, Unclaimed DEF SetGuard
<1> HIDE DEF answer
<1> QED
  BY <1>2, <1>3, <1>4, <1>6, <1>7 DEF Compile, Heuristic, OrElse

LEMMA ReportsAlike ==
  ASSUME NEW q \in Questions, AsksForReports(q), NEW m, m.cohort # {}, Open(q, m)
  PROVE  Compile(q, m) = Heuristic(q, m)
<1> DEFINE x == Extracted(q, m)
<1>1. q.says \cap (Claims \ {"reports"}) = {} /\ Says(q, "reports") /\ ~Says(q, "names")
  BY DEF AsksForReports
<1>2. PersonGuard(q, m) = Declines /\ Claimed(q, m) = Declines
  BY <1>1, OpenDeclines
<1>3. NamedOrListed(q, m) = Reports(q.who)
  BY DEF NamedOrListed, AsksForReports
<1>4. x.intent = "reports" /\ x.sure
  <2>1. "hire_date_gte" \notin DOMAIN q.hired /\ q.skill = None
    BY DEF AsksForReports, Empty
  <2>2. x = Read("reports", Merged(q, m, Over(q.filters, q.hired)), TRUE)
    BY <1>1, <2>1, Unclaimed DEF Extracted, Open
  <2> HIDE DEF x
  <2> QED  BY <2>2 DEF Read
<1> HIDE DEF x
<1>5. Empty(Place(q.filters))
  BY PartDomain DEF AsksForReports, Empty
<1>6. SetGuard(q, x, m) = Declines
  BY <1>1, <1>4, <1>5, Unclaimed DEF SetGuard, AsksForReports
<1>7. Structured(q, x, m) = Reports(q.who)
  BY <1>4 DEF Structured
<1>8. Reports(q.who) # Declines
  BY PlanFields, DeclinesSound DEF Reports
<1> QED
  BY <1>2, <1>3, <1>6, <1>7, <1>8 DEF Compile, Heuristic, OrElse, x

(* A question for reports that both answer for what else it says, or that  *)
(* the heuristics answer by the name.                                      *)
LEMMA ReportsOrName ==
  ASSUME NEW q \in Questions, AsksForReports(q), NEW m, m.cohort # {}
  PROVE  LET p == Heuristic(q, m)
         IN  p = Compile(q, m) \/ (Says(q, "person") /\ ByName(q, m, p))
<1>1. q.says \cap (Claims \ {"reports"}) = {} /\ ~Says(q, "unsupported") /\ ~Says(q, "attribute")
  BY DEF AsksForReports
<1>2. ASSUME NEW p, p # Declines, PersonGuard(q, m) = p, Claimed(q, m) = p
      PROVE  Heuristic(q, m) = Compile(q, m)
  BY <1>2 DEF Heuristic, Compile, OrElse
<1>3. CASE Says(q, "headcount")
  <2>1. ~Says(q, "meta")
    BY <1>3, QuestionFacts DEF Says
  <2>2. Filtered("count", <<>>) # Declines
    BY PlanFields, DeclinesSound DEF Filtered
  <2>3. /\ PersonGuard(q, m) = Filtered("count", <<>>)
        /\ Claimed(q, m) = Filtered("count", <<>>)
    BY <1>1, <1>3, <2>1 DEF PersonGuard, Claimed
  <2> QED  BY <1>2, <2>2, <2>3
<1>4. CASE Says(q, "meta") /\ ~Says(q, "headcount")
  <2>1. PersonGuard(q, m) = Repeat(m) /\ Claimed(q, m) = Repeat(m)
    BY <1>1, <1>4, Unclaimed DEF PersonGuard, Claimed
  <2> QED  BY <1>2, <2>1, RepeatAnswers
<1>5. CASE ~Says(q, "meta") /\ ~Says(q, "headcount") /\ Says(q, "person") /\ Familiar(q, m)
  <2>1. Claimed(q, m) = Person(q.who, "person")
    BY <1>1, <1>5, Unclaimed DEF Claimed
  <2>2. Person(q.who, "person") # Declines
    BY PersonFields, DeclinesSound
  <2> QED  BY <1>5, <2>1, <2>2 DEF Heuristic, OrElse, ByName
<1>6. CASE /\ ~Says(q, "meta") /\ ~Says(q, "headcount") /\ ~Familiar(q, m)
           /\ Says(q, "pronoun") /\ Says(q, "person")
  <2>1. PersonGuard(q, m) = Pronoun(m) /\ Claimed(q, m) = Pronoun(m)
    BY <1>1, <1>6, Unclaimed DEF PersonGuard, Claimed
  <2>2. Pronoun(m) # Declines
    BY SayFields, PersonFields, DeclinesSound DEF Pronoun
  <2> QED  BY <1>2, <2>1, <2>2
<1>7. CASE Open(q, m)
  BY <1>7, ReportsAlike
<1> QED
  BY <1>1, <1>3, <1>4, <1>5, <1>6, <1>7 DEF Open, AsksForReports

LEMMA TiersAreAlike == TiersAgreeOnOneThing
<1> SUFFICES ASSUME memory.cohort # {}, Empty(memory.constraints),
                    NEW q \in Questions, AsksOneThing(q), Finds(Heuristic(q, memory)),
                    Compile(q, memory) # Heuristic(q, memory)
             PROVE  Alike(Heuristic(q, memory), Compile(q, memory))
  BY ReportsOrName DEF TiersAgreeOnOneThing, Alike
<1>1. Open(q, memory)
  BY OpenOrAlike, NoReports DEF AsksOneThing
<1>2. ~Says(q, "names")
  BY <1>1, NamesAlike DEF AsksOneThing
<1>3. Empty(q.hired)
  BY <1>1, HiredAlike
<1>4. Selects(Heuristic(q, memory), q, memory) /\ ~BareList(q)
  BY <1>1, <1>2, <1>3, ThemSelected, CompanySelected DEF BareList
<1>5. Picks(Compile(q, memory), q, memory)
  BY <1>1, <1>2, <1>3, <1>4, CompileSelects
<1> QED
  BY <1>4, <1>5, SelectedAlike DEF Alike, Picks

(* TiersAgree for any company and any questions that state one thing: the  *)
(* planners of _compile_pair and try_heuristic_plan, written apart from    *)
(* each other, read the same condition, apply it to the same people, and   *)
(* find the same ones; and where they part over "who is on ann fox's       *)
(* team?", it is only because the session has heard of Ann Fox: the        *)
(* heuristics then answer about her alone.                                 *)
THEOREM TiersAreOfOneMind == FollowUpSpec => []TiersAgreeOnOneThing
  BY TiersAreAlike, PTL
=============================================================================
