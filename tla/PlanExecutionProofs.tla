------------------------- MODULE PlanExecutionProofs -------------------------
(***************************************************************************)
(* Proofs about PlanExecution, for any number of turns, plans, tools and   *)
(* any threshold and timeouts.                                             *)
(*                                                                         *)
(* The inductive invariant has a part per turn (NodeInv, TurnInv), which   *)
(* the steps of other turns leave alone, and a part per breaker            *)
(* (BreakerInv): a breaker never counts more failures than there are       *)
(* failed nodes, which is what makes an open circuit earned.               *)
(***************************************************************************)
EXTENDS PlanExecution, TLAPS, FiniteSetTheorems

Bad(end) == end \notin {"ok", "none"}

NodeInv(t, n) ==
    /\ node[t][n].end = "none" <=> node[t][n].at \in {"pending", "queued", "calling"}
    /\ node[t][n].at = "queued" => plan[t][n].deps \subseteq Completed(t)
    /\ node[t][n].at = "calling" => plan[t][n].kind = "tool"
    /\ Ran(t, n) => plan[t][n].deps \subseteq node[t][n].seen
    /\ Bad(node[t][n].end) => degraded[t]
    /\ node[t][n].end = "deadlock" => ~Acyclic(DepsFn(plan[t]))

TurnInv(t) ==
    /\ phase[t] = "idle" =>
          plan[t] = <<>> /\ \A n \in NodeIds : node[t][n] = NotStarted
    /\ \A n \in Nodes(t) : NodeInv(t, n)
    /\ phase[t] = "done" => \A n \in Nodes(t) : node[t][n].at = "published"
    /\ degraded[t] => \E n \in Nodes(t) : Bad(node[t][n].end)

BreakerInv ==
    /\ BreakerMatchesFailures
    /\ \A x \in Tools : breakers[x].failures <= Cardinality(Failed(x))
    /\ OpenCircuitIsEarned

IInv == TypeOK /\ (\A t \in Turns : TurnInv(t)) /\ BreakerInv

-----------------------------------------------------------------------------
(* Types of the data an action reads. *)
LEMMA PlanTypes ==
    ASSUME TypeOK, NEW t \in Turns
    PROVE  /\ Nodes(t) \subseteq NodeIds
           /\ \A n \in Nodes(t) :
                 /\ plan[t][n] \in PlanNode
                 /\ plan[t][n].deps \subseteq Nodes(t)
                 /\ plan[t][n].kind = "tool" => plan[t][n].name \in Tools
<1>1. CASE plan[t] = <<>>
  BY <1>1 DEF Nodes
<1>2. CASE plan[t] \in Plans
  BY <1>2, ExecutionAssumption DEF Nodes
<1>3. QED
  BY <1>1, <1>2 DEF TypeOK

LEMMA NodeTypes ==
    ASSUME TypeOK, NEW t \in Turns, NEW n \in NodeIds
    PROVE  node[t][n] \in Progress /\ node[t] \in [NodeIds -> Progress]
BY DEF TypeOK

Stages == {"pending", "queued", "calling", "finished", "published"}

(* Moving a node to another stage changes nothing else of it. *)
LEMMA Moved ==
    ASSUME NEW r \in Progress, NEW s \in Stages
    PROVE  /\ [r EXCEPT !.at = s] \in Progress
           /\ [r EXCEPT !.at = s].at = s
           /\ [r EXCEPT !.at = s].end = r.end
           /\ [r EXCEPT !.at = s].seen = r.seen
           /\ [r EXCEPT !.at = s].age = r.age
BY DEF Progress, Stages

(* All nodes of S move to one stage. *)
LEMMA StageChange ==
    ASSUME TypeOK, NEW t \in Turns, NEW S, NEW s \in Stages,
           node' = MoveAll(t, S, s)
    PROVE  /\ node' \in [Turns -> [NodeIds -> Progress]]
           /\ \A u \in Turns \ {t} : node'[u] = node[u]
           /\ \A n \in NodeIds :
                 /\ node'[t][n].at = IF n \in S THEN s ELSE node[t][n].at
                 /\ node'[t][n].end = node[t][n].end
                 /\ node'[t][n].seen = node[t][n].seen
                 /\ n \notin S => node'[t][n] = node[t][n]
<1>1. /\ \A u \in Turns \ {t} : node'[u] = node[u]
      /\ \A n \in NodeIds :
            node'[t][n] = IF n \in S THEN [node[t][n] EXCEPT !.at = s] ELSE node[t][n]
  BY DEF TypeOK, MoveAll
<1>2. ASSUME NEW n \in NodeIds
      PROVE  /\ node'[t][n] \in Progress
             /\ node'[t][n].at = IF n \in S THEN s ELSE node[t][n].at
             /\ node'[t][n].end = node[t][n].end
             /\ node'[t][n].seen = node[t][n].seen
  <2> DEFINE r == node[t][n]
  <2>1. r \in Progress /\ node'[t][n] = IF n \in S THEN [r EXCEPT !.at = s] ELSE r
    BY <1>1, NodeTypes
  <2> HIDE DEF r
  <2>2. /\ [r EXCEPT !.at = s] \in Progress
        /\ [r EXCEPT !.at = s].at = s
        /\ [r EXCEPT !.at = s].end = r.end
        /\ [r EXCEPT !.at = s].seen = r.seen
    BY <2>1, Moved
  <2>3. CASE n \in S
    <3>1. node'[t][n] = [r EXCEPT !.at = s]
      BY <2>1, <2>3
    <3>2. QED
      BY <2>2, <2>3, <3>1 DEF r
  <2>4. CASE n \notin S
    BY <2>1, <2>4 DEF r
  <2>5. QED
    BY <2>3, <2>4
<1>3. node' \in [Turns -> [NodeIds -> Progress]]
  BY <1>2 DEF TypeOK, MoveAll
<1>4. QED
  BY <1>1, <1>2, <1>3

(* The invariant of a turn reads that turn's variables only. *)
LEMMA OtherTurn ==
    ASSUME NEW t \in Turns, TurnInv(t),
           phase'[t] = phase[t], plan'[t] = plan[t],
           node'[t] = node[t], degraded'[t] = degraded[t]
    PROVE  TurnInv(t)'
BY DEF TurnInv, NodeInv, Ran, Nodes, Completed, At, DepsFn

(* A node that does not move keeps its invariant as the turn goes on. *)
LEMMA NodeStays ==
    ASSUME NEW t \in Turns, NEW n \in Nodes(t), NodeInv(t, n),
           plan'[t] = plan[t], degraded[t] => degraded'[t],
           Completed(t) \subseteq Completed(t)',
           node'[t][n].at = node[t][n].at, node'[t][n].end = node[t][n].end,
           node'[t][n].seen = node[t][n].seen
    PROVE  NodeInv(t, n)'
BY DEF NodeInv, DepsFn, Bad, Ran

LEMMA FailedIsFinite ==
    \A x : IsFiniteSet(Failed(x)) /\ Cardinality(Failed(x)) \in Nat
<1>1. IsFiniteSet(Turns \X NodeIds)
  BY ExecutionAssumption, FS_Product
<1>2. \A x : Failed(x) \subseteq Turns \X NodeIds
  BY DEF Failed
<1>3. QED
  BY <1>1, <1>2, FS_Subset, FS_CardinalityType

-----------------------------------------------------------------------------
LEMMA InitInv == Init => IInv
<1> SUFFICES ASSUME Init PROVE IInv
  OBVIOUS
<1>1. TypeOK
  <2>1. NotStarted \in Progress
    BY ExecutionAssumption DEF NotStarted, Progress
  <2>2. Fresh \in Breaker
    BY ExecutionAssumption DEF Fresh, Breaker
  <2>3. QED
    BY <2>1, <2>2 DEF Init, TypeOK
<1>2. \A t \in Turns : Nodes(t) = {}
  BY DEF Init, Nodes
<1>3. \A t \in Turns : TurnInv(t)
  BY <1>2 DEF Init, TurnInv
<1>4. BreakerInv
  <2>1. BreakerMatchesFailures
    BY ExecutionAssumption DEF Init, Fresh, BreakerMatchesFailures
  <2>2. \A x \in Tools : breakers[x].failures = 0
    BY DEF Init, Fresh
  <2>3. QED
    BY <1>2, <2>1, <2>2, FailedIsFinite
       DEF BreakerInv, OpenCircuitIsEarned, Refused
<1>5. QED
  BY <1>1, <1>3, <1>4 DEF IInv

-----------------------------------------------------------------------------
(* Node n of turn t neither fails in a tool nor is refused by a breaker. *)
Harmless(t, n) ==
    \/ plan'[t] = plan[t] /\ node'[t][n].end = node[t][n].end
    \/ node[t][n].end = "none" /\ node'[t][n].end = "none"
    \/ /\ plan'[t] = plan[t] /\ node[t][n].end = "none"
       /\ node'[t][n].end \in {"ok", "raised", "deadlock"}
       /\ node'[t][n].end = "raised" /\ n \in Nodes(t) => plan[t][n].kind = "operator"

(* The breaker refuses node n of turn t. *)
Rejected(t, n) ==
    plan'[t] = plan[t] /\ node[t][n].end = "none" /\ node'[t][n].end = "circuit_open"

LEMMA NodesAreNodeIds ==
    ASSUME TypeOK' PROVE \A t \in Turns : Nodes(t)' \subseteq NodeIds
<1>1. \A t \in Turns : plan'[t] = <<>> \/ plan'[t] \in Plans
  BY DEF TypeOK
<1>2. QED
  BY <1>1, ExecutionAssumption DEF Nodes

LEMMA SameFailures ==
    ASSUME IInv, TypeOK',
           \A t \in Turns : \A n \in NodeIds : Harmless(t, n) \/ Rejected(t, n)
    PROVE  \A x : Failed(x)' = Failed(x)
<1>1. \A t \in Turns : Nodes(t) \subseteq NodeIds /\ Nodes(t)' \subseteq NodeIds
  BY PlanTypes, NodesAreNodeIds DEF IInv
<1>2. SUFFICES ASSUME NEW x, NEW t \in Turns, NEW n \in NodeIds
               PROVE  <<t, n>> \in Failed(x) <=> (<<t, n>> \in Failed(x))'
  BY <1>2 DEF Failed
<1>3. Harmless(t, n) \/ Rejected(t, n)
  OBVIOUS
<1>4. plan'[t] = plan[t] => Nodes(t)' = Nodes(t)
  BY DEF Nodes
<1>5. QED
  BY <1>1, <1>3, <1>4 DEF Failed, Harmless, Rejected

LEMMA RefusedBefore ==
    ASSUME IInv, TypeOK', NEW x, Refused(x)',
           \A t \in Turns : \A n \in NodeIds :
              \/ plan'[t] = plan[t] /\ node'[t][n].end = node[t][n].end
              \/ node'[t][n].end # "circuit_open"
    PROVE  Refused(x)
<1>0. PICK t \in Turns : \E n \in Nodes(t)' :
         plan'[t][n].name = x /\ node'[t][n].end = "circuit_open"
  BY DEF Refused
<1>1. PICK n \in Nodes(t)' :
         plan'[t][n].name = x /\ node'[t][n].end = "circuit_open"
  BY <1>0
<1>2. n \in NodeIds
  BY NodesAreNodeIds
<1>3. plan'[t] = plan[t] /\ node[t][n].end = "circuit_open" /\ n \in Nodes(t)
  BY <1>1, <1>2 DEF Nodes
<1>4. QED
  BY <1>1, <1>3 DEF Refused

LEMMA BreakersStay ==
    ASSUME IInv, TypeOK', UNCHANGED breakers,
           \A t \in Turns : \A n \in NodeIds : Harmless(t, n)
    PROVE  BreakerInv'
<1>1. \A x : Failed(x)' = Failed(x)
  BY SameFailures
<1>2. BreakerMatchesFailures'
  BY DEF IInv, BreakerInv, BreakerMatchesFailures
<1>3. \A x : Refused(x)' => Refused(x)
  BY RefusedBefore DEF Harmless
<1>4. OpenCircuitIsEarned'
  BY <1>1, <1>3 DEF IInv, BreakerInv, OpenCircuitIsEarned
<1>5. QED
  BY <1>1, <1>2, <1>4 DEF IInv, BreakerInv

-----------------------------------------------------------------------------
(* The turn of a node that is in a wave is running. *)
LEMMA InWave ==
    ASSUME IInv, NEW t \in Turns, NEW n \in Nodes(t),
           node[t][n].at \in {"queued", "calling"}
    PROVE  phase[t] = "running" /\ NodeInv(t, n) /\ node[t][n].end = "none"
<1>1. TurnInv(t) /\ n \in NodeIds
  BY PlanTypes DEF IInv
<1>2. phase[t] # "idle"
  BY <1>1 DEF TurnInv, NotStarted
<1>3. phase[t] # "done"
  BY <1>1 DEF TurnInv
<1>4. QED
  BY <1>1, <1>2, <1>3 DEF IInv, TypeOK, TurnInv, NodeInv

(* One node of a running turn is called or finishes. *)
LEMMA MoveKeepsTurn ==
    ASSUME IInv, NEW t \in Turns, NEW n \in Nodes(t),
           node[t][n].at \in {"queued", "calling"},
           UNCHANGED <<phase, plan>>,
           degraded[t] => degraded'[t],
           degraded'[t] => degraded[t] \/ Bad(node'[t][n].end),
           \A m \in NodeIds \ {n} : node'[t][m] = node[t][m],
           NodeInv(t, n)'
    PROVE  TurnInv(t)'
<1>1. TurnInv(t) /\ Nodes(t) \subseteq NodeIds /\ Nodes(t)' = Nodes(t)
  BY PlanTypes DEF IInv, Nodes
<1>2. phase'[t] = "running" /\ node[t][n].end = "none"
  BY InWave
<1>3. Completed(t) \subseteq Completed(t)'
  BY <1>1 DEF Completed, At
<1>4. \A m \in Nodes(t) : NodeInv(t, m)'
  BY <1>1, <1>3, NodeStays DEF TurnInv
<1>5. degraded'[t] => \E m \in Nodes(t) : Bad(node'[t][m].end)
  <2>1. CASE degraded[t]
    <3>1. PICK m \in Nodes(t) : Bad(node[t][m].end)
      BY <1>1, <2>1 DEF TurnInv
    <3>2. m # n
      BY <1>2, <3>1 DEF Bad
    <3>3. QED
      BY <1>1, <3>1, <3>2
  <2>2. QED
    BY <2>1
<1>6. QED
  BY <1>1, <1>2, <1>4, <1>5 DEF TurnInv

LEMMA BeginStep ==
    ASSUME IInv, NEW t \in Turns, Begin(t)
    PROVE  IInv'
<1>1. PICK p \in Plans : plan' = [plan EXCEPT ![t] = p]
  BY DEF Begin
<1>2. TypeOK'
  BY <1>1 DEF IInv, TypeOK, Begin
<1>3. /\ phase'[t] = "running" /\ plan'[t] = p /\ node' = node /\ degraded' = degraded
      /\ breakers' = breakers
      /\ \A u \in Turns \ {t} : phase'[u] = phase[u] /\ plan'[u] = plan[u]
  BY <1>1 DEF IInv, TypeOK, Begin
<1>4. \A n \in NodeIds : node[t][n] = NotStarted
  BY DEF IInv, TurnInv, Begin
<1>5. Nodes(t)' \subseteq NodeIds
  BY <1>3, ExecutionAssumption DEF Nodes
<1>6. ~degraded[t]
  BY DEF IInv, TurnInv, Begin, Nodes
<1>7. TurnInv(t)'
  BY <1>3, <1>4, <1>5, <1>6 DEF TurnInv, NodeInv, NotStarted, Ran, Bad
<1>8. \A u \in Turns : TurnInv(u)'
  <2> SUFFICES ASSUME NEW u \in Turns \ {t} PROVE TurnInv(u)'
    BY <1>7
  <2>1. QED
    BY <1>3, OtherTurn DEF IInv
<1>9. \A u \in Turns : \A n \in NodeIds : Harmless(u, n)
  BY <1>3, <1>4 DEF Harmless, NotStarted
<1>10. QED
  BY <1>2, <1>3, <1>8, <1>9, BreakersStay DEF IInv

LEMMA StartWaveStep ==
    ASSUME IInv, NEW t \in Turns, StartWave(t)
    PROVE  IInv'
<1>1. /\ phase[t] = "running" /\ UNCHANGED <<breakers, phase, plan, degraded>>
      /\ node' = MoveAll(t, Ready(t), "queued")
  BY DEF StartWave
<1>2. Ready(t) = {n \in Pending(t) : plan[t][n].deps \subseteq Completed(t)}
  BY DEF Ready, ReadyNodes, DepsFn, Pending, Nodes
<1>3. \A n \in NodeIds : n \in Ready(t) => node[t][n].at = "pending" /\ n \in Nodes(t)
  <2>1. \A n \in Nodes(t) : n \in NodeIds /\ node[t][n].at \in
            {"pending", "queued", "calling", "finished", "published"}
    BY PlanTypes DEF IInv, TypeOK, Progress
  <2>2. QED
    BY <1>2, <2>1 DEF StartWave, Wave, Pending, Completed, At
<1>4. /\ node' \in [Turns -> [NodeIds -> Progress]]
      /\ \A u \in Turns \ {t} : node'[u] = node[u]
      /\ \A n \in NodeIds :
            /\ node'[t][n].at = IF n \in Ready(t) THEN "queued" ELSE node[t][n].at
            /\ node'[t][n].end = node[t][n].end
            /\ node'[t][n].seen = node[t][n].seen
            /\ n \notin Ready(t) => node'[t][n] = node[t][n]
  <2>1. "queued" \in Stages
    BY DEF Stages
  <2>2. QED
    BY <1>1, <2>1, StageChange DEF IInv
<1>6. TypeOK'
  BY <1>1, <1>4 DEF IInv, TypeOK
<1>7. TurnInv(t)'
  <2>1. Nodes(t)' = Nodes(t) /\ Nodes(t) \subseteq NodeIds /\ TurnInv(t)
    BY <1>1, PlanTypes DEF IInv, Nodes
  <2>2. Completed(t) \subseteq Completed(t)'
    BY <1>3, <1>4, <2>1 DEF Completed, At
  <2>3. ASSUME NEW n \in Nodes(t) PROVE NodeInv(t, n)'
    <3>1. CASE n \in Ready(t)
      <4>1. /\ node[t][n].at = "pending" /\ node'[t][n].at = "queued"
            /\ plan'[t][n].deps \subseteq Completed(t)'
            /\ node[t][n].end = "none"
        BY <1>1, <1>2, <1>3, <1>4, <2>1, <2>2, <3>1 DEF TurnInv, NodeInv
      <4>2. QED
        BY <1>4, <2>1, <4>1 DEF NodeInv, Ran, Bad
    <3>2. CASE n \notin Ready(t)
      BY <1>1, <1>4, <2>1, <2>2, <3>2, NodeStays DEF TurnInv
    <3>3. QED
      BY <3>1, <3>2
  <2>4. degraded'[t] => \E n \in Nodes(t) : Bad(node'[t][n].end)
    BY <1>1, <1>4, <2>1 DEF TurnInv
  <2>5. QED
    BY <1>1, <2>1, <2>3, <2>4 DEF TurnInv
<1>8. \A u \in Turns : TurnInv(u)'
  <2> SUFFICES ASSUME NEW u \in Turns \ {t} PROVE TurnInv(u)'
    BY <1>7
  <2>1. QED
    BY <1>1, <1>4, OtherTurn DEF IInv
<1>9. \A u \in Turns : \A n \in NodeIds : Harmless(u, n)
  BY <1>1, <1>4, <1>4 DEF Harmless
<1>10. QED
  BY <1>1, <1>6, <1>8, <1>9, BreakersStay DEF IInv

(* A node of a wave finishes: run_node returns. *)
LEMMA FinishedNode ==
    ASSUME TypeOK, NEW t \in Turns, NEW n \in NodeIds, NEW end \in Ends,
           Finished(t, n, end)
    PROVE  /\ node' \in [Turns -> [NodeIds -> Progress]]
           /\ \A u \in Turns \ {t} : node'[u] = node[u]
           /\ \A m \in NodeIds \ {n} : node'[t][m] = node[t][m]
           /\ node'[t][n].at = "finished" /\ node'[t][n].end = end
           /\ node'[t][n].seen = IF node[t][n].at = "queued" THEN Resolved(t, n)
                                 ELSE node[t][n].seen
<1> DEFINE new == [at |-> "finished", age |-> 0, end |-> end,
                   seen |-> IF node[t][n].at = "queued" THEN Resolved(t, n)
                            ELSE node[t][n].seen]
<1>1. node' = [node EXCEPT ![t][n] = new]
  BY DEF Finished, TypeOK
<1>2. Resolved(t, n) \subseteq NodeIds
  BY PlanTypes DEF Resolved, Completed, At
<1>3. node[t][n] \in Progress
  BY NodeTypes
<1>4. new \in Progress
  BY <1>2, <1>3, ExecutionAssumption DEF Progress
<1>5. QED
  <2>1. /\ new.at = "finished" /\ new.end = end
        /\ new.seen = IF node[t][n].at = "queued" THEN Resolved(t, n)
                      ELSE node[t][n].seen
    OBVIOUS
  <2> HIDE DEF new
  <2>2. node'[t][n] = new
    BY <1>1 DEF TypeOK
  <2>3. QED
    BY <1>1, <1>4, <2>1, <2>2 DEF TypeOK

LEMMA FinishKeepsTurns ==
    ASSUME IInv, NEW t \in Turns, NEW n \in Nodes(t),
           NEW end \in Ends \ {"deadlock"},
           node[t][n].at \in {"queued", "calling"}, Finished(t, n, end),
           UNCHANGED <<phase, plan>>,
           \/ end = "ok" /\ UNCHANGED degraded
           \/ end # "ok" /\ Degrade(t)
    PROVE  /\ node' \in [Turns -> [NodeIds -> Progress]]
           /\ degraded' \in [Turns -> BOOLEAN]
           /\ \A u \in Turns : TurnInv(u)'
           /\ node[t][n].end = "none" /\ node'[t][n].end = end
           /\ \A u \in Turns : \A m \in NodeIds :
                 u # t \/ m # n => node'[u][m] = node[u][m]
<1>1. n \in NodeIds /\ TypeOK /\ TurnInv(t)
  BY PlanTypes DEF IInv
<1>2. /\ node' \in [Turns -> [NodeIds -> Progress]]
      /\ \A u \in Turns \ {t} : node'[u] = node[u]
      /\ \A m \in NodeIds \ {n} : node'[t][m] = node[t][m]
      /\ node'[t][n].at = "finished" /\ node'[t][n].end = end
      /\ node'[t][n].seen = IF node[t][n].at = "queued" THEN Resolved(t, n)
                            ELSE node[t][n].seen
  BY <1>1, FinishedNode
<1>3. /\ degraded' \in [Turns -> BOOLEAN]
      /\ degraded'[t] = (degraded[t] \/ end # "ok")
      /\ \A u \in Turns \ {t} : degraded'[u] = degraded[u]
  BY <1>1 DEF Degrade, TypeOK
<1>4. NodeInv(t, n) /\ node[t][n].end = "none" /\ end # "none"
  BY InWave DEF Ends
<1>5. plan[t][n].deps \subseteq node'[t][n].seen
  <2>1. CASE node[t][n].at = "queued"
    BY <1>2, <1>4, <2>1 DEF NodeInv, Resolved
  <2>2. CASE node[t][n].at = "calling"
    BY <1>2, <1>4, <2>2 DEF NodeInv, Ran
  <2>3. QED
    BY <2>1, <2>2
<1>6. NodeInv(t, n)'
  BY <1>2, <1>3, <1>4, <1>5 DEF NodeInv, Bad, Ran
<1>7. TurnInv(t)'
  BY <1>2, <1>3, <1>4, <1>6, MoveKeepsTurn DEF Bad
<1>8. \A u \in Turns : TurnInv(u)'
  <2> SUFFICES ASSUME NEW u \in Turns \ {t} PROVE TurnInv(u)'
    BY <1>7
  <2>1. QED
    BY <1>2, <1>3, OtherTurn DEF IInv
<1>9. QED
  BY <1>2, <1>3, <1>4, <1>8

LEMMA RunOperatorStep ==
    ASSUME IInv, NEW t \in Turns, NEW n \in NodeIds, RunOperator(t, n)
    PROVE  IInv'
<1>1. /\ n \in Nodes(t) /\ node[t][n].at = "queued" /\ plan[t][n].kind = "operator"
      /\ UNCHANGED <<breakers, phase, plan>>
  BY DEF RunOperator, At
<1>2. PICK end \in {"ok", "raised"} :
         /\ Finished(t, n, end)
         /\ (end = "ok" /\ UNCHANGED degraded) \/ (end # "ok" /\ Degrade(t))
  BY DEF RunOperator
<1>3. end \in Ends \ {"deadlock"}
  BY <1>2 DEF Ends
<1>4. /\ node' \in [Turns -> [NodeIds -> Progress]]
      /\ degraded' \in [Turns -> BOOLEAN]
      /\ \A u \in Turns : TurnInv(u)'
      /\ node[t][n].end = "none" /\ node'[t][n].end = end
      /\ \A u \in Turns : \A m \in NodeIds :
            u # t \/ m # n => node'[u][m] = node[u][m]
  BY <1>1, <1>2, <1>3, FinishKeepsTurns
<1>5. TypeOK'
  BY <1>1, <1>4 DEF IInv, TypeOK
<1>6. ASSUME NEW u \in Turns, NEW m \in NodeIds PROVE Harmless(u, m)
  BY <1>1, <1>2, <1>4 DEF Harmless
<1>7. QED
  BY <1>1, <1>4, <1>5, <1>6, BreakersStay DEF IInv

LEMMA CallToolStep ==
    ASSUME IInv, NEW t \in Turns, NEW n \in NodeIds, CallTool(t, n)
    PROVE  IInv'
<1> DEFINE r == node[t][n]
           new == [r EXCEPT !.at = "calling", !.seen = Resolved(t, n)]
<1>1. /\ n \in Nodes(t) /\ node[t][n].at = "queued" /\ plan[t][n].kind = "tool"
      /\ UNCHANGED <<breakers, phase, plan, degraded>>
  BY DEF CallTool, At
<1>2. node' = [node EXCEPT ![t][n] = new]
  BY DEF CallTool, IInv, TypeOK
<1>3. Resolved(t, n) \subseteq NodeIds /\ r \in Progress
  BY PlanTypes, NodeTypes DEF Resolved, Completed, At, IInv
<1>4. /\ new \in Progress /\ new.at = "calling" /\ new.end = r.end
      /\ new.seen = Resolved(t, n)
  <2> HIDE DEF r
  <2>1. QED
    BY <1>3 DEF Progress
<1> HIDE DEF new
<1>5. /\ node' \in [Turns -> [NodeIds -> Progress]]
      /\ node'[t][n] = new
      /\ \A u \in Turns \ {t} : node'[u] = node[u]
      /\ \A m \in NodeIds \ {n} : node'[t][m] = node[t][m]
  BY <1>2, <1>4 DEF IInv, TypeOK
<1>6. NodeInv(t, n) /\ r.end = "none"
  BY <1>1, InWave
<1>7. plan[t][n].deps \subseteq Resolved(t, n)
  BY <1>1, <1>6 DEF NodeInv, Resolved
<1>8. NodeInv(t, n)'
  BY <1>1, <1>4, <1>5, <1>6, <1>7 DEF NodeInv, Ran, Bad
<1>9. TurnInv(t)'
  BY <1>1, <1>5, <1>8, MoveKeepsTurn
<1>10. \A u \in Turns : TurnInv(u)'
  <2> SUFFICES ASSUME NEW u \in Turns \ {t} PROVE TurnInv(u)'
    BY <1>9
  <2>1. QED
    BY <1>1, <1>5, OtherTurn DEF IInv
<1>11. TypeOK'
  BY <1>1, <1>5 DEF IInv, TypeOK
<1>12. ASSUME NEW u \in Turns, NEW m \in NodeIds PROVE Harmless(u, m)
  BY <1>1, <1>4, <1>5 DEF Harmless
<1>13. QED
  BY <1>1, <1>10, <1>11, <1>12, BreakersStay DEF IInv

LEMMA EndWaveStep ==
    ASSUME IInv, NEW t \in Turns, EndWave(t)
    PROVE  IInv'
<1>1. /\ phase[t] = "running" /\ UNCHANGED <<breakers, phase, plan, degraded>>
      /\ node' = MoveAll(t, Wave(t), "published") /\ Wave(t) = At(t, "finished")
  BY DEF EndWave
<1>2. /\ node' \in [Turns -> [NodeIds -> Progress]]
      /\ \A u \in Turns \ {t} : node'[u] = node[u]
      /\ \A n \in NodeIds :
            /\ node'[t][n].at = IF n \in Wave(t) THEN "published" ELSE node[t][n].at
            /\ node'[t][n].end = node[t][n].end
            /\ node'[t][n].seen = node[t][n].seen
            /\ n \notin Wave(t) => node'[t][n] = node[t][n]
  <2>1. "published" \in Stages
    BY DEF Stages
  <2>2. QED
    BY <1>1, <2>1, StageChange DEF IInv
<1>3. TypeOK'
  BY <1>1, <1>2 DEF IInv, TypeOK
<1>4. TurnInv(t)'
  <2>1. Nodes(t)' = Nodes(t) /\ Nodes(t) \subseteq NodeIds /\ TurnInv(t)
    BY <1>1, PlanTypes DEF IInv, Nodes
  <2>2. Completed(t) \subseteq Completed(t)'
    BY <1>2, <2>1 DEF Completed, At
  <2>3. ASSUME NEW n \in Nodes(t) PROVE NodeInv(t, n)'
    <3>1. CASE n \in Wave(t)
      <4>1. /\ node[t][n].at = "finished" /\ node'[t][n].at = "published"
            /\ NodeInv(t, n)
        BY <1>1, <1>2, <2>1, <3>1 DEF At, TurnInv
      <4>2. node[t][n].end # "none" /\ plan[t][n].deps \subseteq node[t][n].seen
        BY <4>1 DEF NodeInv, Ran
      <4>3. QED
        BY <1>1, <1>2, <2>1, <4>1, <4>2 DEF NodeInv, Ran, Bad, DepsFn
    <3>2. CASE n \notin Wave(t)
      BY <1>1, <1>2, <2>1, <2>2, <3>2, NodeStays DEF TurnInv
    <3>3. QED
      BY <3>1, <3>2
  <2>4. degraded'[t] => \E n \in Nodes(t) : Bad(node'[t][n].end)
    BY <1>1, <1>2, <2>1 DEF TurnInv
  <2>5. QED
    BY <1>1, <2>1, <2>3, <2>4 DEF TurnInv
<1>5. \A u \in Turns : TurnInv(u)'
  <2> SUFFICES ASSUME NEW u \in Turns \ {t} PROVE TurnInv(u)'
    BY <1>4
  <2>1. QED
    BY <1>1, <1>2, OtherTurn DEF IInv
<1>6. \A u \in Turns : \A n \in NodeIds : Harmless(u, n)
  BY <1>1, <1>2 DEF Harmless
<1>7. QED
  BY <1>1, <1>3, <1>5, <1>6, BreakersStay DEF IInv

LEMMA FinishStep ==
    ASSUME IInv, NEW t \in Turns, Finish(t)
    PROVE  IInv'
<1>1. /\ phase[t] = "running" /\ Pending(t) = {}
      /\ phase' = [phase EXCEPT ![t] = "done"]
      /\ UNCHANGED <<breakers, plan, node, degraded>>
  BY DEF Finish
<1>2. TypeOK'
  BY <1>1 DEF IInv, TypeOK
<1>3. phase'[t] = "done" /\ \A u \in Turns \ {t} : phase'[u] = phase[u]
  BY <1>1 DEF IInv, TypeOK
<1>4. \A n \in Nodes(t) : node[t][n].at = "published"
  BY <1>1 DEF Pending, Completed, At
<1>5. TurnInv(t)'
  BY <1>1, <1>3, <1>4
     DEF IInv, TurnInv, NodeInv, Nodes, Completed, At, Ran, DepsFn
<1>6. \A u \in Turns : TurnInv(u)'
  <2> SUFFICES ASSUME NEW u \in Turns \ {t} PROVE TurnInv(u)'
    BY <1>5
  <2>1. QED
    BY <1>1, <1>3, OtherTurn DEF IInv
<1>7. \A u \in Turns : \A n \in NodeIds : Harmless(u, n)
  BY <1>1 DEF Harmless
<1>8. QED
  BY <1>1, <1>2, <1>6, <1>7, BreakersStay DEF IInv

-----------------------------------------------------------------------------
(* The steps that touch a breaker. *)
LEMMA RejectCallStep ==
    ASSUME IInv, NEW t \in Turns, NEW n \in NodeIds, RejectCall(t, n)
    PROVE  IInv'
<1> DEFINE x == plan[t][n].name
<1>1. /\ n \in Nodes(t) /\ node[t][n].at = "queued" /\ plan[t][n].kind = "tool"
      /\ ~Allow(breakers[x]) /\ Finished(t, n, "circuit_open") /\ Degrade(t)
      /\ UNCHANGED <<breakers, phase, plan>>
  BY DEF RejectCall, At
<1>2. "circuit_open" \in Ends \ {"deadlock"}
  BY DEF Ends
<1>3. /\ node' \in [Turns -> [NodeIds -> Progress]]
      /\ degraded' \in [Turns -> BOOLEAN]
      /\ \A u \in Turns : TurnInv(u)'
      /\ node[t][n].end = "none" /\ node'[t][n].end = "circuit_open"
      /\ \A u \in Turns : \A m \in NodeIds :
            u # t \/ m # n => node'[u][m] = node[u][m]
  BY <1>1, <1>2, FinishKeepsTurns
<1>4. TypeOK'
  BY <1>1, <1>3 DEF IInv, TypeOK
<1>5. \A u \in Turns : \A m \in NodeIds : Harmless(u, m) \/ Rejected(u, m)
  BY <1>1, <1>3 DEF Harmless, Rejected
<1>6. \A y : Failed(y)' = Failed(y)
  BY <1>4, <1>5, SameFailures
<1>7. x \in Tools
  BY <1>1, PlanTypes DEF IInv
<1>8. Cardinality(Failed(x)) >= Threshold
  <2>1. breakers[x].failures >= Threshold
    BY <1>1, <1>7 DEF IInv, BreakerInv, BreakerMatchesFailures, Allow
  <2>2. breakers[x].failures <= Cardinality(Failed(x)) /\ breakers[x].failures \in Nat
    BY <1>7 DEF IInv, BreakerInv, TypeOK, Breaker
  <2>3. QED
    BY <2>1, <2>2, FailedIsFinite, ExecutionAssumption
<1>9. OpenCircuitIsEarned'
  <2>1. ASSUME NEW y \in Tools, Refused(y)', y # x PROVE Refused(y)
    <3>0. PICK u \in Turns : \E m \in Nodes(u)' :
             plan'[u][m].name = y /\ node'[u][m].end = "circuit_open"
      BY <2>1 DEF Refused
    <3>1. PICK m \in Nodes(u)' :
             plan'[u][m].name = y /\ node'[u][m].end = "circuit_open"
      BY <3>0
    <3>2. m \in NodeIds /\ m \in Nodes(u)
      BY <1>1, <1>4, NodesAreNodeIds DEF Nodes
    <3>3. u # t \/ m # n
      BY <1>1, <2>1, <3>1
    <3>4. QED
      BY <1>1, <1>3, <3>1, <3>2, <3>3 DEF Refused
  <2>2. QED
    BY <1>6, <1>8, <2>1 DEF IInv, BreakerInv, OpenCircuitIsEarned
<1>10. BreakerInv'
  BY <1>1, <1>6, <1>9 DEF IInv, BreakerInv, BreakerMatchesFailures
<1>11. QED
  BY <1>3, <1>4, <1>10 DEF IInv

LEMMA ToolSucceedsStep ==
    ASSUME IInv, NEW t \in Turns, NEW n \in NodeIds, ToolSucceeds(t, n)
    PROVE  IInv'
<1> DEFINE x == plan[t][n].name
<1>1. /\ n \in Nodes(t) /\ node[t][n].at = "calling"
      /\ Finished(t, n, "ok")
      /\ breakers' = [breakers EXCEPT ![x] = RecordSuccess(breakers[x])]
      /\ UNCHANGED <<phase, plan, degraded>>
  BY DEF ToolSucceeds, At
<1>2. "ok" \in Ends \ {"deadlock"}
  BY DEF Ends
<1>3. /\ node' \in [Turns -> [NodeIds -> Progress]]
      /\ degraded' \in [Turns -> BOOLEAN]
      /\ \A u \in Turns : TurnInv(u)'
      /\ node[t][n].end = "none" /\ node'[t][n].end = "ok"
      /\ \A u \in Turns : \A m \in NodeIds :
            u # t \/ m # n => node'[u][m] = node[u][m]
  BY <1>1, <1>2, FinishKeepsTurns
<1>4. \A y \in Tools :
         /\ breakers[y] \in Breaker
         /\ \/ breakers'[y] = breakers[y]
            \/ /\ breakers'[y].failures = 0 /\ ~breakers'[y].open
               /\ breakers'[y] \in Breaker
  <2>1. ASSUME NEW b \in Breaker
        PROVE  RecordSuccess(b) \in Breaker /\ RecordSuccess(b).failures = 0
               /\ ~RecordSuccess(b).open
    <3>1. 0 \in 0..Recovery /\ 0 \in Nat
      BY ExecutionAssumption
    <3>2. QED
      BY <3>1 DEF RecordSuccess, Breaker
  <2>2. QED
    BY <1>1, <2>1 DEF IInv, TypeOK
<1>5. TypeOK'
  <2>1. breakers' \in [Tools -> Breaker]
    BY <1>1, <1>4 DEF IInv, TypeOK
  <2>2. QED
    BY <1>1, <1>3, <2>1 DEF IInv, TypeOK
<1>6. \A u \in Turns : \A m \in NodeIds : Harmless(u, m)
  BY <1>1, <1>3 DEF Harmless
<1>7. \A y : Failed(y)' = Failed(y) /\ (Refused(y)' => Refused(y))
  BY <1>5, <1>6, SameFailures, RefusedBefore DEF Harmless
<1>8. BreakerInv'
  BY <1>4, <1>7, FailedIsFinite, ExecutionAssumption
     DEF IInv, BreakerInv, BreakerMatchesFailures, OpenCircuitIsEarned
<1>9. QED
  BY <1>3, <1>5, <1>8 DEF IInv

LEMMA ToolFailsStep ==
    ASSUME IInv, NEW t \in Turns, NEW n \in NodeIds, ToolFails(t, n)
    PROVE  IInv'
<1> DEFINE x == plan[t][n].name
<1>1. /\ n \in Nodes(t) /\ node[t][n].at = "calling"
      /\ breakers' = [breakers EXCEPT ![x] = RecordFailure(breakers[x])]
      /\ Degrade(t) /\ UNCHANGED <<phase, plan>>
  BY DEF ToolFails, At
<1>2. PICK end \in {"caught", "raised", "timeout"} : Finished(t, n, end)
  BY DEF ToolFails
<1>3. end \in Ends \ {"deadlock"} /\ end # "ok"
  BY <1>2 DEF Ends
<1>4. /\ node' \in [Turns -> [NodeIds -> Progress]]
      /\ degraded' \in [Turns -> BOOLEAN]
      /\ \A u \in Turns : TurnInv(u)'
      /\ node[t][n].end = "none" /\ node'[t][n].end = end
      /\ \A u \in Turns : \A m \in NodeIds :
            u # t \/ m # n => node'[u][m] = node[u][m]
  BY <1>1, <1>2, <1>3, FinishKeepsTurns
<1>5. ASSUME NEW b \in Breaker
      PROVE  /\ RecordFailure(b) \in Breaker
             /\ RecordFailure(b).failures = b.failures + 1
             /\ RecordFailure(b).open <=> b.open \/ b.failures + 1 >= Threshold
  <2>1. CASE b.failures + 1 >= Threshold
    BY <2>1, ExecutionAssumption DEF RecordFailure, Breaker
  <2>2. CASE ~(b.failures + 1 >= Threshold)
    BY <2>2, ExecutionAssumption DEF RecordFailure, Breaker
  <2>3. QED
    BY <2>1, <2>2
<1>6. \A y \in Tools :
         /\ breakers[y] \in Breaker /\ breakers'[y] \in Breaker
         /\ y # x => breakers'[y] = breakers[y]
         /\ y = x => /\ breakers'[y].failures = breakers[y].failures + 1
                     /\ breakers'[y].open <=>
                           breakers[y].open \/ breakers[y].failures + 1 >= Threshold
  BY <1>1, <1>5 DEF IInv, TypeOK
<1>7. TypeOK'
  <2>1. breakers' \in [Tools -> Breaker]
    BY <1>1, <1>6 DEF IInv, TypeOK
  <2>2. QED
    BY <1>1, <1>4, <2>1 DEF IInv, TypeOK
<1>8. plan[t][n].kind = "tool"
  BY <1>1, InWave DEF NodeInv
<1>9. \A y : Refused(y)' => Refused(y)
  BY <1>1, <1>2, <1>4, <1>7, RefusedBefore
<1>10. ASSUME NEW y
       PROVE  /\ y # x => Failed(y)' = Failed(y)
              /\ y = x => Failed(y)' = Failed(y) \cup {<<t, n>>}
              /\ <<t, n>> \notin Failed(y)
  <2>1. \A u \in Turns : Nodes(u) \subseteq NodeIds /\ Nodes(u)' = Nodes(u)
    BY <1>1, PlanTypes DEF IInv, Nodes
  <2>2. <<t, n>> \notin Failed(y) /\ ((<<t, n>> \in Failed(y))' <=> y = x)
    BY <1>1, <1>2, <1>4, <1>8, <2>1 DEF Failed
  <2>3. ASSUME NEW u \in Turns, NEW m \in NodeIds, u # t \/ m # n
        PROVE  (<<u, m>> \in Failed(y))' <=> <<u, m>> \in Failed(y)
    BY <1>1, <1>4, <2>1, <2>3 DEF Failed
  <2>4. /\ Failed(y) \subseteq Turns \X NodeIds
        /\ Failed(y)' \subseteq Turns \X NodeIds
    BY DEF Failed
  <2>5. QED
    BY <2>2, <2>3, <2>4
<1>11. ASSUME NEW y \in Tools
       PROVE  /\ breakers'[y].failures <= Cardinality(Failed(y)')
              /\ Cardinality(Failed(y)) <= Cardinality(Failed(y)')
              /\ Cardinality(Failed(y)') \in Nat
  <2>1. /\ IsFiniteSet(Failed(y)) /\ Cardinality(Failed(y)) \in Nat
        /\ breakers[y].failures \in Nat
        /\ breakers[y].failures <= Cardinality(Failed(y))
    BY <1>6, FailedIsFinite DEF IInv, BreakerInv, Breaker
  <2>2. CASE y = x
    <3>1. Cardinality(Failed(y)') = Cardinality(Failed(y)) + 1
      BY <1>10, <2>1, <2>2, FS_AddElement
    <3>2. QED
      BY <1>6, <2>1, <2>2, <3>1
  <2>3. CASE y # x
    <3>1. Failed(y)' = Failed(y) /\ breakers'[y] = breakers[y]
      BY <1>6, <1>10, <2>3
    <3>2. QED
      BY <2>1, <3>1
  <2>4. QED
    BY <2>2, <2>3
<1>12. BreakerMatchesFailures'
  <2>1. ASSUME NEW y \in Tools
        PROVE  breakers'[y].open <=> breakers'[y].failures >= Threshold
    <3>1. /\ breakers[y].failures \in Nat
          /\ breakers[y].open <=> breakers[y].failures >= Threshold
      BY <1>6 DEF IInv, BreakerInv, BreakerMatchesFailures, Breaker
    <3>2. QED
      BY <1>6, <3>1, ExecutionAssumption
  <2>2. QED
    BY <2>1 DEF BreakerMatchesFailures
<1>13. OpenCircuitIsEarned'
  <2>1. ASSUME NEW y \in Tools, Refused(y)'
        PROVE  Cardinality(Failed(y)') >= Threshold
    <3>1. Cardinality(Failed(y)) >= Threshold /\ Cardinality(Failed(y)) \in Nat
      BY <1>9, <2>1, FailedIsFinite DEF IInv, BreakerInv, OpenCircuitIsEarned
    <3>2. QED
      BY <1>11, <3>1, ExecutionAssumption
  <2>2. QED
    BY <2>1 DEF OpenCircuitIsEarned
<1>14. QED
  BY <1>4, <1>7, <1>11, <1>12, <1>13 DEF IInv, BreakerInv

-----------------------------------------------------------------------------
(* No node of an acyclic plan is left waiting: among the pending nodes one *)
(* depends on none of them, so it is ready.                                *)
LEMMA AcyclicIsReady ==
    ASSUME IInv, NEW t \in Turns, Pending(t) # {}, Acyclic(DepsFn(plan[t]))
    PROVE  Ready(t) # {}
<1>1. /\ DOMAIN DepsFn(plan[t]) = Nodes(t) /\ Pending(t) \subseteq Nodes(t)
      /\ \A n \in Nodes(t) : DepsFn(plan[t])[n] = plan[t][n].deps
  BY DEF DepsFn, Nodes, Pending
<1>2. PICK n \in Pending(t) : plan[t][n].deps \cap Pending(t) = {}
  BY <1>1 DEF Acyclic, HasSource
<1>3. plan[t][n].deps \subseteq Completed(t)
  BY <1>1, <1>2, PlanTypes DEF IInv, Pending
<1>4. QED
  BY <1>1, <1>2, <1>3 DEF Ready, ReadyNodes

LEMMA DeadlockStep ==
    ASSUME IInv, NEW t \in Turns, Deadlock(t)
    PROVE  IInv'
<1>1. /\ phase[t] = "running" /\ Ready(t) = {} /\ Pending(t) # {}
      /\ Wave(t) = {} /\ UNCHANGED <<breakers, phase, plan>>
      /\ degraded' = [degraded EXCEPT ![t] = TRUE]
  BY DEF Deadlock
<1>2. \A n \in Pending(t) : n \in Nodes(t) /\ n \in NodeIds /\ node[t][n].at = "pending"
  <2>1. \A n \in Nodes(t) : n \in NodeIds /\ node[t][n].at \in
            {"pending", "queued", "calling", "finished", "published"}
    BY PlanTypes DEF IInv, TypeOK, Progress
  <2>2. QED
    BY <1>1, <2>1 DEF Wave, Pending, Completed, At
<1>3. /\ \A u \in Turns \ {t} : node'[u] = node[u]
      /\ \A n \in NodeIds :
            node'[t][n] = IF n \in Pending(t)
                          THEN [node[t][n] EXCEPT !.at = "published", !.end = "deadlock"]
                          ELSE node[t][n]
  BY DEF Deadlock, IInv, TypeOK
<1>4. ASSUME NEW r \in Progress
      PROVE  /\ [r EXCEPT !.at = "published", !.end = "deadlock"] \in Progress
             /\ [r EXCEPT !.at = "published", !.end = "deadlock"].at = "published"
             /\ [r EXCEPT !.at = "published", !.end = "deadlock"].end = "deadlock"
  BY DEF Progress, Ends
<1>5. ASSUME NEW n \in NodeIds
      PROVE  /\ node'[t][n] \in Progress
             /\ n \in Pending(t) => /\ node'[t][n].at = "published"
                                    /\ node'[t][n].end = "deadlock"
             /\ n \notin Pending(t) => node'[t][n] = node[t][n]
  <2> DEFINE r == node[t][n]
  <2>1. r \in Progress
    BY NodeTypes DEF IInv
  <2>2. CASE n \in Pending(t)
    <3>1. node'[t][n] = [r EXCEPT !.at = "published", !.end = "deadlock"]
      BY <1>3, <2>2
    <3> HIDE DEF r
    <3>2. QED
      BY <1>4, <2>1, <2>2, <3>1
  <2>3. CASE n \notin Pending(t)
    BY <1>3, <2>1, <2>3
  <2>4. QED
    BY <2>2, <2>3
<1>6. TypeOK'
  <2>1. node' \in [Turns -> [NodeIds -> Progress]]
    BY <1>5 DEF Deadlock, IInv, TypeOK
  <2>2. QED
    BY <1>1, <2>1 DEF IInv, TypeOK
<1>7. degraded'[t] /\ \A u \in Turns \ {t} : degraded'[u] = degraded[u]
  BY <1>1 DEF IInv, TypeOK
<1>8. TurnInv(t)'
  <2>1. Nodes(t)' = Nodes(t) /\ Nodes(t) \subseteq NodeIds /\ TurnInv(t)
    BY <1>1, PlanTypes DEF IInv, Nodes
  <2>2. Completed(t) \subseteq Completed(t)'
    BY <1>2, <1>5, <2>1 DEF Completed, At
  <2>3. ~Acyclic(DepsFn(plan[t]))
    BY <1>1, AcyclicIsReady
  <2>4. ASSUME NEW n \in Nodes(t) PROVE NodeInv(t, n)'
    <3>1. CASE n \in Pending(t)
      <4>1. /\ node'[t][n].at = "published" /\ node'[t][n].end = "deadlock"
            /\ DepsFn(plan'[t]) = DepsFn(plan[t])
        BY <1>1, <1>5, <2>1, <3>1
      <4>2. QED
        BY <1>1, <1>7, <2>3, <4>1 DEF NodeInv, Ran, Bad
    <3>2. CASE n \notin Pending(t)
      BY <1>1, <1>5, <1>7, <2>1, <2>2, <3>2, NodeStays DEF TurnInv
    <3>3. QED
      BY <3>1, <3>2
  <2>5. \E n \in Nodes(t) : Bad(node'[t][n].end)
    BY <1>1, <1>2, <1>5 DEF Bad
  <2>6. QED
    BY <1>1, <2>1, <2>4, <2>5 DEF TurnInv
<1>9. \A u \in Turns : TurnInv(u)'
  <2> SUFFICES ASSUME NEW u \in Turns \ {t} PROVE TurnInv(u)'
    BY <1>8
  <2>1. QED
    BY <1>1, <1>3, <1>7, OtherTurn DEF IInv
<1>10. ASSUME NEW u \in Turns, NEW n \in NodeIds PROVE Harmless(u, n)
  <2>1. CASE u = t /\ n \in Pending(t)
    <3>1. node[t][n].end = "none"
      BY <1>2, <2>1 DEF IInv, TurnInv, NodeInv
    <3>2. QED
      BY <1>1, <1>5, <2>1, <3>1 DEF Harmless
  <2>2. CASE u # t \/ n \notin Pending(t)
    BY <1>1, <1>3, <1>5, <2>2 DEF Harmless
  <2>3. QED
    BY <2>1, <2>2
<1>11. QED
  BY <1>1, <1>6, <1>9, <1>10, BreakersStay DEF IInv

(* Time passes: only ages change. *)
LEMMA TickStep ==
    ASSUME IInv, Tick
    PROVE  IInv'
<1>1. UNCHANGED <<phase, plan, degraded>>
  BY DEF Tick
<1>2. ASSUME NEW r \in Progress, r.age < Timeout
      PROVE  /\ [r EXCEPT !.age = r.age + 1] \in Progress
             /\ [r EXCEPT !.age = r.age + 1].at = r.at
             /\ [r EXCEPT !.age = r.age + 1].end = r.end
             /\ [r EXCEPT !.age = r.age + 1].seen = r.seen
  <2>1. r.age + 1 \in 0..Timeout
    BY <1>2, ExecutionAssumption DEF Progress
  <2>2. QED
    BY <2>1 DEF Progress
<1>3. ASSUME NEW t \in Turns, NEW n \in NodeIds
      PROVE  /\ node'[t][n] \in Progress
             /\ node'[t][n].at = node[t][n].at
             /\ node'[t][n].end = node[t][n].end
             /\ node'[t][n].seen = node[t][n].seen
  <2> DEFINE r == node[t][n]
  <2>1. r \in Progress
    BY NodeTypes DEF IInv
  <2>2. \/ node'[t][n] = r
        \/ r.age < Timeout /\ node'[t][n] = [r EXCEPT !.age = r.age + 1]
    BY DEF Tick
  <2> HIDE DEF r
  <2>3. CASE node'[t][n] = r
    BY <2>1, <2>3 DEF r
  <2>4. CASE r.age < Timeout /\ node'[t][n] = [r EXCEPT !.age = r.age + 1]
    <3>1. /\ node'[t][n] \in Progress /\ node'[t][n].at = r.at
          /\ node'[t][n].end = r.end /\ node'[t][n].seen = r.seen
      BY <1>2, <2>1, <2>4
    <3>2. QED
      BY <3>1 DEF r
  <2>5. QED
    BY <2>2, <2>3, <2>4
<1>4. ASSUME NEW x \in Tools
      PROVE  /\ breakers'[x] \in Breaker
             /\ breakers'[x].failures = breakers[x].failures
             /\ breakers'[x].open = breakers[x].open
  <2> DEFINE b == breakers[x]
  <2>1. b \in Breaker
    BY DEF IInv, TypeOK
  <2>2. \/ breakers'[x] = b
        \/ b.age < Recovery /\ breakers'[x] = [b EXCEPT !.age = b.age + 1]
    BY DEF Tick
  <2> HIDE DEF b
  <2>3. CASE b.age < Recovery /\ breakers'[x] = [b EXCEPT !.age = b.age + 1]
    <3>1. b.age + 1 \in 0..Recovery
      BY <2>1, <2>3, ExecutionAssumption DEF Breaker
    <3>2. /\ breakers'[x] \in Breaker /\ breakers'[x].failures = b.failures
          /\ breakers'[x].open = b.open
      BY <2>1, <2>3, <3>1 DEF Breaker
    <3>3. QED
      BY <3>2 DEF b
  <2>4. CASE breakers'[x] = b
    BY <2>1, <2>4 DEF b
  <2>5. QED
    BY <2>2, <2>3, <2>4
<1>5. TypeOK'
  <2>1. node' \in [Turns -> [NodeIds -> Progress]]
    BY <1>3 DEF Tick
  <2>2. breakers' \in [Tools -> Breaker]
    BY <1>4 DEF Tick
  <2>3. QED
    BY <1>1, <2>1, <2>2 DEF IInv, TypeOK
<1>6. ASSUME NEW t \in Turns PROVE TurnInv(t)'
  <2>1. Nodes(t)' = Nodes(t) /\ Nodes(t) \subseteq NodeIds /\ TurnInv(t)
    BY <1>1, PlanTypes DEF IInv, Nodes
  <2>2. Completed(t) \subseteq Completed(t)'
    BY <1>3, <2>1 DEF Completed, At
  <2>3. \A n \in Nodes(t) : NodeInv(t, n)'
    BY <1>1, <1>3, <2>1, <2>2, NodeStays DEF TurnInv
  <2>4. degraded'[t] => \E n \in Nodes(t) : Bad(node'[t][n].end)
    BY <1>1, <1>3, <2>1 DEF TurnInv
  <2>5. phase'[t] # "idle"
        \/ (plan'[t] = <<>> /\ \A n \in NodeIds : node'[t][n] = NotStarted)
    <3>1. SUFFICES ASSUME phase[t] = "idle"
                   PROVE  \A n \in NodeIds : node'[t][n] = NotStarted
      BY <1>1, <2>1 DEF TurnInv
    <3>2. \A n \in NodeIds : n \notin At(t, "calling")
      BY <2>1, <3>1 DEF TurnInv, At, NotStarted
    <3>3. QED
      BY <2>1, <3>1, <3>2 DEF TurnInv, Tick
  <2>6. QED
    BY <1>1, <1>3, <2>1, <2>3, <2>4, <2>5 DEF TurnInv
<1>7. \A x : Failed(x)' = Failed(x) /\ (Refused(x)' => Refused(x))
  BY <1>1, <1>3, <1>5, SameFailures, RefusedBefore DEF Harmless
<1>8. BreakerInv'
  BY <1>4, <1>7
     DEF IInv, BreakerInv, BreakerMatchesFailures, OpenCircuitIsEarned
<1>9. QED
  BY <1>5, <1>6, <1>8 DEF IInv

-----------------------------------------------------------------------------
(* IInv is inductive. *)
LEMMA StepInv == IInv /\ [Next]_vars => IInv'
<1> SUFFICES ASSUME IInv, [Next]_vars PROVE IInv'
  OBVIOUS
<1>1. CASE Tick
  BY <1>1, TickStep
<1>2. ASSUME NEW t \in Turns, Turn(t) PROVE IInv'
  <2>1. CASE Begin(t)
    BY <2>1, BeginStep
  <2>2. CASE StartWave(t)
    BY <2>2, StartWaveStep
  <2>3. CASE Deadlock(t)
    BY <2>3, DeadlockStep
  <2>4. CASE EndWave(t)
    BY <2>4, EndWaveStep
  <2>5. CASE Finish(t)
    BY <2>5, FinishStep
  <2>6. ASSUME NEW n \in NodeIds, RunNode(t, n) PROVE IInv'
    <3>1. CASE RunOperator(t, n)
      BY <3>1, RunOperatorStep
    <3>2. CASE RejectCall(t, n)
      BY <3>2, RejectCallStep
    <3>3. CASE CallTool(t, n)
      BY <3>3, CallToolStep
    <3>4. CASE ToolSucceeds(t, n)
      BY <3>4, ToolSucceedsStep
    <3>5. CASE ToolFails(t, n)
      BY <3>5, ToolFailsStep
    <3>6. QED
      BY <2>6, <3>1, <3>2, <3>3, <3>4, <3>5 DEF RunNode
  <2>7. QED
    BY <1>2, <2>1, <2>2, <2>3, <2>4, <2>5, <2>6 DEF Turn
<1>3. CASE UNCHANGED vars
  <2>1. UNCHANGED <<breakers, phase, plan, node, degraded>>
    BY <1>3 DEF vars
  <2>2. TypeOK'
    BY <2>1 DEF IInv, TypeOK
  <2>3. \A t \in Turns : TurnInv(t)'
    BY <2>1, OtherTurn DEF IInv
  <2>4. \A t \in Turns : \A n \in NodeIds : Harmless(t, n)
    BY <2>1 DEF Harmless
  <2>5. QED
    BY <2>1, <2>2, <2>3, <2>4, BreakersStay DEF IInv
<1>4. QED
  BY <1>1, <1>2, <1>3 DEF Next

(* The variables keep their types. *)
THEOREM TypeCorrect == Spec => []TypeOK
<1>1. IInv => TypeOK
  BY DEF IInv
<1>2. QED
  BY InitInv, StepInv, <1>1, PTL DEF Spec

(* Every node runs on the results of all its dependencies, however the     *)
(* turns interleave.                                                       *)
THEOREM DependenciesAreSeen == Spec => []DependenciesSeen
<1>1. IInv => DependenciesSeen
  BY DEF IInv, TurnInv, NodeInv, DependenciesSeen
<1>2. QED
  BY InitInv, StepInv, <1>1, PTL DEF Spec

(* A finished turn has a result for every node, and an acyclic plan never  *)
(* hits the executor's deadlock branch.                                    *)
THEOREM PlansComplete == Spec => []AcyclicPlansComplete
<1>1. IInv => AcyclicPlansComplete
  <2> SUFFICES ASSUME IInv, NEW t \in Turns, NEW n \in Nodes(t)
               PROVE  /\ phase[t] = "done" => node[t][n].end \in Ends
                      /\ Acyclic(DepsFn(plan[t])) => node[t][n].end # "deadlock"
    BY DEF AcyclicPlansComplete
  <2>1. NodeInv(t, n) /\ TurnInv(t) /\ node[t][n] \in Progress
    BY PlanTypes, NodeTypes DEF IInv, TurnInv
  <2>2. QED
    BY <2>1 DEF NodeInv, TurnInv, Progress
<1>2. QED
  BY InitInv, StepInv, <1>1, PTL DEF Spec

(* A turn is degraded exactly when one of its nodes failed. *)
THEOREM DegradedIsExact == Spec => []DegradedMatchesFailures
<1>1. IInv => DegradedMatchesFailures
  BY DEF IInv, TurnInv, NodeInv, DegradedMatchesFailures, Bad
<1>2. QED
  BY InitInv, StepInv, <1>1, PTL DEF Spec

(* A breaker is open exactly when its tool failed Threshold times in a row. *)
THEOREM BreakersMatch == Spec => []BreakerMatchesFailures
<1>1. IInv => BreakerMatchesFailures
  BY DEF IInv, BreakerInv
<1>2. QED
  BY InitInv, StepInv, <1>1, PTL DEF Spec

(* No call is refused before Threshold calls of the same tool failed. *)
THEOREM OpenCircuitsAreEarned == Spec => []OpenCircuitIsEarned
<1>1. IInv => OpenCircuitIsEarned
  BY DEF IInv, BreakerInv
<1>2. QED
  BY InitInv, StepInv, <1>1, PTL DEF Spec
=============================================================================
