---------------------------- MODULE PlanExecution ----------------------------
(***************************************************************************)
(* LangGraphExecutor.execute and NodeRunner.run_node                       *)
(* (application/execution): chat turns run their plans in waves of ready   *)
(* nodes, concurrently on one event loop, and share one circuit breaker    *)
(* per tool name.  A step is what runs between two awaits.                 *)
(*                                                                         *)
(* Time is relative: a breaker remembers how long ago it opened and a call *)
(* how long it has run, each capped where the code stops telling values    *)
(* apart (recovery_timeout_sec, tool_timeout_ms).                          *)
(***************************************************************************)
EXTENDS PlanGraph

CONSTANTS Turns,       \* chat turns in flight
          NodeIds, Tools,
          Plans,       \* plans handed to the executor: node id -> PlanNode
          Threshold,   \* CircuitBreaker.failure_threshold (3)
          Recovery,    \* CircuitBreaker.recovery_timeout_sec (30 s)
          Timeout      \* NodeRunner timeout (15 s)

(* `binds` are the nodes that input_bindings name. *)
PlanNode == [kind: {"tool", "operator"}, name: STRING,
             deps: SUBSET NodeIds, binds: SUBSET NodeIds]

ASSUME ExecutionAssumption ==
    /\ IsFiniteSet(Turns) /\ IsFiniteSet(NodeIds)
    /\ Threshold \in Nat \ {0}
    /\ Recovery \in Nat
    /\ Timeout \in Nat
    /\ \A p \in Plans :
          /\ DOMAIN p \subseteq NodeIds
          /\ \A n \in DOMAIN p : p[n] \in PlanNode /\ p[n].deps \subseteq DOMAIN p
          /\ \A n \in DOMAIN p : p[n].kind = "tool" => p[n].name \in Tools

VARIABLES breakers,   \* NodeRunner._breakers
          phase,      \* "idle", "running" or "done"
          plan,       \* the plan being executed
          node,       \* progress of each node of the turn
          degraded    \* GraphState.degraded

vars == <<breakers, phase, plan, node, degraded>>

-----------------------------------------------------------------------------
(* CircuitBreaker.  `open` is opened_at # None, `age` the time since. *)
Breaker == [failures: Nat, open: BOOLEAN, age: 0..Recovery]

Fresh == [failures |-> 0, open |-> FALSE, age |-> 0]

Allow(b) == ~b.open \/ b.age >= Recovery

RecordSuccess(b) == [b EXCEPT !.failures = 0, !.open = FALSE, !.age = 0]

(* Mutant of RecordFailure: opens one failure early. *)
RecordFailureEarly(b) ==
    IF b.failures + 2 >= Threshold
    THEN [failures |-> b.failures + 1, open |-> TRUE, age |-> 0]
    ELSE [b EXCEPT !.failures = @ + 1]

RecordFailure(b) ==
    IF b.failures + 1 >= Threshold
    THEN [failures |-> b.failures + 1, open |-> TRUE, age |-> 0]
    ELSE [b EXCEPT !.failures = @ + 1]

-----------------------------------------------------------------------------
(* How a node ended.  "caught" is a ToolResult with error text and         *)
(* degraded set that the tool itself returned (resume_search); "raised"    *)
(* and "timeout" end in run_node's except clause.                          *)
Ends == {"ok", "caught", "raised", "timeout", "circuit_open", "deadlock"}

Progress == [at: {"pending", "queued", "calling", "finished", "published"},
             age: 0..Timeout, end: Ends \cup {"none"}, seen: SUBSET NodeIds]

NotStarted == [at |-> "pending", age |-> 0, end |-> "none", seen |-> {}]

Nodes(t) == DOMAIN plan[t]
At(t, s) == {n \in Nodes(t) : node[t][n].at = s}
Completed(t) == At(t, "published")
Pending(t) == Nodes(t) \ Completed(t)
Wave(t) == At(t, "queued") \cup At(t, "calling") \cup At(t, "finished")
DepsFn(p) == [n \in DOMAIN p |-> p[n].deps]
(* Mutant of Ready: dependencies are not awaited. *)
ReadyAtOnce(t) == Pending(t)
Ready(t) == ReadyNodes(DepsFn(plan[t]), Pending(t), Completed(t))

Init ==
    /\ breakers = [x \in Tools |-> Fresh]
    /\ phase = [t \in Turns |-> "idle"]
    /\ plan = [t \in Turns |-> <<>>]
    /\ node = [t \in Turns |-> [n \in NodeIds |-> NotStarted]]
    /\ degraded = [t \in Turns |-> FALSE]

(* ChatService awaits execute with the plan of the turn. *)
Begin(t) ==
    /\ phase[t] = "idle"
    /\ \E p \in Plans : plan' = [plan EXCEPT ![t] = p]
    /\ phase' = [phase EXCEPT ![t] = "running"]
    /\ UNCHANGED <<breakers, node, degraded>>

(* The nodes of S move to stage s. *)
MoveAll(t, S, s) ==
    [node EXCEPT ![t] = [n \in NodeIds |-> IF n \in S THEN [@[n] EXCEPT !.at = s]
                                           ELSE @[n]]]

(* asyncio.gather over the ready nodes. *)
StartWave(t) ==
    /\ phase[t] = "running"
    /\ Wave(t) = {}
    /\ Ready(t) # {}
    /\ node' = MoveAll(t, Ready(t), "queued")
    /\ UNCHANGED <<breakers, phase, plan, degraded>>

(* No node ready: every pending node gets the "deadlock" result. *)
Deadlock(t) ==
    /\ phase[t] = "running"
    /\ Wave(t) = {}
    /\ Ready(t) = {}
    /\ Pending(t) # {}
    /\ node' = [node EXCEPT ![t] =
                   [n \in NodeIds |->
                       IF n \in Pending(t)
                       THEN [@[n] EXCEPT !.at = "published", !.end = "deadlock"]
                       ELSE @[n]]]
    /\ degraded' = [degraded EXCEPT ![t] = TRUE]
    /\ UNCHANGED <<breakers, phase, plan>>

(* The ids whose result _resolve_path finds in state.node_results. *)
Resolved(t, n) == (plan[t][n].binds \cup plan[t][n].deps) \cap Completed(t)

Finished(t, n, end) ==
    node' = [node EXCEPT ![t][n] =
                [at |-> "finished", age |-> 0, end |-> end,
                 seen |-> IF @.at = "queued" THEN Resolved(t, n) ELSE @.seen]]

Degrade(t) == degraded' = [degraded EXCEPT ![t] = TRUE]

(* An operator runs in place; an exception becomes a degraded result. *)
RunOperator(t, n) ==
    /\ n \in At(t, "queued")
    /\ plan[t][n].kind = "operator"
    /\ \/ Finished(t, n, "ok") /\ UNCHANGED degraded
       \/ Finished(t, n, "raised") /\ Degrade(t)
    /\ UNCHANGED <<breakers, phase, plan>>

(* Mutant of RejectCall: the turn is not marked degraded. *)
RejectCallQuiet(t, n) ==
    /\ n \in At(t, "queued")
    /\ plan[t][n].kind = "tool"
    /\ ~Allow(breakers[plan[t][n].name])
    /\ Finished(t, n, "circuit_open")
    /\ UNCHANGED <<breakers, phase, plan, degraded>>

(* The breaker refuses the call: circuit_open. *)
RejectCall(t, n) ==
    /\ n \in At(t, "queued")
    /\ plan[t][n].kind = "tool"
    /\ ~Allow(breakers[plan[t][n].name])
    /\ Finished(t, n, "circuit_open")
    /\ Degrade(t)
    /\ UNCHANGED <<breakers, phase, plan>>

(* The breaker admits the call, and run_node awaits tool.run. *)
CallTool(t, n) ==
    /\ n \in At(t, "queued")
    /\ plan[t][n].kind = "tool"
    /\ Allow(breakers[plan[t][n].name])
    /\ node' = [node EXCEPT ![t][n] =
                   [@ EXCEPT !.at = "calling", !.seen = Resolved(t, n)]]
    /\ UNCHANGED <<breakers, phase, plan, degraded>>

(* tool.run returns a result without error. *)
ToolSucceeds(t, n) ==
    /\ n \in At(t, "calling")
    /\ Finished(t, n, "ok")
    /\ breakers' = [breakers EXCEPT ![plan[t][n].name] = RecordSuccess(@)]
    /\ UNCHANGED <<phase, plan, degraded>>

(* Mutant of ToolFails: no wait_for around the call. *)
ToolFailsUntimed(t, n) ==
    /\ n \in At(t, "calling")
    /\ Finished(t, n, "caught") \/ Finished(t, n, "raised")
    /\ breakers' = [breakers EXCEPT ![plan[t][n].name] = RecordFailure(@)]
    /\ Degrade(t)
    /\ UNCHANGED <<phase, plan>>

(* tool.run returns an error, raises, or outlives wait_for's timeout. *)
ToolFails(t, n) ==
    /\ n \in At(t, "calling")
    /\ \/ Finished(t, n, "caught")
       \/ Finished(t, n, "raised")
       \/ node[t][n].age = Timeout /\ Finished(t, n, "timeout")
    /\ breakers' = [breakers EXCEPT ![plan[t][n].name] = RecordFailure(@)]
    /\ Degrade(t)
    /\ UNCHANGED <<phase, plan>>

(* gather returns: the whole wave enters node_results at once. *)
EndWave(t) ==
    /\ phase[t] = "running"
    /\ Wave(t) # {}
    /\ Wave(t) = At(t, "finished")
    /\ node' = MoveAll(t, Wave(t), "published")
    /\ UNCHANGED <<breakers, phase, plan, degraded>>

(* Mutant of Finish: returns after the first wave. *)
FinishEarly(t) ==
    /\ phase[t] = "running"
    /\ Wave(t) = {} /\ Completed(t) # {}
    /\ phase' = [phase EXCEPT ![t] = "done"]
    /\ UNCHANGED <<breakers, plan, node, degraded>>

(* execute returns the GraphState. *)
Finish(t) ==
    /\ phase[t] = "running"
    /\ Pending(t) = {}
    /\ phase' = [phase EXCEPT ![t] = "done"]
    /\ UNCHANGED <<breakers, plan, node, degraded>>

(* Time passes for the calls in flight and the open breakers. *)
Aging ==
    \/ \E x \in Tools : breakers[x].open /\ breakers[x].age < Recovery
    \/ \E t \in Turns : \E n \in At(t, "calling") : node[t][n].age < Timeout

Tick ==
    /\ Aging
    /\ breakers' = [x \in Tools |->
          IF breakers[x].open /\ breakers[x].age < Recovery
          THEN [breakers[x] EXCEPT !.age = @ + 1] ELSE breakers[x]]
    /\ node' = [t \in Turns |-> [n \in NodeIds |->
          IF n \in At(t, "calling") /\ node[t][n].age < Timeout
          THEN [node[t][n] EXCEPT !.age = @ + 1] ELSE node[t][n]]]
    /\ UNCHANGED <<phase, plan, degraded>>

RunNode(t, n) ==
    \/ RunOperator(t, n) \/ RejectCall(t, n) \/ CallTool(t, n)
    \/ ToolSucceeds(t, n) \/ ToolFails(t, n)

Turn(t) ==
    \/ Begin(t) \/ StartWave(t) \/ Deadlock(t) \/ EndWave(t) \/ Finish(t)
    \/ \E n \in NodeIds : RunNode(t, n)

Next == Tick \/ \E t \in Turns : Turn(t)

Spec == Init /\ [][Next]_vars

(* The event loop runs every ready callback and time passes, so wait_for   *)
(* fires; nothing says that a tool ever answers.                           *)
TimesOut(t, n) == ToolFails(t, n) /\ node'[t][n].end = "timeout"

Fairness ==
    /\ WF_vars(Tick)
    /\ \A t \in Turns :
          /\ WF_vars(StartWave(t) \/ Deadlock(t) \/ EndWave(t) \/ Finish(t))
          /\ \A n \in NodeIds :
                /\ WF_vars(RunOperator(t, n) \/ RejectCall(t, n) \/ CallTool(t, n))
                /\ WF_vars(TimesOut(t, n))

FairSpec == Spec /\ Fairness

-----------------------------------------------------------------------------

(* Every variable has its type. *)
TypeOK ==
    /\ breakers \in [Tools -> Breaker]
    /\ phase \in [Turns -> {"idle", "running", "done"}]
    /\ plan \in [Turns -> Plans \cup {<<>>}]
    /\ node \in [Turns -> [NodeIds -> Progress]]
    /\ degraded \in [Turns -> BOOLEAN]

(* run_node has resolved the bindings of node n. *)
Ran(t, n) ==
    \/ node[t][n].at \in {"calling", "finished"}
    \/ node[t][n].at = "published" /\ node[t][n].end # "deadlock"

(* A node runs only on the published results of all its dependencies:      *)
(* no concurrent turn, sibling or failure makes it read a hole.            *)
DependenciesSeen ==
    \A t \in Turns : \A n \in Nodes(t) :
        Ran(t, n) => plan[t][n].deps \subseteq node[t][n].seen

(* An acyclic plan never deadlocks, and a finished turn has a result for   *)
(* every node, failed siblings or not.                                     *)
AcyclicPlansComplete ==
    \A t \in Turns :
        /\ phase[t] = "done" => \A n \in Nodes(t) : node[t][n].end \in Ends
        /\ Acyclic(DepsFn(plan[t])) =>
               \A n \in Nodes(t) : node[t][n].end # "deadlock"

(* A turn is marked degraded exactly when one of its nodes failed.         *)
DegradedMatchesFailures ==
    \A t \in Turns :
        degraded[t] <=> \E n \in Nodes(t) : node[t][n].end \notin {"ok", "none"}

(* A breaker is open exactly when its tool has failed Threshold times in a *)
(* row, as seen by the calls that finished.                                *)
BreakerMatchesFailures ==
    \A x \in Tools : breakers[x].open <=> breakers[x].failures >= Threshold

(* The calls of tool x that failed. *)
Failed(x) ==
    {c \in Turns \X NodeIds :
        /\ c[2] \in Nodes(c[1])
        /\ plan[c[1]][c[2]].kind = "tool" /\ plan[c[1]][c[2]].name = x
        /\ node[c[1]][c[2]].end \in {"caught", "raised", "timeout"}}

(* The breaker of tool x has refused a call. *)
Refused(x) ==
    \E t \in Turns : \E n \in Nodes(t) :
        plan[t][n].name = x /\ node[t][n].end = "circuit_open"

(* Breakers do not leak: a call is refused only after Threshold calls of   *)
(* that same tool have failed, in whatever turns.                          *)
OpenCircuitIsEarned ==
    \A x \in Tools : Refused(x) => Cardinality(Failed(x)) >= Threshold

(* Every turn ends, whatever its tools do: a hung tool is timed out. *)
EveryTurnEnds == \A t \in Turns : phase[t] = "running" ~> phase[t] = "done"

=============================================================================
