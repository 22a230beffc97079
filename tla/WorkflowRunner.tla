--------------------------- MODULE WorkflowRunner ---------------------------
(***************************************************************************)
(* WorkflowRunner.run: one asyncio task that executes the nodes of a       *)
(* workflow one after the other in the order _topological_order returned.  *)
(* The only suspension point is "await node.execute(context)": an action   *)
(* ends there, and only there can the task be cancelled.  What a node does *)
(* is its outcome: a result with success=True, one with success=False, or  *)
(* an exception.  GraphState, written once and read by no code, is left    *)
(* out, and so are log lines.                                              *)
(***************************************************************************)
EXTENDS TopologicalOrder

VARIABLES
    cursor,     \* position in order of the node the loop is at
    step,       \* "idle" (before the loop), "pick", "await", "returned"
    phase,      \* context.runtime_state.node_states, "ABSENT" when there is none
    runPhase,   \* context.runtime_state.phase
    results,    \* results_by_id: "none", "ok" or "bad" per node
    writes,     \* how many times a node wrote context.raw_node_outputs
    inputs,     \* the legacy input each node was last started with
    trace,      \* context.trace_events: event type and the node it is about
    outcome,    \* how run() ended: "none", "success", "failed" (it returned),
                \* "raised" (ValueError), "cancelled" (CancelledError)
    failedNode  \* failed_node_id of the returned dict, {} or a singleton

runVars == <<cursor, step, phase, runPhase, results, writes, inputs, trace,
             outcome, failedNode>>
vars == <<sortVars, runVars>>

NodePhases == {"ABSENT", "RUNNING", "SUCCESS", "FAILED"}
RunPhases == {"PENDING", "RUNNING", "SUCCESS", "FAILED"}
Outcomes == {"none", "success", "failed", "raised", "cancelled"}

LastFirst == order[Len(order) + 1 - cursor]       \* mutant: read from the end
Current == order[cursor]

-----------------------------------------------------------------------------
\* The legacy input of n, as the bridge builds it from the edge list: what the
\* run was started with, the output of the one parent, or a dict of outputs by
\* parent.  The edge list, not the set of parents, decides between the last
\* two.  An output is identified by how often its node has written one.
InputBeforeLoop(n) ==                 \* mutant: built once, before the loop
    [kind |-> "single", from |-> {<<p, 0>> : p \in Parents(n)}]
LegacyInput(n) ==
    [kind |-> IF InDegree(n) = 0 THEN "initial"
              ELSE IF InDegree(n) = 1 THEN "single" ELSE "merged",
     from |-> {<<p, writes[p]>> : p \in Parents(n)}]

NoInput == [kind |-> "none", from |-> {}]

-----------------------------------------------------------------------------

RunnerInit ==
    /\ cursor = 1
    /\ step = "idle"
    /\ phase = [n \in Node |-> "ABSENT"]
    /\ runPhase = "PENDING"
    /\ results = [n \in Node |-> "none"]
    /\ writes = [n \in Node |-> 0]
    /\ inputs = [n \in Node |-> NoInput]
    /\ trace = <<>>
    /\ outcome = "none"
    /\ failedNode = {}

Init == SortInit /\ RunnerInit

\* _topological_order raised: nothing of the run has started.
RaiseRejected ==
    /\ sorter = "rejected"
    /\ step = "idle"
    /\ step' = "returned"
    /\ outcome' = "raised"
    /\ UNCHANGED <<sortVars, cursor, phase, runPhase, results, writes, inputs,
                   trace, failedNode>>

StartRun ==
    /\ sorter = "ordered"
    /\ step = "idle"
    /\ step' = "pick"
    /\ runPhase' = "RUNNING"
    /\ trace' = Append(trace, <<"workflow_started", {}>>)
    /\ UNCHANGED <<sortVars, cursor, phase, results, writes, inputs, outcome,
                   failedNode>>

FailNodeOnly(n) ==                    \* mutant: the run is not marked failed
    /\ phase' = [phase EXCEPT ![n] = "FAILED"]
    /\ step' = "returned"
    /\ outcome' = "failed"
    /\ failedNode' = {n}
    /\ UNCHANGED runPhase

\* run() returns a failure that names n.
ReturnFailed(n) ==
    /\ phase' = [phase EXCEPT ![n] = "FAILED"]
    /\ runPhase' = "FAILED"
    /\ step' = "returned"
    /\ outcome' = "failed"
    /\ failedNode' = {n}

\* The registry has no class for the type of the current node.  No event is
\* emitted: the node has not been started.
RejectNodeType ==
    /\ step = "pick"
    /\ cursor <= Len(order)
    /\ ReturnFailed(Current)
    /\ UNCHANGED <<sortVars, cursor, results, writes, inputs, trace>>

StartNode ==
    /\ step = "pick"
    /\ cursor <= Len(order)
    /\ phase' = [phase EXCEPT ![Current] = "RUNNING"]
    /\ inputs' = [inputs EXCEPT ![Current] = LegacyInput(Current)]
    /\ trace' = Append(trace, <<"node_started", {Current}>>)
    /\ step' = "await"
    /\ UNCHANGED <<sortVars, cursor, runPhase, results, writes, outcome,
                   failedNode>>

\* execute() returned a result: it is written to the context, whether it is a
\* success or not, before the runner looks at it.
NodeSucceeds ==
    /\ step = "await"
    /\ writes' = [writes EXCEPT ![Current] = @ + 1]
    /\ results' = [results EXCEPT ![Current] = "ok"]
    /\ phase' = [phase EXCEPT ![Current] = "SUCCESS"]
    /\ trace' = trace \o << <<"node_output_written", {Current}>>,
                            <<"node_finished", {Current}>> >>
    /\ cursor' = cursor + 1
    /\ step' = "pick"
    /\ UNCHANGED <<sortVars, runPhase, inputs, outcome, failedNode>>

NodeReportsFailure ==
    /\ step = "await"
    /\ writes' = [writes EXCEPT ![Current] = @ + 1]
    /\ results' = [results EXCEPT ![Current] = "bad"]
    /\ trace' = trace \o << <<"node_output_written", {Current}>>,
                            <<"node_failed", {Current}>> >>
    /\ ReturnFailed(Current)
    /\ UNCHANGED <<sortVars, cursor, inputs>>

RaiseSilently ==                      \* mutant: no node_failed event
    /\ step = "await"
    /\ ReturnFailed(Current)
    /\ UNCHANGED <<sortVars, cursor, results, writes, inputs, trace>>

NodeRaises ==
    /\ step = "await"
    /\ trace' = Append(trace, <<"node_failed", {Current}>>)
    /\ ReturnFailed(Current)
    /\ UNCHANGED <<sortVars, cursor, results, writes, inputs>>

\* CancelledError is not an Exception: it leaves run() through the await and
\* marks nothing.
Cancel ==
    /\ step = "await"
    /\ step' = "returned"
    /\ outcome' = "cancelled"
    /\ UNCHANGED <<sortVars, cursor, phase, runPhase, results, writes, inputs,
                   trace, failedNode>>

OnePastTheEnd == cursor > Len(order) + 1          \* mutant: off by one
LoopIsOver == cursor > Len(order)

FinishRun ==
    /\ step = "pick"
    /\ LoopIsOver
    /\ runPhase' = "SUCCESS"
    /\ trace' = Append(trace, <<"workflow_finished", {}>>)
    /\ step' = "returned"
    /\ outcome' = "success"
    /\ UNCHANGED <<sortVars, cursor, phase, results, writes, inputs, failedNode>>

Sort == SortNext /\ UNCHANGED runVars

NodeReturns == NodeSucceeds \/ NodeReportsFailure \/ NodeRaises

Advance ==
    \/ Sort
    \/ RaiseRejected
    \/ StartRun
    \/ RejectNodeType
    \/ StartNode
    \/ FinishRun

Next == Advance \/ NodeReturns \/ Cancel

\* The event loop runs the task whenever it is not suspended, and an awaited
\* node is assumed to return: run() puts no timeout around it.
Fairness == WF_vars(Advance) /\ WF_vars(NodeReturns)

Spec == Init /\ [][Next]_vars
FairSpec == Spec /\ Fairness

-----------------------------------------------------------------------------

TypeOK ==
    /\ SortTypeOK
    /\ cursor \in Nat \ {0}
    /\ step \in {"idle", "pick", "await", "returned"}
    /\ phase \in [Node -> NodePhases]
    /\ runPhase \in RunPhases
    /\ results \in [Node -> {"none", "ok", "bad"}]
    /\ writes \in [Node -> Nat]
    /\ inputs \in [Node -> [kind : {"none", "initial", "single", "merged"},
                            from : SUBSET (Node \X Nat)]]
    /\ trace \in Seq({"workflow_started", "node_started", "node_output_written",
                      "node_finished", "node_failed", "workflow_finished"}
                     \X SUBSET Node)
    /\ outcome \in Outcomes
    /\ failedNode \in SUBSET Node

Started(n) == phase[n] # "ABSENT"

\* A node is started, or fails to be created, only when every parent has
\* succeeded, and what it reads are the parents' outputs in their final form:
\* "拓扑序" in the class comment, however the edges are listed.
ParentsFirst ==
    \A n \in Node : Started(n) =>
        \A p \in Parents(n) : phase[p] = "SUCCESS"

InputsAreFinal ==
    \A n \in Node : inputs[n] # NoInput =>
        inputs[n].from = {<<p, 1>> : p \in Parents(n)} /\
        \A p \in Parents(n) : writes[p] = 1

\* What run() returns agrees with the state pool it leaves behind: success
\* means every node ran and succeeded, a failure names the one failed node,
\* every node that ran before it has its result, and no other was touched.
VerdictMatchesNodes ==
    /\ outcome = "success" =>
         /\ runPhase = "SUCCESS"
         /\ \A n \in Ids : /\ phase[n] = "SUCCESS"
                           /\ results[n] = "ok"
                           /\ writes[n] = 1
    /\ outcome = "failed" =>
         /\ runPhase = "FAILED"
         /\ {n \in Node : phase[n] = "FAILED"} = failedNode
         /\ \A n \in Node \ failedNode : phase[n] \in {"ABSENT", "SUCCESS"}
    /\ outcome = "raised" => runPhase = "PENDING" /\ ~ \E n \in Node : Started(n)
    /\ \A n \in Node : results[n] = "ok" <=> phase[n] = "SUCCESS"

\* The node that event i started has ended: event i + 1 or i + 2 says so, and
\* what lies between is about the same node.
EndIsRecorded(i) ==
    \E j \in {i + 1, i + 2} \cap DOMAIN trace :
        /\ trace[j][1] \in {"node_finished", "node_failed"}
        /\ \A k \in i .. j : trace[k][2] = trace[i][2]

\* In the event list of a run that returned, every node_started of a node is
\* closed by exactly one node_finished or node_failed before the next event
\* opens another node.
TraceIsBracketed ==
    \A i \in DOMAIN trace : trace[i][1] = "node_started" =>
        \/ i = Len(trace) /\ outcome \in {"none", "cancelled"}
        \/ EndIsRecorded(i)

\* A node that has ended is never started again and never changes its verdict.
EndedNodesStayEnded ==
    [][\A n \in Node : phase[n] \in {"SUCCESS", "FAILED"} => phase'[n] = phase[n]]_vars

\* run() comes back: no graph makes it loop or wait for ever.
RunReturns == <>(step = "returned")

-----------------------------------------------------------------------------
\* The inductive invariant of the loop, given an order without repetition.

\* Where the loop is decides the phase of every node of the order.
LoopInv ==
    /\ cursor \in 1 .. Len(order) + 1
    /\ step = "idle" \/ outcome = "raised" => \A n \in Node : ~Started(n)
    /\ step = "idle" => cursor = 1
    /\ step \in {"pick", "await"} => sorter = "ordered"
    /\ \A i \in 1 .. cursor - 1 : phase[order[i]] = "SUCCESS"
    /\ \A n \in Node : Started(n) =>
         /\ sorter = "ordered"
         /\ \E i \in 1 .. cursor : i <= Len(order) /\ order[i] = n
    /\ step = "pick" /\ cursor <= Len(order) => phase[Current] = "ABSENT"
    /\ step = "await" \/ outcome = "cancelled" =>
         cursor <= Len(order) /\ phase[Current] = "RUNNING"
    /\ outcome = "failed" => cursor <= Len(order) /\ phase[Current] = "FAILED"

\* What the run has recorded about a node agrees with the node's phase.
BooksInv ==
    \A n \in Node :
        /\ results[n] = "ok" <=> phase[n] = "SUCCESS"
        /\ phase[n] \in {"ABSENT", "RUNNING"} => writes[n] = 0
        /\ phase[n] = "SUCCESS" => writes[n] = 1
        /\ inputs[n] # NoInput =>
             Started(n) /\ inputs[n].from = {<<p, 1>> : p \in Parents(n)}

\* How the run ended, and what it says of itself.
EndInv ==
    /\ step = "returned" <=> outcome # "none"
    /\ step = "idle" \/ outcome = "raised" => runPhase = "PENDING"
    /\ step \in {"pick", "await"} \/ outcome = "cancelled" => runPhase = "RUNNING"
    /\ outcome = "success" => runPhase = "SUCCESS" /\ cursor = Len(order) + 1
    /\ outcome = "failed" => runPhase = "FAILED" /\ failedNode = {Current}
    /\ outcome \in {"success", "failed", "cancelled"} => sorter = "ordered"
    /\ outcome = "raised" => sorter = "rejected"

RunInv == LoopInv /\ BooksInv /\ EndInv

-----------------------------------------------------------------------------
\* The runner implements the abstract execution of a DAG.

DagStateOf(p) == CASE p = "ABSENT" -> "waiting"
                   [] p = "RUNNING" -> "running"
                   [] p = "SUCCESS" -> "done"
                   [] p = "FAILED" -> "failed"

DagState == [n \in Node |-> DagStateOf(phase[n])]

DagVerdict == CASE outcome = "none" -> "open"
                [] outcome = "success" -> "success"
                [] outcome = "failed" -> "failed"
                [] outcome = "raised" -> "refused"
                [] outcome = "cancelled" -> "aborted"

Dag == INSTANCE DagExecution WITH
           nodes <- Ids, deps <- ToSet(edges),
           state <- DagState, verdict <- DagVerdict

\* Every behaviour of the runner is, through this mapping, one of DagExecution.
ImplementsDag == Dag!Spec

=============================================================================
