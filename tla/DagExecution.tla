---------------------------- MODULE DagExecution ----------------------------
(***************************************************************************)
(* What WorkflowRunner promises, without saying how: every node of a       *)
(* workflow without cycles runs once, after all its parents, one node at a *)
(* time; the first failure stops the run; a graph that cannot be ordered   *)
(* runs nothing.                                                           *)
(***************************************************************************)
CONSTANT Node

VARIABLES
    nodes,      \* the nodes of the workflow
    deps,       \* its dependencies, pairs <<parent, child>>
    state,      \* per node: "waiting", "running", "done", "failed"
    verdict     \* "open", "success", "failed", "refused", "aborted"

dagVars == <<nodes, deps, state, verdict>>

ParentsOf(n) == {p \in Node : <<p, n>> \in deps}

\* The workflow has nodes, its dependencies are among them, and no non-empty
\* set of nodes waits for itself.
Executable ==
    /\ nodes # {}
    /\ deps \subseteq nodes \X nodes
    /\ \A S \in SUBSET nodes : S # {} => \E n \in S : ParentsOf(n) \cap S = {}

Init ==
    /\ nodes \in SUBSET Node
    /\ deps \in SUBSET (Node \X Node)
    /\ state = [n \in Node |-> "waiting"]
    /\ verdict = "open"

Idle == \A n \in Node : state[n] # "running"

Ready(n) ==
    /\ n \in nodes
    /\ state[n] = "waiting"
    /\ \A p \in ParentsOf(n) : state[p] = "done"

Begin(n) ==
    /\ verdict = "open"
    /\ Executable
    /\ Idle
    /\ Ready(n)
    /\ state' = [state EXCEPT ![n] = "running"]
    /\ UNCHANGED <<nodes, deps, verdict>>

Complete(n) ==
    /\ verdict = "open"
    /\ state[n] = "running"
    /\ state' = [state EXCEPT ![n] = "done"]
    /\ UNCHANGED <<nodes, deps, verdict>>

\* A node fails while it runs, or before it starts when it cannot be created.
Fail(n) ==
    /\ verdict = "open"
    /\ Executable
    /\ \/ state[n] = "running"
       \/ Idle /\ Ready(n)
    /\ state' = [state EXCEPT ![n] = "failed"]
    /\ verdict' = "failed"
    /\ UNCHANGED <<nodes, deps>>

Succeed ==
    /\ verdict = "open"
    /\ Executable
    /\ \A n \in nodes : state[n] = "done"
    /\ verdict' = "success"
    /\ UNCHANGED <<nodes, deps, state>>

Refuse ==
    /\ verdict = "open"
    /\ ~Executable
    /\ verdict' = "refused"
    /\ UNCHANGED <<nodes, deps, state>>

\* The task that runs the workflow is cancelled while a node is running.
Abort ==
    /\ verdict = "open"
    /\ ~Idle
    /\ verdict' = "aborted"
    /\ UNCHANGED <<nodes, deps, state>>

Next ==
    \/ \E n \in Node : Begin(n) \/ Complete(n) \/ Fail(n)
    \/ Succeed
    \/ Refuse
    \/ Abort

Spec == Init /\ [][Next]_dagVars

=============================================================================
