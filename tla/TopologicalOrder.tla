-------------------------- MODULE TopologicalOrder --------------------------
(***************************************************************************)
(* WorkflowRunner._topological_order: Kahn's algorithm over the node list  *)
(* and the edge list of a submitted workflow.  Both are lists, and nothing *)
(* in the request schema forbids a repeated node id or a repeated edge, so *)
(* they are sequences here.  Node ids are numbers: the only thing the code *)
(* does with an id besides comparing it is to sort it.                     *)
(***************************************************************************)
EXTENDS Integers, FiniteSets, SequencesExt

CONSTANTS
    Node,       \* the ids a request may name, known to its node list or not
    IdLists,    \* the node lists considered:  schema.node_ids()
    EdgeLists   \* the edge lists considered:  schema.edges

ASSUME RequestAssumption ==
    /\ Node \subseteq Nat
    /\ IdLists \subseteq Seq(Node)
    /\ EdgeLists \subseteq Seq(Node \X Node)

VARIABLES
    ids,        \* the node list of the request
    edges,      \* the edge list of the request
    indeg,      \* number of incoming edges not yet removed, per node id
    q,          \* the deque of nodes without incoming edges
    order,      \* the order computed so far
    sorter      \* where _topological_order is: "enter", "kahn", "ordered"
                \* (it returned) or "rejected" (it raised ValueError)

sortVars == <<ids, edges, indeg, q, order, sorter>>

Ids == ToSet(ids)

Parents(n) == {p \in Node : <<p, n>> \in ToSet(edges)}

\* How many edges lead from u to v, and how many lead to v.
Multiplicity(u, v) == Cardinality({k \in DOMAIN edges : edges[k] = <<u, v>>})
InDegree(v) == Cardinality({k \in DOMAIN edges : edges[k][2] = v})

Occurrences(s, x) == Cardinality({i \in DOMAIN s : s[i] = x})

\* sorted(): the ascending sequences of at most n elements that list every
\* element x of S copies[x] times.  There is exactly one when n is the total.
SortedListings(S, n, copies) ==
    {z \in BoundedSeq(S, n) : /\ \A i, j \in DOMAIN z : i < j => z[i] <= z[j]
                              /\ \A x \in S : Occurrences(z, x) = copies[x]}

-----------------------------------------------------------------------------

SortInit ==
    /\ ids \in IdLists
    /\ edges \in EdgeLists
    /\ indeg = [v \in Ids |-> 0]
    /\ q = <<>>
    /\ order = <<>>
    /\ sorter = "enter"

HasUnknownEndpoint == \E e \in ToSet(edges) : e[1] \notin Ids \/ e[2] \notin Ids

RejectUnknownEndpoint ==
    /\ sorter = "enter"
    /\ HasUnknownEndpoint
    /\ sorter' = "rejected"
    /\ UNCHANGED <<ids, edges, indeg, q, order>>

Roots == {v \in Ids : InDegree(v) = 0}

RejectNoRoot ==
    /\ sorter = "enter"
    /\ ~HasUnknownEndpoint
    /\ Roots = {}
    /\ indeg' = [v \in Ids |-> InDegree(v)]
    /\ sorter' = "rejected"
    /\ UNCHANGED <<ids, edges, q, order>>

\* The list of roots is filtered from sorted(ids): an id that the node list
\* repeats is queued once per repetition.
EnqueueRoots ==
    /\ sorter = "enter"
    /\ ~HasUnknownEndpoint
    /\ Roots # {}
    /\ indeg' = [v \in Ids |-> InDegree(v)]
    /\ q' \in SortedListings(Roots, Len(ids),
                             [v \in Roots |-> Occurrences(ids, v)])
    /\ sorter' = "kahn"
    /\ UNCHANGED <<ids, edges, order>>

\* A child is queued by the decrement that takes its count to exactly zero.
Released(u) == {v \in Ids : indeg[v] \in 1 .. Multiplicity(u, v)}

VisitNext ==
    /\ sorter = "kahn"
    /\ q # <<>>
    /\ LET u == Head(q) IN
         /\ order' = Append(order, u)
         /\ indeg' = [v \in Ids |-> indeg[v] - Multiplicity(u, v)]
         /\ \E released \in SortedListings(Released(u), Cardinality(Released(u)),
                                           [v \in Released(u) |-> 1]) :
              q' = Tail(q) \o released
    /\ UNCHANGED <<ids, edges, sorter>>

\* The only test for a cycle compares the lengths of the two lists.
NoCycleTest == TRUE                               \* mutant: no such test
OrderIsComplete == Len(order) = Len(ids)

FinishSort ==
    /\ sorter = "kahn"
    /\ q = <<>>
    /\ sorter' = IF OrderIsComplete THEN "ordered" ELSE "rejected"
    /\ UNCHANGED <<ids, edges, indeg, q, order>>

SortNext ==
    \/ RejectUnknownEndpoint
    \/ RejectNoRoot
    \/ EnqueueRoots
    \/ VisitNext
    \/ FinishSort

SortSpec == SortInit /\ [][SortNext]_sortVars

SortTypeOK ==
    /\ ids \in Seq(Node)
    /\ edges \in Seq(Node \X Node)
    /\ indeg \in [Ids -> Int]
    /\ q \in Seq(Ids)
    /\ order \in Seq(Ids)
    /\ sorter \in {"enter", "kahn", "ordered", "rejected"}

\* What a workflow has to be for an order to exist.

\* Every node of a non-empty S waits for another node of S.
Cyclic == \E S \in SUBSET Ids : S # {} /\ \A n \in S : Parents(n) \cap S # {}

Orderable == Ids # {} /\ ~HasUnknownEndpoint /\ ~Cyclic

\* _topological_order raises for no graph that has an order, and returns for
\* no graph that has none.
RejectsOnlyUnorderable ==
    /\ sorter = "rejected" => ~Orderable
    /\ sorter = "ordered" => Orderable

-----------------------------------------------------------------------------
\* The inductive invariant of the sort, for node lists without repetition.

\* The edges into v that no visited node has removed yet.
OpenEdges(v) == {k \in DOMAIN edges : /\ edges[k][2] = v
                                      /\ edges[k][1] \notin ToSet(order)}

NoRepetition ==
    /\ IsInjective(order)
    /\ IsInjective(q)
    /\ ToSet(order) \cap ToSet(q) = {}

\* A node is visited or queued exactly when all its incoming edges are gone.
CountsAreExact ==
    \A v \in Ids :
        /\ indeg[v] = Cardinality(OpenEdges(v))
        /\ v \in ToSet(order) \cup ToSet(q) <=> indeg[v] = 0

ParentsComeEarlier ==
    \A i \in DOMAIN order : \A p \in Parents(order[i]) :
        \E j \in 1 .. i - 1 : order[j] = p

\* No visited node is on a cycle.
NoCycleVisited ==
    \A S \in SUBSET Ids :
        (\A n \in S : Parents(n) \cap S # {}) => S \cap ToSet(order) = {}

Visiting == /\ NoRepetition
            /\ CountsAreExact
            /\ ParentsComeEarlier
            /\ NoCycleVisited

SortInv ==
    /\ sorter = "enter" => q = <<>> /\ order = <<>>
    /\ sorter \in {"kahn", "ordered"} =>
         Ids # {} /\ ~HasUnknownEndpoint /\ Visiting
    /\ sorter = "ordered" => ToSet(order) = Ids
    /\ RejectsOnlyUnorderable

=============================================================================
