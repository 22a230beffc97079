-------------------------- MODULE MCWorkflowRunner --------------------------
(***************************************************************************)
(* The requests TLC tries.  The order in which a request lists its edges   *)
(* reaches the model through multiplicities only, so one listing of each   *)
(* bag of edges is enough.                                                 *)
(***************************************************************************)
EXTENDS WorkflowRunner

MCNode == 1 .. 4

\* Every listing of up to three of the ids 1 to 3, in any order, and one of all
\* four.  Id 4 is the endpoint that most lists do not know.
DistinctIdLists ==
    {s \in BoundedSeq(1 .. 3, 3) : IsInjective(s)} \cup {<<3, 1, 4, 2>>}

EdgeKey(e) == 10 * e[1] + e[2]
IsListing(s) == IsSorted(s, LAMBDA a, b : EdgeKey(a) <= EdgeKey(b))

\* Up to three edges between the ids 1 to 3, self-loops, repeated edges and one
\* unknown endpoint included; and every way to draw four different edges
\* between four nodes: diamonds, chains with a shortcut, cycles.
SmallEdgeLists ==
    {s \in BoundedSeq(((1 .. 3) \X (1 .. 3)) \cup {<<1, 4>>}, 3) : IsListing(s)}

FourEdgeLists ==
    {SetToSortSeq(E, LAMBDA a, b : EdgeKey(a) < EdgeKey(b)) :
        E \in kSubset(4, {e \in MCNode \X MCNode : e[1] # e[2]})}

RequestEdgeLists == SmallEdgeLists \cup FourEdgeLists

=============================================================================
