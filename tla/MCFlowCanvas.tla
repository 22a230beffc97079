---------------------------- MODULE MCFlowCanvas ----------------------------
(***************************************************************************)
(* A document of two nodes with its edge listed twice, and two fresh ids.  *)
(***************************************************************************)
EXTENDS FlowCanvas

CONSTANTS a, b, x, y

MCDocNode == {a, b}
MCFreshNode == {x, y}
MCDoc == { [nodes |-> {a, b}, pairs |-> << <<a, b>>, <<a, b>> >>] }

=============================================================================
