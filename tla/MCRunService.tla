---------------------------- MODULE MCRunService ----------------------------
(***************************************************************************)
(* One run on small requests: two nodes in a row, one node alone, and a    *)
(* cycle that _topological_order rejects.                                  *)
(***************************************************************************)
EXTENDS RunService

CONSTANT c1

MCNode == 1 .. 2
MCClient == {c1}
MCIdLists == {<<1, 2>>}
ChainEdgeLists == {<< <<1, 2>> >>}
ChainOrCycleEdgeLists == {<< <<1, 2>> >>, << <<1, 2>>, <<2, 1>> >>}

=============================================================================
