-------------------------- MODULE MCWorkflowEditor --------------------------
(***************************************************************************)
(* A node of a document, with a form, and one put on the canvas by hand.   *)
(***************************************************************************)
EXTENDS WorkflowEditor

CONSTANTS a, x

MCDocNode == {a}
MCFreshNode == {x}
MCDoc == {{a}}
MCSchema == {a}

=============================================================================
