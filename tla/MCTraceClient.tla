--------------------------- MODULE MCTraceClient ---------------------------
(***************************************************************************)
(* Two runs, each either begun before the page was opened or begun on it;  *)
(* one fails.                                                              *)
(***************************************************************************)
EXTENDS TraceClient

CONSTANTS a, b

MCRun == {a, b}
MCFailing == {b}
MCOld == {a}

=============================================================================
