---------------------------- MODULE MCAdapterPool ----------------------------
(***************************************************************************)
(* Three requests, with an engine and without, with functions of their own *)
(* and adapters that an engine brings.                                     *)
(***************************************************************************)
EXTENDS AdapterPool

MCTask == 1 .. 3

\* Two requests race for the engine while one needs what it would bring; two race
\* for the functions; all three ask for one function twice.
MCRequests ==
    {<<{"engine", "chunk"}, {"engine", "embedding"}, {"chunk"}>>,
     <<{"engine", "embedding", "generate"}, {"embedding", "keyword"}, {"rerank"}>>,
     <<{"engine", "generate", "keyword"}, {"generate", "keyword"}, {"engine", "industrial_graph_persist"}>>}

MCEnvs ==
    {[llmKey |-> TRUE, embKey |-> FALSE, probe |-> TRUE],
     [llmKey |-> FALSE, embKey |-> TRUE, probe |-> TRUE],
     [llmKey |-> TRUE, embKey |-> TRUE, probe |-> FALSE]}

=============================================================================
