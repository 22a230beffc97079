-------------------------- MODULE MCEmbeddingIndex --------------------------
(***************************************************************************)
(* Runs over small lists of records.  x1 and x2 are two texts with one id, *)
(* as a splitter may give them that numbers its chunks.                    *)
(***************************************************************************)
EXTENDS EmbeddingIndex

MCRecord == {"x1", "x2", "y", "z"}
MCIdOf == [x \in MCRecord |-> IF x \in {"x1", "x2"} THEN "x" ELSE x]

Input(records, func, allow, batch) ==
    [records |-> records, func |-> func, resume |-> TRUE, allow |-> allow, batch |-> batch]

MCConfigs ==
    {Input(<<"x1", "y", "z">>, TRUE, TRUE, 2), Input(<<"y", "x2">>, TRUE, FALSE, 1),
     Input(<<"x1", "y">>, FALSE, TRUE, 16), Input(<<"z">>, FALSE, FALSE, 16),
     [Input(<<"x1">>, TRUE, TRUE, 16) EXCEPT !.resume = FALSE]}

=============================================================================
