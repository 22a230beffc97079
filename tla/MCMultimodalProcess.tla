------------------------ MODULE MCMultimodalProcess -------------------------
(***************************************************************************)
(* Runs over small documents.  a1 and a2 are two versions of one table     *)
(* that differ only behind the part that is hashed; note is an item the    *)
(* VLM is never asked about.                                               *)
(***************************************************************************)
EXTENDS MultimodalProcess

MCItem == {"a1", "a2", "b", "note"}
MCVisual == {"a1", "a2", "b"}
MCFingerprint == [x \in MCItem |-> IF x \in {"a1", "a2"} THEN "a" ELSE x]

Input(items, vlm) == [items |-> items, vlm |-> vlm, resume |-> TRUE]

MCConfigs ==
    {Input(<<"a1", "b", "note">>, TRUE), Input(<<"a2", "b">>, TRUE), Input(<<"b">>, TRUE),
     Input(<<"a1", "b">>, FALSE), [items |-> <<"a1">>, vlm |-> TRUE, resume |-> FALSE]}

MCLegacyLine(k, item) ==
    [key |-> k, print |-> MCFingerprint[item], text |-> Text("vlm", item), answered |-> TRUE]
MCLegacies == {<<>>, <<MCLegacyLine(1, "b"), MCLegacyLine(1, "a1")>>,
               <<MCLegacyLine(1, "b"), MCLegacyLine(2, "b")>>}

=============================================================================
