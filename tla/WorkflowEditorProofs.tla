------------------------ MODULE WorkflowEditorProofs ------------------------
(***************************************************************************)
(* What holds of the drawer for any nodes, documents and number of edits:  *)
(* while it is open it stays on its node, an edit in it has its timer, and *)
(* only a node opened from the trace list can be given what belongs to     *)
(* another.                                                                *)
(***************************************************************************)
EXTENDS WorkflowEditor, TLAPS

-----------------------------------------------------------------------------
\* The invariant: the drafts belong to the node the drawer is open on, unless it
\* was opened from the trace list, and the raw text is never behind the node.

DraftsBelong ==
    selected \in nodes \ traced =>
        /\ draft.label.of = selected
        /\ draft.json.of = selected
        /\ draft.schema.of = selected
        /\ draft.json.edit >= content.config[selected].edit

\* No edit is newer than the last one typed.
EditsPast ==
    /\ \A n \in Node : content.config[n].edit <= edits
    /\ draft.json.edit <= edits
    /\ draft.schema.edit <= edits

\* The content of a node that is not on the canvas is that of a new one.
OwnUnlessTraced ==
    \A n \in Node \ traced : content.label[n].of = n /\ content.config[n].of = n

\* Every node there is, or that is selected, was in a document or given by nanoid;
\* so a new id is not the one selected.  Off the canvas the trace list selects only.
SelectionIsKnown ==
    /\ nodes \subseteq DocNode \cup used
    /\ used \subseteq FreshNode
    /\ selected \in DocNode \cup used \cup {NoNode}
    /\ selected \in nodes \cup traced \cup {NoNode}

EditorInv ==
    /\ EditorTypeOK
    /\ EditsPast
    /\ SelectionIsKnown
    /\ nodes \subseteq Node
    /\ OwnUnlessTraced
    /\ DraftsBelong
    /\ EditsAreTimed

LEMMA TextTyping ==
    /\ Blank \in Text
    /\ \A n \in Node : Own(n) \in Text /\ Own(n).of = n
    /\ OwnContent \in [label : [Node -> Text], config : [Node -> Text]]
    /\ BlankDraft \in [label : Text, json : Text, schema : Text, readable : BOOLEAN]
BY EditorAssumption DEF Blank, Own, Text, OwnContent, BlankDraft

LEMMA EditedTyping ==
    ASSUME NEW t \in Text, EditorTypeOK, edits < MaxEdits
    PROVE  /\ Edited(t) \in Text
           /\ Edited(t).of = t.of
           /\ Edited(t).edit = edits + 1
           /\ edits + 1 \in 0 .. MaxEdits
BY EditorAssumption DEF Edited, Text, EditorTypeOK

LEMMA OneNode == NoNode \notin Node
BY EditorAssumption

LEMMA EditorInvInit == EditorInit => EditorInv
<1> SUFFICES ASSUME EditorInit PROVE EditorInv
  OBVIOUS
<1> USE DEF EditorInit
<1>1. EditorTypeOK
  <2>1. edits \in 0 .. MaxEdits
    BY EditorAssumption
  <2>2. /\ content \in [label : [Node -> Text], config : [Node -> Text]]
        /\ draft \in [label : Text, json : Text, schema : Text, readable : BOOLEAN]
    BY TextTyping
  <2>3. QED
    BY <2>1, <2>2 DEF EditorTypeOK
<1>4. EditsPast
  BY DEF EditsPast, OwnContent, Own, BlankDraft, Blank
<1>2. /\ SelectionIsKnown
      /\ OwnUnlessTraced
      /\ DraftsBelong
      /\ EditsAreTimed
  BY OneNode DEF SelectionIsKnown, OwnUnlessTraced, DraftsBelong,
                 EditsAreTimed, Unwritten, OwnContent, Own
<1>3. QED
  BY <1>1, <1>2, <1>4 DEF EditorInv

-----------------------------------------------------------------------------
\* Selecting.

LEMMA SelectStep ==
    ASSUME EditorInv, NEW n \in nodes, Select(n)
    PROVE  EditorInv'
<1> USE DEF EditorInv, Select, canvasVars
<1>1. EditorTypeOK'
  BY DEF EditorTypeOK
<1>2. draft'.json.edit >= content.config[n].edit
  BY DEF EditorTypeOK, Text
<1>3. /\ SelectionIsKnown' /\ OwnUnlessTraced' /\ DraftsBelong'
  BY <1>2 DEF SelectionIsKnown, OwnUnlessTraced, DraftsBelong
<1>4. EditsAreTimed'
  <2>1. /\ draft'.label = content'.label[n] /\ draft'.json = content'.config[n]
        /\ draft'.schema = content'.config[n]
        /\ selected' = n
    OBVIOUS
  <2>2. content.label[n].edit \in Nat /\ content.config[n].edit \in Nat
    BY DEF EditorTypeOK, Text
  <2>3. ASSUME NEW m \in Node, NEW timer \in Timer PROVE ~Unwritten(m, timer)'
    BY <2>1, <2>2 DEF Unwritten, Timer
  <2>4. QED
    BY <2>3 DEF EditsAreTimed
<1>5. EditsPast'
  BY DEF EditsPast
<1>6. QED
  BY <1>1, <1>3, <1>4, <1>5

LEMMA SelectFromTraceStep ==
    ASSUME EditorInv, NEW n \in Node, SelectFromTrace(n)
    PROVE  EditorInv'
<1> USE DEF EditorInv, SelectFromTrace, canvasVars
<1>1. EditorTypeOK'
  BY DEF EditorTypeOK
<1>2. /\ SelectionIsKnown' /\ OwnUnlessTraced' /\ DraftsBelong'
      /\ EditsAreTimed' /\ EditsPast'
  BY DEF SelectionIsKnown, OwnUnlessTraced, DraftsBelong, EditsAreTimed, Unwritten,
         EditsPast
<1>3. QED
  BY <1>1, <1>2

LEMMA CloseDrawerStep ==
    ASSUME EditorInv, CloseDrawer
    PROVE  EditorInv'
<1> USE DEF EditorInv, CloseDrawer, Deselect, canvasVars
<1>1. EditorTypeOK'
  BY TextTyping DEF EditorTypeOK
<1>2. /\ SelectionIsKnown' /\ OwnUnlessTraced' /\ DraftsBelong'
      /\ EditsAreTimed'
  BY OneNode DEF SelectionIsKnown, OwnUnlessTraced, DraftsBelong,
                 EditsAreTimed, Unwritten
<1>4. EditsPast'
  BY DEF EditsPast, EditorTypeOK, Blank
<1>3. QED
  BY <1>1, <1>2, <1>4

-----------------------------------------------------------------------------
\* Typing.

LEMMA TypingStep ==
    ASSUME EditorInv,
           \/ TypeLabel
           \/ \E ok \in BOOLEAN : TypeJson(ok)
           \/ PatchField
    PROVE  EditorInv'
<1> USE DEF EditorInv, Typing, SelectedOnCanvas, canvasVars
<1>1. /\ draft.label \in Text /\ draft.json \in Text /\ draft.schema \in Text
      /\ edits < MaxEdits
      /\ edits' = edits + 1
      /\ UNCHANGED <<nodes, used, content, selected, traced>>
      /\ selected \in nodes
  BY DEF EditorTypeOK, TypeLabel, TypeJson, PatchField
<1>2. \A t \in Text : /\ Edited(t) \in Text
                      /\ Edited(t).of = t.of
                      /\ Edited(t).edit = edits + 1
                      /\ edits + 1 \in 0 .. MaxEdits
  BY <1>1, EditedTyping
<1>6. \A n \in Node : content.config[n].edit \in Nat /\ content.config[n].edit <= edits
  BY DEF EditsPast, EditorTypeOK, Text
<1>7. /\ draft.json.edit \in Nat /\ draft.schema.edit \in Nat /\ edits \in Nat
      /\ draft.json.edit <= edits /\ draft.schema.edit <= edits
  BY <1>1 DEF EditsPast, EditorTypeOK, Text
<1>3. CASE TypeLabel
  <2>1. EditorTypeOK'
    BY <1>1, <1>2, <1>3 DEF EditorTypeOK, TypeLabel, Timer
  <2>2. SelectionIsKnown' /\ OwnUnlessTraced' /\ DraftsBelong'
    BY <1>1, <1>2, <1>3
       DEF SelectionIsKnown, OwnUnlessTraced, DraftsBelong, TypeLabel, EditorTypeOK
  <2>3. EditsAreTimed'
    BY <1>1, <1>3 DEF EditsAreTimed, Unwritten, TypeLabel, EditorTypeOK, Timer
  <2>4. EditsPast'
    BY <1>1, <1>2, <1>6, <1>7, <1>3 DEF EditsPast, TypeLabel, EditorTypeOK
  <2>5. QED
    BY <2>1, <2>2, <2>3, <2>4, <1>1
<1>4. ASSUME NEW ok \in BOOLEAN, TypeJson(ok) PROVE EditorInv'
  <2>1. EditorTypeOK'
    BY <1>1, <1>2, <1>4 DEF EditorTypeOK, TypeJson, Timer
  <2>2. content.config[selected].edit \in Nat /\ content.config[selected].edit <= edits
    BY <1>1 DEF EditorTypeOK, EditsPast, Text
  <2>8. /\ draft'.label = draft.label /\ draft'.schema = draft.schema
        /\ draft'.json = Edited(draft.json)
    BY <1>4 DEF TypeJson, EditorTypeOK
  <2>9. /\ Edited(draft.json).of = draft.json.of
        /\ Edited(draft.json).edit = edits + 1
    BY <1>1, <1>2
  <2>3. SelectionIsKnown' /\ OwnUnlessTraced'
    BY <1>1 DEF SelectionIsKnown, OwnUnlessTraced
  <2>4. DraftsBelong'
    BY <1>1, <1>7, <2>2, <2>8, <2>9 DEF DraftsBelong
  <2>5. EditsAreTimed'
    BY <1>1, <1>4 DEF EditsAreTimed, Unwritten, TypeJson, EditorTypeOK, Timer
  <2>6. EditsPast'
    BY <1>1, <1>6, <1>7, <2>8, <2>9 DEF EditsPast
  <2>7. QED
    BY <2>1, <2>3, <2>4, <2>5, <2>6, <1>1
<1>5. CASE PatchField
  <2>1. EditorTypeOK'
    BY <1>1, <1>2, <1>5 DEF EditorTypeOK, PatchField, Timer
  <2>2. SelectionIsKnown' /\ OwnUnlessTraced' /\ DraftsBelong'
    BY <1>1, <1>2, <1>5
       DEF SelectionIsKnown, OwnUnlessTraced, DraftsBelong, PatchField, EditorTypeOK
  <2>3. EditsAreTimed'
    BY <1>1, <1>5 DEF EditsAreTimed, Unwritten, PatchField, EditorTypeOK, Timer
  <2>4. EditsPast'
    BY <1>1, <1>2, <1>6, <1>7, <1>5 DEF EditsPast, PatchField, EditorTypeOK
  <2>5. QED
    BY <2>1, <2>2, <2>3, <2>4, <1>1
<1>8. QED
  BY <1>3, <1>4, <1>5

-----------------------------------------------------------------------------
\* Writing.

LEMMA SyncLabelStep ==
    ASSUME EditorInv, SyncLabel
    PROVE  EditorInv'
<1> USE DEF EditorInv, SyncLabel, Rings, canvasVars, SelectedOnCanvas
<1>1. /\ UNCHANGED <<nodes, used, selected, edits, traced, draft>>
      /\ due' = due \ {"label"}
      /\ draft.label \in Text
  BY DEF EditorTypeOK
<1>2. CASE selected \in nodes
  <2>1. /\ content' \in [label : [Node -> Text], config : [Node -> Text]]
        /\ content'.config = content.config
        /\ content'.label[selected] = draft.label
        /\ \A m \in Node \ {selected} : content'.label[m] = content.label[m]
    <3>1. selected \in Node /\ draft.label \in Text
      BY <1>1, <1>2 DEF EditorTypeOK
    <3>2. content' = [content EXCEPT !.label[selected] = draft.label]
      BY <1>1, <1>2
    <3>3. content \in [label : [Node -> Text], config : [Node -> Text]]
      BY DEF EditorTypeOK
    <3>4. /\ [content EXCEPT !.label[selected] = draft.label] \in [label : [Node -> Text], config : [Node -> Text]]
          /\ [content EXCEPT !.label[selected] = draft.label].config = content.config
          /\ [content EXCEPT !.label[selected] = draft.label].label[selected] = draft.label
          /\ \A m \in Node \ {selected} :
               [content EXCEPT !.label[selected] = draft.label].label[m] = content.label[m]
      <4> HIDE DEF EditorInv, SyncLabel, Rings, SelectedOnCanvas
      <4> QED
        BY <3>1, <3>3
    <3>5. QED
      BY <1>1, <1>2, <3>2, <3>4
  <2>2. EditorTypeOK'
    BY <1>1, <2>1 DEF EditorTypeOK
  <2>3. SelectionIsKnown' /\ DraftsBelong' /\ EditsPast'
    BY <1>1, <2>1 DEF SelectionIsKnown, DraftsBelong, EditsPast
  <2>4. OwnUnlessTraced'
    BY <1>1, <1>2, <2>1 DEF OwnUnlessTraced, DraftsBelong
  <2>5. draft.label.edit \in Nat
    BY <1>1 DEF Text
  <2>6. EditsAreTimed'
    BY <1>1, <1>2, <2>1, <2>5 DEF EditsAreTimed, Unwritten, Timer
  <2>7. QED
    BY <1>1, <2>2, <2>3, <2>4, <2>6
<1>3. CASE selected \notin nodes
  <2>1. EditorTypeOK'
    BY <1>1, <1>3 DEF EditorTypeOK
  <2>2. SelectionIsKnown' /\ DraftsBelong' /\ EditsPast' /\ OwnUnlessTraced'
    BY <1>1, <1>3 DEF SelectionIsKnown, DraftsBelong, EditsPast, OwnUnlessTraced
  <2>3. EditsAreTimed'
    BY <1>1, <1>3, OneNode DEF EditsAreTimed, Unwritten, SelectionIsKnown
  <2>4. QED
    BY <1>1, <2>1, <2>2, <2>3
<1>4. QED
  BY <1>2, <1>3

LEMMA SyncJsonStep ==
    ASSUME EditorInv, SyncJson
    PROVE  EditorInv'
<1> USE DEF EditorInv, SyncJson, Rings, canvasVars, SelectedOnCanvas
<1>1. /\ UNCHANGED <<nodes, used, selected, edits, traced, draft>>
      /\ due' = due \ {"json"}
      /\ draft.json \in Text
  BY DEF EditorTypeOK
<1>2. CASE selected \in nodes /\ draft.readable
  <2>1. /\ content' \in [label : [Node -> Text], config : [Node -> Text]]
        /\ content'.label = content.label
        /\ content'.config[selected] = draft.json
        /\ \A m \in Node \ {selected} : content'.config[m] = content.config[m]
    <3>1. selected \in Node /\ draft.json \in Text
      BY <1>1, <1>2 DEF EditorTypeOK
    <3>2. content' = [content EXCEPT !.config[selected] = draft.json]
      BY <1>1, <1>2
    <3>3. content \in [label : [Node -> Text], config : [Node -> Text]]
      BY DEF EditorTypeOK
    <3>4. /\ [content EXCEPT !.config[selected] = draft.json] \in [label : [Node -> Text], config : [Node -> Text]]
          /\ [content EXCEPT !.config[selected] = draft.json].label = content.label
          /\ [content EXCEPT !.config[selected] = draft.json].config[selected] = draft.json
          /\ \A m \in Node \ {selected} :
               [content EXCEPT !.config[selected] = draft.json].config[m] = content.config[m]
      <4> HIDE DEF EditorInv, SyncJson, Rings, SelectedOnCanvas
      <4> QED
        BY <3>1, <3>3
    <3>5. QED
      BY <1>1, <1>2, <3>2, <3>4
  <2>2. EditorTypeOK'
    BY <1>1, <2>1 DEF EditorTypeOK
  <2>3. /\ draft.json.edit \in Nat /\ draft.schema.edit \in Nat
        /\ content.config[selected].edit \in Nat
    BY <1>2 DEF EditorTypeOK, Text
  <2>4. SelectionIsKnown' /\ DraftsBelong'
    BY <1>1, <2>1, <2>3 DEF SelectionIsKnown, DraftsBelong
  <2>5. EditsPast'
    BY <1>1, <2>1 DEF EditsPast
  <2>6. OwnUnlessTraced'
    BY <1>1, <1>2, <2>1 DEF OwnUnlessTraced, DraftsBelong
  <2>7. EditsAreTimed'
    BY <1>1, <1>2, <2>1, <2>3 DEF EditsAreTimed, Unwritten, Timer, DraftsBelong
  <2>8. QED
    BY <1>1, <2>2, <2>4, <2>5, <2>6, <2>7
<1>3. CASE ~(selected \in nodes /\ draft.readable)
  <2>1. EditorTypeOK'
    BY <1>1, <1>3 DEF EditorTypeOK
  <2>2. SelectionIsKnown' /\ DraftsBelong' /\ EditsPast' /\ OwnUnlessTraced'
    BY <1>1, <1>3 DEF SelectionIsKnown, DraftsBelong, EditsPast, OwnUnlessTraced
  <2>3. EditsAreTimed'
    BY <1>1, <1>3, OneNode DEF EditsAreTimed, Unwritten, SelectionIsKnown, Timer
  <2>4. QED
    BY <1>1, <2>1, <2>2, <2>3
<1>4. QED
  BY <1>2, <1>3

\* A form written to the node the drawer is open on; it is the draft of the form
\* or the raw text.
LEMMA PushedStep ==
    ASSUME EditorInv, NEW form \in {draft.schema, draft.json},
           Pushed(form),
           UNCHANGED <<nodes, used, selected, edits, traced>>,
           due' \subseteq due, due \ due' \subseteq {"schema"}
    PROVE  EditorInv'
<1> USE DEF EditorInv, SelectedOnCanvas
<1>1. /\ form \in Text /\ draft'.label = draft.label
      /\ draft'.schema = form
      /\ draft' \in [label : Text, json : Text, schema : Text, readable : BOOLEAN]
  BY DEF EditorTypeOK, Pushed
<1>2. CASE selected \in nodes /\ form # content.config[selected]
  <2>1. /\ content' \in [label : [Node -> Text], config : [Node -> Text]]
        /\ content'.label = content.label
        /\ content'.config[selected] = form
        /\ \A m \in Node \ {selected} : content'.config[m] = content.config[m]
    <3>1. selected \in Node /\ content' = [content EXCEPT !.config[selected] = form]
      BY <1>2 DEF Pushed
    <3>2. content \in [label : [Node -> Text], config : [Node -> Text]]
      BY DEF EditorTypeOK
    <3> HIDE DEF EditorInv, SelectedOnCanvas
    <3>3. QED
      BY <1>1, <3>1, <3>2
  <2>2. draft'.json = form
    BY <1>2 DEF Pushed, EditorTypeOK
  <2>3. /\ form.edit \in Nat
    BY <1>1 DEF Text
  <2>4. EditorTypeOK'
    BY <1>1, <2>1 DEF EditorTypeOK
  <2>5. SelectionIsKnown'
    BY DEF SelectionIsKnown
  <2>6. DraftsBelong'
    BY <1>1, <2>1, <2>2, <2>3 DEF DraftsBelong
  <2>7. EditsPast'
    BY <1>1, <2>1, <2>2 DEF EditsPast
  <2>8. OwnUnlessTraced'
    BY <1>2, <2>1 DEF OwnUnlessTraced, DraftsBelong
  <2>9. EditsAreTimed'
    BY <1>1, <1>2, <2>1, <2>2, <2>3 DEF EditsAreTimed, Unwritten, Timer
  <2>10. QED
    BY <2>4, <2>5, <2>6, <2>7, <2>8, <2>9
<1>3. CASE ~(selected \in nodes /\ form # content.config[selected])
  <2>1. UNCHANGED content /\ draft'.json = draft.json /\ draft'.readable = draft.readable
    BY <1>3 DEF Pushed, EditorTypeOK
  <2>2. EditorTypeOK'
    BY <1>1, <2>1 DEF EditorTypeOK
  <2>3. SelectionIsKnown' /\ EditsPast' /\ OwnUnlessTraced' /\ DraftsBelong'
    BY <1>1, <2>1 DEF SelectionIsKnown, EditsPast, OwnUnlessTraced, DraftsBelong
  <2>4. selected \in nodes => /\ form = content.config[selected]
                              /\ content.config[selected].edit \in Nat
    BY <1>3 DEF EditorTypeOK, Text
  <2>5. EditsAreTimed'
    BY <1>1, <2>1, <2>4, OneNode DEF EditsAreTimed, Unwritten, Timer, SelectionIsKnown
  <2>6. QED
    BY <2>2, <2>3, <2>5
<1>4. QED
  BY <1>2, <1>3

LEMMA PushSchemaStep ==
    ASSUME EditorInv, PushSchema
    PROVE  EditorInv'
BY PushedStep DEF PushSchema, Rings, canvasVars, EditorInv, SelectionIsKnown

LEMMA ApplyNowStep ==
    ASSUME EditorInv, ApplyNow
    PROVE  EditorInv'
<1> USE DEF EditorInv, ApplyNow, SelectedOnCanvas, canvasVars
<1>1. /\ UNCHANGED <<nodes, used, selected, due, edits, traced>>
      /\ selected \in nodes
  OBVIOUS
<1>2. CASE selected \in Schema
  BY <1>1, <1>2, PushedStep
<1>3. CASE selected \notin Schema
  <2>1. /\ content' \in [label : [Node -> Text], config : [Node -> Text]]
        /\ content'.label = content.label
        /\ content'.config[selected] = draft.json
        /\ \A m \in Node \ {selected} : content'.config[m] = content.config[m]
        /\ draft' = draft
    <3>1. selected \in Node /\ draft.json \in Text
      BY <1>1, <1>3 DEF EditorTypeOK
    <3>2. content' = [content EXCEPT !.config[selected] = draft.json]
      BY <1>1, <1>3
    <3>3. content \in [label : [Node -> Text], config : [Node -> Text]]
      BY DEF EditorTypeOK
    <3>4. /\ [content EXCEPT !.config[selected] = draft.json] \in [label : [Node -> Text], config : [Node -> Text]]
          /\ [content EXCEPT !.config[selected] = draft.json].label = content.label
          /\ [content EXCEPT !.config[selected] = draft.json].config[selected] = draft.json
          /\ \A m \in Node \ {selected} :
               [content EXCEPT !.config[selected] = draft.json].config[m] = content.config[m]
      <4> HIDE DEF EditorInv, ApplyNow, SelectedOnCanvas
      <4> QED
        BY <3>1, <3>3
    <3>5. QED
      BY <1>1, <1>3, <3>2, <3>4
  <2>2. draft.json.edit \in Nat
    BY DEF EditorTypeOK, Text
  <2>3. EditorTypeOK'
    BY <1>1, <2>1 DEF EditorTypeOK
  <2>4. SelectionIsKnown' /\ DraftsBelong' /\ EditsPast'
    BY <1>1, <2>1, <2>2 DEF SelectionIsKnown, DraftsBelong, EditsPast
  <2>5. OwnUnlessTraced'
    BY <1>1, <2>1 DEF OwnUnlessTraced, DraftsBelong
  <2>6. EditsAreTimed'
    BY <1>1, <1>3, <2>1, <2>2 DEF EditsAreTimed, Unwritten, Timer
  <2>7. QED
    BY <1>1, <2>3, <2>4, <2>5, <2>6
<1>4. QED
  BY <1>2, <1>3

-----------------------------------------------------------------------------
\* The canvas.

LEMMA ForgetTyping ==
    ASSUME NEW gone, EditorTypeOK, Forget(gone)
    PROVE  /\ content' \in [label : [Node -> Text], config : [Node -> Text]]
           /\ \A n \in Node : n \in gone => /\ content'.label[n] = Own(n)
                                            /\ content'.config[n] = Own(n)
           /\ \A n \in Node \ gone : /\ content'.label[n] = content.label[n]
                                     /\ content'.config[n] = content.config[n]
BY TextTyping DEF Forget, EditorTypeOK

\* The watch leaves everything alone or closes the drawer.
LEMMA WatchNodesLeaves ==
    ASSUME EditorTypeOK, EditsPast, WatchNodes
    PROVE  /\ draft' \in [label : Text, json : Text, schema : Text, readable : BOOLEAN]
           /\ draft'.json = draft.json
           /\ draft'.schema.edit <= edits
           /\ selected' # NoNode => UNCHANGED <<selected, draft>> /\ selected' \in nodes'
BY TextTyping, EditorAssumption DEF WatchNodes, Deselect, EditorTypeOK, EditsPast, Blank

LEMMA PlaceNodeStep ==
    ASSUME EditorInv, NEW n \in FreshNode, PlaceNode(n)
    PROVE  EditorInv'
<1> USE DEF EditorInv, PlaceNode
<1>1. /\ draft' \in [label : Text, json : Text, schema : Text, readable : BOOLEAN]
      /\ draft'.json = draft.json /\ draft'.schema.edit <= edits
      /\ selected' # NoNode => UNCHANGED <<selected, draft>> /\ selected' \in nodes'
  BY WatchNodesLeaves
<1>2. selected' \in nodes' => selected \in nodes
  BY <1>1, OneNode, EditorAssumption DEF SelectionIsKnown, Node
<1>3. EditorTypeOK' /\ EditsPast' /\ OwnUnlessTraced' /\ (nodes \subseteq Node)'
  BY <1>1 DEF EditorTypeOK, EditsPast, OwnUnlessTraced, Node
<1>4. SelectionIsKnown'
  BY <1>1 DEF SelectionIsKnown
<1>5. DraftsBelong'
  <2>1. selected' \in nodes' => UNCHANGED <<selected, draft, content, traced>>
    BY <1>1, <1>3, OneNode
  <2>2. QED
    BY <1>2, <2>1 DEF DraftsBelong
<1>6. EditsAreTimed'
  <2>1. ASSUME NEW m \in Node, NEW timer \in Timer, Unwritten(m, timer)'
        PROVE  Unwritten(m, timer)
    BY <1>1, <2>1, OneNode DEF Unwritten
  <2>2. QED
    BY <2>1 DEF EditsAreTimed
<1>7. QED
  BY <1>3, <1>4, <1>5, <1>6

LEMMA RewriteNodesStep ==
    ASSUME EditorInv, RewriteNodes
    PROVE  EditorInv'
<1> USE DEF EditorInv, RewriteNodes, canvasVars
<1>1. /\ draft' \in [label : Text, json : Text, schema : Text, readable : BOOLEAN]
      /\ draft'.json = draft.json /\ draft'.schema.edit <= edits
      /\ selected' # NoNode => UNCHANGED <<selected, draft>> /\ selected' \in nodes'
  BY WatchNodesLeaves
<1>2. EditorTypeOK' /\ EditsPast' /\ OwnUnlessTraced'
  BY <1>1 DEF EditorTypeOK, EditsPast, OwnUnlessTraced
<1>3. SelectionIsKnown'
  BY <1>1 DEF SelectionIsKnown
<1>4. DraftsBelong' /\ EditsAreTimed'
  BY <1>1, OneNode DEF DraftsBelong, EditsAreTimed, Unwritten
<1>5. QED
  BY <1>2, <1>3, <1>4

LEMMA RemoveNodeStep ==
    ASSUME EditorInv, NEW n \in nodes, RemoveNode(n)
    PROVE  EditorInv'
<1> USE DEF EditorInv, RemoveNode
<1>1. /\ content' \in [label : [Node -> Text], config : [Node -> Text]]
      /\ content'.label[n] = Own(n) /\ content'.config[n] = Own(n)
      /\ \A m \in Node \ {n} : /\ content'.label[m] = content.label[m]
                               /\ content'.config[m] = content.config[m]
      /\ Own(n).of = n /\ Own(n).edit = 0
      /\ edits \in Nat
  BY ForgetTyping, EditorAssumption DEF Own, EditorTypeOK
<1>2. /\ draft' \in [label : Text, json : Text, schema : Text, readable : BOOLEAN]
      /\ draft'.json = draft.json /\ draft'.schema.edit <= edits
      /\ selected' # NoNode => UNCHANGED <<selected, draft>> /\ selected' \in nodes'
  BY WatchNodesLeaves
<1>3. EditorTypeOK' /\ EditsPast'
  BY <1>1, <1>2 DEF EditorTypeOK, EditsPast
<1>4. SelectionIsKnown' /\ OwnUnlessTraced'
  BY <1>1, <1>2 DEF SelectionIsKnown, OwnUnlessTraced
<1>5. selected' # NoNode =>
        /\ selected \in Node \ {n}
        /\ content'.label[selected] = content.label[selected]
        /\ content'.config[selected] = content.config[selected]
  BY <1>1, <1>2
<1>6. DraftsBelong'
  BY <1>2, <1>5, OneNode DEF DraftsBelong
<1>7. EditsAreTimed'
  BY <1>2, <1>5, OneNode DEF EditsAreTimed, Unwritten
<1>8. QED
  BY <1>3, <1>4, <1>6, <1>7

LEMMA ReplaceCanvasStep ==
    ASSUME EditorInv, NEW ns \in Doc \cup {{}}, ReplaceCanvas(ns)
    PROVE  EditorInv'
<1> USE DEF EditorInv, ReplaceCanvas
<1>1. /\ content' \in [label : [Node -> Text], config : [Node -> Text]]
      /\ \A m \in Node : content'.label[m] = Own(m) /\ content'.config[m] = Own(m)
      /\ \A m \in Node : Own(m).of = m /\ Own(m).edit = 0
      /\ edits \in Nat
  BY ForgetTyping, EditorAssumption DEF Own, EditorTypeOK
<1>2. ns \subseteq Node
  BY EditorAssumption DEF Node
<1>3. EditorTypeOK'
  BY <1>1, TextTyping DEF EditorTypeOK
<1>4. EditsPast'
  BY <1>1 DEF EditsPast, BlankDraft, Blank
<1>5. DraftsBelong' /\ EditsAreTimed' /\ OwnUnlessTraced'
  BY <1>1, <1>2, OneNode DEF DraftsBelong, EditsAreTimed, Unwritten, OwnUnlessTraced
<1>6. SelectionIsKnown'
  BY EditorAssumption DEF SelectionIsKnown
<1>7. QED
  BY <1>2, <1>3, <1>4, <1>5, <1>6

-----------------------------------------------------------------------------

LEMMA EditorInvStep == EditorInv /\ [EditorNext]_editorVars => EditorInv'
<1> SUFFICES ASSUME EditorInv, [EditorNext]_editorVars PROVE EditorInv'
  OBVIOUS
<1>1. CASE EditorNext
  BY <1>1, SelectStep, SelectFromTraceStep, CloseDrawerStep, TypingStep, SyncLabelStep,
     SyncJsonStep, PushSchemaStep, ApplyNowStep, PlaceNodeStep, RewriteNodesStep,
     RemoveNodeStep, ReplaceCanvasStep
     DEF EditorNext
<1>2. CASE UNCHANGED editorVars
  BY <1>2 DEF editorVars, canvasVars, editVars, EditorInv, EditorTypeOK, EditsPast,
              SelectionIsKnown, OwnUnlessTraced, DraftsBelong, EditsAreTimed, Unwritten
<1>3. QED
  BY <1>1, <1>2

THEOREM EditorInvariant == EditorSpec => []EditorInv
BY EditorInvInit, EditorInvStep, PTL DEF EditorSpec

-----------------------------------------------------------------------------
\* What a step may do to a drawer that is open after it on the same selection.

DrawerStep ==
    selected' = selected /\ selected \in nodes' =>
        /\ selected \in nodes
        /\ content'.label[selected] \in {content.label[selected], draft.label}
        /\ content'.config[selected] \in
               {content.config[selected], draft.json, draft.schema}

LEMMA DrawerStepHolds ==
    ASSUME EditorInv, [EditorNext]_editorVars
    PROVE  [DrawerStep]_editorVars
<1> SUFFICES ASSUME EditorNext, selected' = selected, selected \in nodes'
             PROVE  /\ selected \in nodes
                    /\ content'.label[selected] \in {content.label[selected], draft.label}
                    /\ content'.config[selected] \in
                           {content.config[selected], draft.json, draft.schema}
  BY DEF DrawerStep
<1> USE DEF canvasVars
<1>1. /\ content \in [label : [Node -> Text], config : [Node -> Text]]
      /\ nodes \subseteq Node
  BY DEF EditorInv, EditorTypeOK
<1>2. CASE UNCHANGED <<nodes, content>>
  BY <1>2
<1>3. CASE SyncLabel
  BY <1>1, <1>3 DEF SyncLabel, Rings, SelectedOnCanvas
<1>4. CASE SyncJson
  BY <1>1, <1>4 DEF SyncJson, Rings, SelectedOnCanvas
<1>5. ASSUME NEW form \in {draft.json, draft.schema}, Pushed(form), UNCHANGED nodes
      PROVE  /\ selected \in nodes
             /\ content'.label[selected] \in {content.label[selected], draft.label}
             /\ content'.config[selected] \in
                    {content.config[selected], draft.json, draft.schema}
  BY <1>1, <1>5 DEF Pushed, SelectedOnCanvas
<1>6. CASE PushSchema
  BY <1>5, <1>6 DEF PushSchema, Rings
<1>7. CASE ApplyNow
  <2>1. CASE selected \in Schema
    BY <1>5, <1>7, <2>1 DEF ApplyNow
  <2>2. CASE selected \notin Schema
    BY <1>1, <1>7, <2>2 DEF ApplyNow, SelectedOnCanvas
  <2>3. QED
    BY <2>1, <2>2
<1>8. ASSUME NEW n \in FreshNode, PlaceNode(n) PROVE UNCHANGED content /\ selected \in nodes
  <2>1. selected # n
    BY <1>8, OneNode, EditorAssumption DEF PlaceNode, EditorInv, SelectionIsKnown, Node
  <2>2. QED
    BY <1>8, <2>1 DEF PlaceNode
<1>9. ASSUME NEW n \in nodes, RemoveNode(n)
      PROVE  /\ selected \in nodes
             /\ content'.label[selected] = content.label[selected]
             /\ content'.config[selected] = content.config[selected]
  <2>1. selected \in Node \ {n} /\ selected \in nodes
    BY <1>1, <1>9 DEF RemoveNode
  <2>2. EditorTypeOK /\ Forget({n})
    BY <1>9 DEF RemoveNode, EditorInv
  <2>3. QED
    BY <2>1, <2>2, ForgetTyping
<1>10. ASSUME NEW ns \in Doc \cup {{}}, ReplaceCanvas(ns) PROVE FALSE
  <2>1. ns \subseteq Node
    BY EditorAssumption DEF Node
  <2>2. QED
    BY <1>10, <2>1, OneNode DEF ReplaceCanvas
<1>11. CASE \/ \E n \in nodes : Select(n)
            \/ \E n \in Node : SelectFromTrace(n)
            \/ CloseDrawer
            \/ TypeLabel
            \/ \E ok \in BOOLEAN : TypeJson(ok)
            \/ PatchField
            \/ RewriteNodes
  BY <1>2, <1>11
     DEF Select, SelectFromTrace, CloseDrawer, TypeLabel, TypeJson, PatchField, Typing,
         RewriteNodes
<1>12. QED
  BY <1>3, <1>4, <1>6, <1>7, <1>8, <1>9, <1>10, <1>11 DEF EditorNext

\* The state of the editor keeps its type.
THEOREM EditorTypeCorrect == EditorSpec => []EditorTypeOK
<1>1. EditorInv => EditorTypeOK
  BY DEF EditorInv
<1>2. QED
  BY <1>1, EditorInvariant, PTL

\* An open drawer stays on the node its drafts were taken from, whatever comes onto
\* the canvas.
THEOREM DrawerKeepsItsNode == EditorSpec => OpenDrawerKeepsItsNode
<1>1. EditorInv /\ [EditorNext]_editorVars => [DrawerStep]_editorVars
  BY DrawerStepHolds
<1>2. QED
  BY <1>1, EditorInvariant, PTL DEF EditorSpec, OpenDrawerKeepsItsNode, DrawerStep

\* A node that was opened by clicks only never gets what belongs to another.
THEOREM ContentIsOwn == EditorSpec => []CrossesOnlyByTrace
<1>1. EditorInv => CrossesOnlyByTrace
  BY DEF EditorInv, OwnUnlessTraced, CrossesOnlyByTrace
<1>2. QED
  BY <1>1, EditorInvariant, PTL

\* No edit is left in the drawer without a timer.
THEOREM EditsHaveTimers == EditorSpec => []EditsAreTimed
<1>1. EditorInv => EditsAreTimed
  BY DEF EditorInv
<1>2. QED
  BY <1>1, EditorInvariant, PTL

=============================================================================
