--------------------------- MODULE WorkflowEditor ---------------------------
(***************************************************************************)
(* The drawer in which a node of the canvas is edited                      *)
(* (composables/useNodeConfig.ts, index.vue).  What is typed goes into     *)
(* drafts that belong to the drawer, not to a node; a timer per draft      *)
(* writes the draft to whatever node is selected when it fires.  Clicking  *)
(* a node fills the drafts from it; selecting one in the list of the       *)
(* runtime trace does not.                                                 *)
(*                                                                         *)
(* A text is abstracted to the node it was first taken from and the last   *)
(* edit in it.  The watch on flowNodes runs in the same flush as the       *)
(* handler that changed it and belongs to its action (WatchNodes).  Of the *)
(* canvas under the drawer only the nodes are kept: its edges and its      *)
(* picker, which the drawer neither reads nor writes, are FlowCanvas.      *)
(***************************************************************************)
EXTENDS Naturals

CONSTANTS
    DocNode,        \* ids of nodes in documents
    FreshNode,      \* the ids nanoid gives: each once
    Doc,            \* the sets of nodes of the documents and templates
    Schema,         \* nodes whose type has config_fields
    NoNode,
    MaxEdits        \* bound: edits typed

Node == DocNode \cup FreshNode

ASSUME EditorAssumption ==
    /\ DocNode \cap FreshNode = {}
    /\ Doc \subseteq SUBSET DocNode
    /\ Schema \subseteq Node
    /\ NoNode \notin Node
    /\ MaxEdits \in Nat

VARIABLES
    nodes,          \* the ids in flowNodes
    used,           \* the ids nanoid has given
    content,        \* label and config of each node
    selected,       \* selectedNodeId, which need not be on the canvas
    draft,          \* labelDraft, configDraft (a text), localSchemaConfig
    due,            \* the debounce timers that run
    edits,          \* edits typed so far
    traced          \* ghost: nodes that were selected from the trace list

canvasVars == <<nodes, used>>
editVars == <<content, selected, draft, due, edits, traced>>
editorVars == <<canvasVars, editVars>>

Text == [of : Node \cup {NoNode}, edit : 0 .. MaxEdits]
Timer == {"label", "json", "schema"}

Own(n) == [of |-> n, edit |-> 0]
OwnContent == [label |-> [n \in Node |-> Own(n)], config |-> [n \in Node |-> Own(n)]]
Blank == [of |-> NoNode, edit |-> 0]
BlankDraft == [label |-> Blank, json |-> Blank, schema |-> Blank, readable |-> TRUE]

EditorInit ==
    /\ nodes = {}
    /\ used = {}
    /\ content = OwnContent
    /\ selected = NoNode
    /\ draft = BlankDraft
    /\ due = {}
    /\ edits = 0
    /\ traced = {}

\* The drawer is open; the findIndex of every write.
SelectedOnCanvas == selected \in nodes

-----------------------------------------------------------------------------
\* Selecting.

\* onNodeSelected, rebuildLocalSchemaConfig
KeepLabelDraft(n) ==                  \* mutant: one draft is not refilled
    /\ n \in nodes
    /\ selected' = n
    /\ draft' = [draft EXCEPT !.json = content.config[n], !.schema = content.config[n],
                             !.readable = TRUE]
    /\ UNCHANGED <<canvasVars, content, due, edits, traced>>
Select(n) ==
    /\ n \in nodes
    /\ selected' = n
    /\ draft' = [label |-> content.label[n], json |-> content.config[n],
                 schema |-> content.config[n], readable |-> TRUE]
    /\ UNCHANGED <<canvasVars, content, due, edits, traced>>

\* onTraceSelectNode.  The list is of a run, perhaps an imported one, and may name
\* any node there ever was.  If it is not on the canvas, the drawer closes.
SelectFromTrace(n) ==
    /\ n \in DocNode \cup used
    /\ selected' = n
    /\ traced' = traced \cup {n}
    /\ UNCHANGED <<canvasVars, content, draft, due, edits>>

\* clearSelectionDrafts
Deselect ==
    /\ selected' = NoNode
    /\ draft' = [draft EXCEPT !.schema = Blank]

\* closeNodeConfigDrawer
CloseDrawer ==
    /\ SelectedOnCanvas
    /\ Deselect
    /\ UNCHANGED <<canvasVars, content, due, edits, traced>>

-----------------------------------------------------------------------------
\* Typing: the watches on the drafts arm the timers.

Edited(text) == [text EXCEPT !.edit = edits + 1]

Typing ==
    /\ SelectedOnCanvas
    /\ edits < MaxEdits
    /\ edits' = edits + 1
    /\ UNCHANGED <<canvasVars, content, selected, traced>>

TypeLabel ==
    /\ Typing
    /\ draft' = [draft EXCEPT !.label = Edited(draft.label)]
    /\ due' = due \cup {"label"}

\* The raw text is written by itself only when the node has no form.
TypeJson(ok) ==
    /\ Typing
    /\ draft' = [draft EXCEPT !.json = Edited(draft.json), !.readable = ok]
    /\ due' = IF selected \in Schema THEN due ELSE due \cup {"json"}

\* patchSchemaField
SharedTimer ==                        \* mutant: one debounced function for all
    /\ Typing
    /\ selected \in Schema
    /\ draft' = [draft EXCEPT !.schema = Edited(draft.schema)]
    /\ due' = {"schema"}
PatchField ==
    /\ Typing
    /\ selected \in Schema
    /\ draft' = [draft EXCEPT !.schema = Edited(draft.schema)]
    /\ due' = due \cup {"schema"}

-----------------------------------------------------------------------------
\* Writing.

Rings(timer) ==
    /\ timer \in due
    /\ due' = due \ {timer}
    /\ UNCHANGED <<canvasVars, selected, edits, traced>>

\* syncLabelDraftToFlow
DropRepeated ==                       \* mutant: only a changed origin is written
    /\ Rings("label")
    /\ content' = IF SelectedOnCanvas /\ draft.label.of # content.label[selected].of
                  THEN [content EXCEPT !.label[selected] = draft.label]
                  ELSE content
    /\ UNCHANGED draft
SyncLabel ==
    /\ Rings("label")
    /\ content' = IF SelectedOnCanvas
                  THEN [content EXCEPT !.label[selected] = draft.label]
                  ELSE content
    /\ UNCHANGED draft

\* syncConfigDraftToFlow
SyncJson ==
    /\ Rings("json")
    /\ content' = IF SelectedOnCanvas /\ draft.readable
                  THEN [content EXCEPT !.config[selected] = draft.json]
                  ELSE content
    /\ UNCHANGED draft

\* pushLocalSchemaToFlow
Pushed(form) ==
    IF SelectedOnCanvas /\ form # content.config[selected]
    THEN /\ content' = [content EXCEPT !.config[selected] = form]
         /\ draft' = [draft EXCEPT !.json = form, !.schema = form, !.readable = TRUE]
    ELSE /\ UNCHANGED content
         /\ draft' = [draft EXCEPT !.schema = form]

PushSchema ==
    /\ Rings("schema")
    /\ Pushed(draft.schema)

\* applyConfigDraftNow
ApplyNow ==
    /\ SelectedOnCanvas
    /\ draft.readable
    /\ IF selected \in Schema
       THEN Pushed(draft.json)
       ELSE /\ content' = [content EXCEPT !.config[selected] = draft.json]
            /\ UNCHANGED draft
    /\ UNCHANGED <<canvasVars, selected, due, edits, traced>>

-----------------------------------------------------------------------------
\* The canvas under the drawer.

\* The watch on flowNodes.  The deletion of one node looks at the selection itself,
\* with the same result.
WatchNodes ==
    IF selected \in nodes' \cup {NoNode} THEN UNCHANGED <<selected, draft>> ELSE Deselect

\* addNodeFromMeta, insertNodeOnEdge, addNodeLinkedFromSource
PlaceNode(n) ==
    /\ n \in FreshNode \ used
    /\ nodes' = nodes \cup {n}
    /\ used' = used \cup {n}
    /\ WatchNodes
    /\ UNCHANGED <<content, due, edits, traced>>

\* Dragging, applyRuntimeNodeStats, applyUpstreamKnowledgeHints: the same nodes are
\* written again.
RewriteNodes ==
    /\ UNCHANGED canvasVars
    /\ WatchNodes
    /\ UNCHANGED <<content, due, edits, traced>>

Forget(gone) ==
    content' = [label  |-> [n \in Node |-> IF n \in gone THEN Own(n) ELSE content.label[n]],
                config |-> [n \in Node |-> IF n \in gone THEN Own(n) ELSE content.config[n]]]

\* onNodeDeleteRequest, the delete key
RemoveNode(n) ==
    /\ n \in nodes
    /\ nodes' = nodes \ {n}
    /\ WatchNodes
    /\ Forget({n})
    /\ traced' = traced \ {n}
    /\ UNCHANGED <<used, due, edits>>

\* clearCanvas (with no nodes), applyLoadedDocument, applyTemplateDocument, whose
\* answers may come at any time, and resetDraftsAfterClearCanvas; the timers run
\* on.
KeepSelected(ns) ==                   \* mutant: the selection is left to the watch
    /\ nodes' = ns
    /\ Forget(Node)
    /\ selected' = IF selected \in ns THEN selected ELSE NoNode
    /\ draft' = BlankDraft
    /\ traced' = {}
    /\ UNCHANGED <<used, due, edits>>
ReplaceCanvas(ns) ==
    /\ nodes' = ns
    /\ Forget(Node)
    /\ selected' = NoNode
    /\ draft' = BlankDraft
    /\ traced' = {}
    /\ UNCHANGED <<used, due, edits>>

EditorNext ==
    \/ \E n \in nodes : Select(n)
    \/ \E n \in Node : SelectFromTrace(n)
    \/ CloseDrawer
    \/ TypeLabel
    \/ \E ok \in BOOLEAN : TypeJson(ok)
    \/ PatchField
    \/ SyncLabel
    \/ SyncJson
    \/ PushSchema
    \/ ApplyNow
    \/ \E n \in FreshNode : PlaceNode(n)
    \/ RewriteNodes
    \/ \E n \in nodes : RemoveNode(n)
    \/ \E ns \in Doc \cup {{}} : ReplaceCanvas(ns)

\* A timer that is not armed again rings.
EditorSpec ==
    /\ EditorInit
    /\ [][EditorNext]_editorVars
    /\ WF_editorVars(SyncLabel)
    /\ WF_editorVars(SyncJson)
    /\ WF_editorVars(PushSchema)

-----------------------------------------------------------------------------
\* Properties.

EditorTypeOK ==
    /\ content \in [label : [Node -> Text], config : [Node -> Text]]
    /\ selected \in Node \cup {NoNode}
    /\ draft \in [label : Text, json : Text, schema : Text, readable : BOOLEAN]
    /\ due \subseteq Timer
    /\ edits \in 0 .. MaxEdits
    /\ traced \subseteq Node

\* A drawer that is open after a step on the node selected before it was open on
\* that node, and only what is typed in it has changed the node.  Neither a document
\* that brings a node of the same id (applyLoadedDocument) nor a node put on the
\* canvas opens a drawer on a selection left from the trace list, or leaves one
\* open, with its drafts, on another node than they were taken from.
OpenDrawerKeepsItsNode ==
    [][ selected' = selected /\ selected \in nodes' =>
            /\ selected \in nodes
            /\ content'.label[selected] \in {content.label[selected], draft.label}
            /\ content'.config[selected] \in
                   {content.config[selected], draft.json, draft.schema}
      ]_editorVars

\* What one node was given in the drawer never ends up in another node that was
\* only ever opened by a click, however the timers, clicks, deletions and
\* documents interleave (onNodeSelected refills every draft).
CrossesOnlyByTrace ==
    \A n \in nodes \ traced : content.label[n].of = n /\ content.config[n].of = n

\* An edit the drawer is to write by itself and has not written yet.  (The raw
\* text of a node with a form is written on demand only.)
Unwritten(n, timer) ==
    /\ selected = n
    /\ n \notin traced
    /\ \/ timer = "label" /\ draft.label.edit > content.label[n].edit
       \/ /\ timer = "schema" /\ n \in Schema
          /\ draft.schema.edit > content.config[n].edit
       \/ /\ timer = "json" /\ n \notin Schema /\ draft.readable
          /\ draft.json.edit > content.config[n].edit

\* Such an edit always has its timer running: no order of typing, applying and
\* ringing leaves an edit in the drawer for good (the three debounced watches).
EditsAreTimed == \A n \in Node, timer \in Timer : Unwritten(n, timer) => timer \in due

\* ... and so it is written in the end, or the drawer is turned to another node
\* first, in which case the edit is lost.
EditsLand == \A n \in Node, timer \in Timer : Unwritten(n, timer) ~> ~Unwritten(n, timer)

=============================================================================
