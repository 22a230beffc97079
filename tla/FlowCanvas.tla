----------------------------- MODULE FlowCanvas -----------------------------
(***************************************************************************)
(* The graph a user draws (frontend/src/views/rag-workflow): flowNodes,    *)
(* flowEdges and the node picker, which is not modal: it stays open, with  *)
(* the place it was asked for, while the user or an answer of the server   *)
(* changes the canvas.  Every handler runs to its next await without an    *)
(* interruption, watchers included, so that a handler is an action.        *)
(* Positions, labels and hints are left out; contents are in               *)
(* WorkflowEditor.                                                         *)
(***************************************************************************)
EXTENDS Naturals, Sequences, FiniteSets

CONSTANTS
    DocNode,        \* ids of nodes in documents
    FreshNode,      \* the ids nanoid gives: each once
    Doc,            \* documents and templates: [nodes |-> set, pairs |-> list]
    MaxEdges        \* bound: no dragging of further edges

Node == DocNode \cup FreshNode

ASSUME CanvasAssumption ==
    /\ DocNode \cap FreshNode = {}
    /\ MaxEdges \in Nat
    /\ \A d \in Doc : /\ d.nodes \subseteq DocNode /\ IsFiniteSet(d.nodes)
                      /\ d.pairs \in Seq(d.nodes \X d.nodes)

\* An edge and its id: e_<source>_<target>_<i> in a document, vueflow__edge-...
\* when dragged, e_..._<suffix> beside an inserted node.
Edge == [by : {"doc", "drag", "insert"}, source : Node, target : Node, nth : Nat]

VARIABLES
    nodes, edges,   \* flowNodes, flowEdges
    used,           \* the ids nanoid has given
    pickerOpen,     \* nodePickerVisible
    onEdge,         \* paletteWorkflowCtx, mode "edge": {} or the edge
    onHandle,       \* paletteWorkflowCtx, mode "handle": {} or the source
    asked           \* the documents whose answer is awaited, by way of asking

canvasVars == <<nodes, edges, used, pickerOpen, onEdge, onHandle, asked>>
pickerVars == <<pickerOpen, onEdge, onHandle>>

Way == {"load", "template"}

CanvasInit ==
    /\ nodes = {}
    /\ edges = {}
    /\ used = {}
    /\ pickerOpen = FALSE
    /\ onEdge = {}
    /\ onHandle = {}
    /\ asked = [w \in Way |-> {}]

\* edgePairsToFlowEdges
DocEdges(d) ==
    { [by |-> "doc", source |-> d.pairs[i][1], target |-> d.pairs[i][2], nth |-> i] :
        i \in DOMAIN d.pairs }

Link(s, t) == [by |-> "insert", source |-> s, target |-> t, nth |-> 0]
Drag(s, t) == [by |-> "drag", source |-> s, target |-> t, nth |-> 0]

Touches(e, n) == e.source = n \/ e.target = n

-----------------------------------------------------------------------------
\* The picker.

ClosedPicker == pickerOpen' = FALSE /\ onEdge' = {} /\ onHandle' = {}

OpenPicker ==
    /\ pickerOpen' = TRUE
    /\ onEdge' = {}
    /\ onHandle' = {}
    /\ UNCHANGED <<nodes, edges, used, asked>>

\* onWorkflowPaletteRequest, from the "+" of an edge or of a node.
RequestOnEdge(e) ==
    /\ e \in edges
    /\ pickerOpen' = TRUE
    /\ onEdge' = {e}
    /\ onHandle' = {}
    /\ UNCHANGED <<nodes, edges, used, asked>>

RequestOnHandle(n) ==
    /\ n \in nodes
    /\ pickerOpen' = TRUE
    /\ onEdge' = {}
    /\ onHandle' = {n}
    /\ UNCHANGED <<nodes, edges, used, asked>>

ClosePicker ==
    /\ pickerOpen
    /\ ClosedPicker
    /\ UNCHANGED <<nodes, edges, used, asked>>

Fresh(n) == n \in FreshNode \ used

\* handlePaletteAddNode without a context: addNodeFromMeta.
AddNode(n) ==
    /\ pickerOpen
    /\ onEdge = {} /\ onHandle = {}
    /\ Fresh(n)
    /\ nodes' = nodes \cup {n}
    /\ used' = used \cup {n}
    /\ ClosedPicker
    /\ UNCHANGED <<edges, asked>>

\* insertNodeOnEdge: it looks neither for the edge nor for its ends.
InsertBehind(n, e) ==                 \* mutant: the second half is left out
    /\ pickerOpen
    /\ e \in onEdge
    /\ Fresh(n)
    /\ nodes' = nodes \cup {n}
    /\ edges' = (edges \ {e}) \cup {Link(e.source, n)}
    /\ used' = used \cup {n}
    /\ ClosedPicker
    /\ UNCHANGED asked
InsertOnEdge(n, e) ==
    /\ pickerOpen
    /\ e \in onEdge
    /\ Fresh(n)
    /\ nodes' = nodes \cup {n}
    /\ edges' = (edges \ {e}) \cup {Link(e.source, n), Link(n, e.target)}
    /\ used' = used \cup {n}
    /\ ClosedPicker
    /\ UNCHANGED asked

\* addNodeLinkedFromSource
AddLinked(n, s) ==
    /\ pickerOpen
    /\ s \in onHandle
    /\ s \in nodes
    /\ Fresh(n)
    /\ nodes' = nodes \cup {n}
    /\ edges' = edges \cup {Link(s, n)}
    /\ used' = used \cup {n}
    /\ ClosedPicker
    /\ UNCHANGED asked

SourceIsGone(s) ==
    /\ pickerOpen
    /\ s \in onHandle
    /\ s \notin nodes
    /\ ClosedPicker
    /\ UNCHANGED <<nodes, edges, used, asked>>

-----------------------------------------------------------------------------
\* Drawing and deleting.

\* connectNodes: addEdge drops a connection with the same ends and handles,
\* and only dragged edges have handles.
Connect(s, t) ==
    /\ s \in nodes /\ t \in nodes
    /\ Cardinality(edges) < MaxEdges
    /\ edges' = edges \cup {Drag(s, t)}
    /\ UNCHANGED <<nodes, used, pickerVars, asked>>

\* The button on a node's card: onNodeDeleteRequest.
DeleteTargetOnly(n) ==                \* mutant: only the edges into the node go
    /\ n \in nodes
    /\ nodes' = nodes \ {n}
    /\ edges' = {e \in edges : e.target # n}
    /\ ClosedPicker
    /\ UNCHANGED <<used, asked>>
DeleteNode(n) ==
    /\ n \in nodes
    /\ nodes' = nodes \ {n}
    /\ edges' = {e \in edges : ~Touches(e, n)}
    /\ ClosedPicker
    /\ UNCHANGED <<used, asked>>

\* The delete key: the canvas component removes what is selected, with the
\* edges of a node; the picker is not told.
KeyDeleteNode(n) ==
    /\ n \in nodes
    /\ nodes' = nodes \ {n}
    /\ edges' = {e \in edges : ~Touches(e, n)}
    /\ UNCHANGED <<used, pickerVars, asked>>

KeyDeleteEdge(e) ==
    /\ e \in edges
    /\ edges' = edges \ {e}
    /\ UNCHANGED <<nodes, used, pickerVars, asked>>

ResetIds ==                           \* mutant: ids start again on an empty canvas
    /\ nodes' = {}
    /\ edges' = {}
    /\ used' = {}
    /\ UNCHANGED <<pickerVars, asked>>
ClearCanvas ==
    /\ nodes' = {}
    /\ edges' = {}
    /\ UNCHANGED <<used, pickerVars, asked>>

-----------------------------------------------------------------------------
\* Documents.  The list of workflows is masked and the button of the template
\* dialog is disabled while an answer is awaited, so that there is one at a
\* time each way; the canvas can be edited meanwhile.

AskFor(w, d) ==
    /\ asked[w] = {}
    /\ asked' = [asked EXCEPT ![w] = {d}]
    /\ UNCHANGED <<nodes, edges, used, pickerVars>>

\* applyLoadedDocument, applyTemplateDocument
ApplyDocument(w, d) ==
    /\ d \in asked[w]
    /\ asked' = [asked EXCEPT ![w] = {}]
    /\ nodes' = d.nodes
    /\ edges' = DocEdges(d)
    /\ UNCHANGED <<used, pickerVars>>

DocumentFails(w) ==
    /\ asked[w] # {}
    /\ asked' = [asked EXCEPT ![w] = {}]
    /\ UNCHANGED <<nodes, edges, used, pickerVars>>

CanvasNext ==
    \/ OpenPicker
    \/ \E e \in edges : RequestOnEdge(e)
    \/ \E n \in nodes : RequestOnHandle(n)
    \/ ClosePicker
    \/ \E n \in FreshNode : AddNode(n)
    \/ \E n \in FreshNode, e \in onEdge : InsertOnEdge(n, e)
    \/ \E n \in FreshNode, s \in onHandle : AddLinked(n, s)
    \/ \E s \in onHandle : SourceIsGone(s)
    \/ \E s, t \in nodes : Connect(s, t)
    \/ \E n \in nodes : DeleteNode(n)
    \/ \E n \in nodes : KeyDeleteNode(n)
    \/ \E e \in edges : KeyDeleteEdge(e)
    \/ ClearCanvas
    \/ \E w \in Way, d \in Doc : AskFor(w, d)
    \/ \E w \in Way, d \in Doc : ApplyDocument(w, d)
    \/ \E w \in Way : DocumentFails(w)

CanvasSpec == CanvasInit /\ [][CanvasNext]_canvasVars

-----------------------------------------------------------------------------
\* What a run is sent: flowToRunPayload.

\* computeEntryNodeIds
NoOutgoing(ns, es) ==                 \* mutant: the other ends
    {n \in ns : \A e \in es : e.source # n}
EntryNodes(ns, es) == {n \in ns : \A e \in es : e.target # n}

JoinsNodes(e) == e.source \in nodes /\ e.target \in nodes

\* Every set of nodes that holds a and is closed under the edges holds b.
Reaches(ns, es, a, b) ==
    \A S \in SUBSET ns :
        (/\ a \in S
         /\ \A e \in es : e.source \in S /\ e.target \in ns => e.target \in S)
        => b \in S

NoCycle(ns, es) ==
    \A e \in es : e.source \in ns /\ e.target \in ns
                    => ~Reaches(ns, es, e.target, e.source)

-----------------------------------------------------------------------------
\* Properties.

CanvasTypeOK ==
    /\ nodes \subseteq Node
    /\ edges \subseteq Edge
    /\ used \subseteq FreshNode
    /\ pickerOpen \in BOOLEAN
    /\ onEdge \subseteq Edge
    /\ onHandle \subseteq Node
    /\ onEdge = {} \/ onHandle = {}
    /\ asked \in [Way -> SUBSET Doc]

\* An edge without both its nodes makes the server refuse the whole run.  It
\* can only come from a node inserted into an edge: deleting, clearing,
\* connecting, appending and loading leave none, whatever came between the
\* opening of the picker and the choice (connectNodes, addNodeLinkedFromSource,
\* onNodeDeleteRequest, applyLoadedDocument).
DanglesOnlyByInsert == \A e \in edges : JoinsNodes(e) \/ e.by = "insert"

\* The edge a node is inserted into joins two nodes, as the comment of
\* insertNodeOnEdge has it: an edge A->B is replaced by A->C and C->B.
EdgesJoinNodes == \A e \in edges : JoinsNodes(e)

\* Inserting a node into an edge of the canvas leaves the order of all other
\* nodes as it was (insertNodeOnEdge).
InsertKeepsOrder ==
    [][ \A n \in FreshNode, e \in onEdge :
          InsertOnEdge(n, e) /\ e \in edges =>
            \A a, b \in nodes :
              Reaches(nodes, edges, a, b) <=> Reaches(nodes', edges', a, b) ]_canvasVars

\* A new id is on no edge: nothing was drawn to a node before it was there,
\* and nothing of a deleted node's edges waits for it.
NewNodesAreApart == \A e \in edges : \A n \in FreshNode \ used : ~Touches(e, n)

\* Every node of a cycle-free canvas is reached from the entry nodes that are
\* sent with it (computeEntryNodeIds).
EntriesReachAll ==
    (EdgesJoinNodes /\ NoCycle(nodes, edges)) =>
      \A n \in nodes : \E r \in EntryNodes(nodes, edges) : Reaches(nodes, edges, r, n)

=============================================================================
