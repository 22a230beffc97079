-------------------------- MODULE FlowCanvasProofs --------------------------
(***************************************************************************)
(* What holds of the canvas for any documents and any ids: only a node     *)
(* inserted into an edge can leave an edge without its ends, a new node    *)
(* finds no edge of its own, inserting a node into an edge of the canvas   *)
(* leaves the order of the other nodes as it was, and without cycles every *)
(* node is reached from an entry node.                                     *)
(***************************************************************************)
EXTENDS FlowCanvas, FiniteSetTheorems, WellFoundedInduction, TLAPS

-----------------------------------------------------------------------------
\* The invariant: whatever the canvas or the picker still names was either in
\* a document or given by nanoid.

Known == DocNode \cup used

KnownInv ==
    /\ nodes \subseteq Known
    /\ \A e \in edges \cup onEdge : e.source \in Known /\ e.target \in Known
    /\ onHandle \subseteq Known

CanvasInv == CanvasTypeOK /\ KnownInv /\ DanglesOnlyByInsert

LEMMA DocEdgesJoin ==
    ASSUME NEW d \in Doc
    PROVE  /\ d.nodes \subseteq DocNode
           /\ DocEdges(d) \subseteq Edge
           /\ \A e \in DocEdges(d) : e.source \in d.nodes /\ e.target \in d.nodes
<1>1. /\ d.nodes \subseteq DocNode
      /\ d.pairs \in Seq(d.nodes \X d.nodes)
  BY CanvasAssumption
<1>2. ASSUME NEW i \in DOMAIN d.pairs
      PROVE  /\ d.pairs[i][1] \in d.nodes /\ d.pairs[i][2] \in d.nodes
             /\ i \in Nat
  BY <1>1
<1>3. QED
  BY <1>1, <1>2 DEF DocEdges, Edge, Node

LEMMA LinkTyping ==
    ASSUME NEW s \in Node, NEW t \in Node
    PROVE  /\ Link(s, t) \in Edge /\ Drag(s, t) \in Edge
           /\ Link(s, t).source = s /\ Link(s, t).target = t
           /\ Link(s, t).by = "insert"
           /\ Drag(s, t).source = s /\ Drag(s, t).target = t
BY DEF Link, Drag, Edge

-----------------------------------------------------------------------------
\* One lemma for each kind of step.

LEMMA InsertStep ==
    ASSUME CanvasInv, NEW n \in FreshNode, NEW e \in onEdge, InsertOnEdge(n, e)
    PROVE  CanvasInv'
<1> USE DEF CanvasInv, CanvasTypeOK, KnownInv, DanglesOnlyByInsert, JoinsNodes,
            Known, InsertOnEdge, ClosedPicker, Fresh
<1>1. /\ e \in Edge /\ n \in Node
      /\ e.source \in Node /\ e.target \in Node
  BY DEF Edge, Node
<1>2. /\ Link(e.source, n) \in Edge /\ Link(n, e.target) \in Edge
      /\ Link(e.source, n).source = e.source /\ Link(e.source, n).target = n
      /\ Link(n, e.target).source = n /\ Link(n, e.target).target = e.target
      /\ Link(e.source, n).by = "insert" /\ Link(n, e.target).by = "insert"
  BY <1>1, LinkTyping
<1>3. CanvasTypeOK'
  BY <1>1, <1>2
<1>4. KnownInv'
  BY <1>2
<1>5. DanglesOnlyByInsert'
  BY <1>2
<1>6. QED
  BY <1>3, <1>4, <1>5

LEMMA AppendStep ==
    ASSUME CanvasInv, NEW n \in FreshNode, NEW s \in onHandle, AddLinked(n, s)
    PROVE  CanvasInv'
<1> USE DEF CanvasInv, CanvasTypeOK, KnownInv, DanglesOnlyByInsert, JoinsNodes,
            Known, AddLinked, ClosedPicker, Fresh
<1>1. s \in Node /\ n \in Node
  BY DEF Node
<1>2. /\ Link(s, n) \in Edge
      /\ Link(s, n).source = s /\ Link(s, n).target = n
  BY <1>1, LinkTyping
<1>3. CanvasTypeOK'
  BY <1>1, <1>2
<1>4. KnownInv'
  BY <1>2
<1>5. DanglesOnlyByInsert'
  BY <1>2
<1>6. QED
  BY <1>3, <1>4, <1>5

LEMMA ConnectStep ==
    ASSUME CanvasInv, NEW s \in nodes, NEW t \in nodes, Connect(s, t)
    PROVE  CanvasInv'
<1> USE DEF CanvasInv, CanvasTypeOK, KnownInv, DanglesOnlyByInsert, JoinsNodes,
            Known, Connect, pickerVars
<1>1. /\ Drag(s, t) \in Edge
      /\ Drag(s, t).source = s /\ Drag(s, t).target = t
  BY LinkTyping
<1>2. CanvasTypeOK'
  BY <1>1
<1>3. KnownInv'
  BY <1>1
<1>4. DanglesOnlyByInsert'
  BY <1>1
<1>5. QED
  BY <1>2, <1>3, <1>4

LEMMA DeleteStep ==
    ASSUME CanvasInv, NEW n \in nodes, DeleteNode(n) \/ KeyDeleteNode(n)
    PROVE  CanvasInv'
BY DEF CanvasInv, CanvasTypeOK, KnownInv, DanglesOnlyByInsert, JoinsNodes,
       Known, DeleteNode, KeyDeleteNode, ClosedPicker, pickerVars, Touches

LEMMA ApplyStep ==
    ASSUME CanvasInv, NEW w \in Way, NEW d \in Doc, ApplyDocument(w, d)
    PROVE  CanvasInv'
<1> USE DEF CanvasInv, CanvasTypeOK, KnownInv, DanglesOnlyByInsert, JoinsNodes,
            Known, ApplyDocument, pickerVars
<1>1. /\ d.nodes \subseteq DocNode
      /\ DocEdges(d) \subseteq Edge
      /\ \A e \in DocEdges(d) : e.source \in d.nodes /\ e.target \in d.nodes
  BY DocEdgesJoin
<1>2. CanvasTypeOK'
  BY <1>1 DEF Node
<1>3. KnownInv'
  BY <1>1
<1>4. DanglesOnlyByInsert'
  BY <1>1
<1>5. QED
  BY <1>2, <1>3, <1>4

\* The steps that draw nothing.
LEMMA PickerStep ==
    ASSUME CanvasInv,
           \/ OpenPicker \/ ClosePicker \/ ClearCanvas
           \/ \E e \in edges : RequestOnEdge(e)
           \/ \E n \in nodes : RequestOnHandle(n)
           \/ \E s \in onHandle : SourceIsGone(s)
           \/ \E e \in edges : KeyDeleteEdge(e)
           \/ \E n \in FreshNode : AddNode(n)
           \/ \E w \in Way, d \in Doc : AskFor(w, d)
           \/ \E w \in Way : DocumentFails(w)
    PROVE  CanvasInv'
<1> USE DEF CanvasInv, CanvasTypeOK, KnownInv, DanglesOnlyByInsert, JoinsNodes,
            Known, ClosedPicker, pickerVars
<1>1. CASE OpenPicker \/ ClosePicker \/ ClearCanvas
  BY <1>1 DEF OpenPicker, ClosePicker, ClearCanvas
<1>2. CASE \E e \in edges : RequestOnEdge(e)
  BY <1>2 DEF RequestOnEdge
<1>3. CASE \E n \in nodes : RequestOnHandle(n)
  BY <1>3 DEF RequestOnHandle
<1>4. CASE \E s \in onHandle : SourceIsGone(s)
  BY <1>4 DEF SourceIsGone
<1>5. CASE \E e \in edges : KeyDeleteEdge(e)
  BY <1>5 DEF KeyDeleteEdge
<1>6. CASE \E n \in FreshNode : AddNode(n)
  BY <1>6 DEF AddNode, Fresh, Node
<1>7. CASE \E w \in Way, d \in Doc : AskFor(w, d)
  BY <1>7 DEF AskFor
<1>8. CASE \E w \in Way : DocumentFails(w)
  BY <1>8 DEF DocumentFails
<1>9. QED
  BY <1>1, <1>2, <1>3, <1>4, <1>5, <1>6, <1>7, <1>8

LEMMA CanvasInvInit == CanvasInit => CanvasInv
BY DEF CanvasInit, CanvasInv, CanvasTypeOK, KnownInv, DanglesOnlyByInsert

LEMMA CanvasInvStep == CanvasInv /\ [CanvasNext]_canvasVars => CanvasInv'
<1> SUFFICES ASSUME CanvasInv, [CanvasNext]_canvasVars PROVE CanvasInv'
  OBVIOUS
<1>1. CASE UNCHANGED canvasVars
  BY <1>1 DEF canvasVars, CanvasInv, CanvasTypeOK, KnownInv, Known,
              DanglesOnlyByInsert, JoinsNodes
<1>2. CASE CanvasNext
  BY <1>2, InsertStep, AppendStep, ConnectStep, DeleteStep, ApplyStep, PickerStep
     DEF CanvasNext
<1>3. QED
  BY <1>1, <1>2

THEOREM CanvasInvariant == CanvasSpec => []CanvasInv
BY CanvasInvInit, CanvasInvStep, PTL DEF CanvasSpec

\* The state of the canvas keeps its type.
THEOREM CanvasTypeCorrect == CanvasSpec => []CanvasTypeOK
<1>1. CanvasInv => CanvasTypeOK
  BY DEF CanvasInv
<1>2. QED
  BY <1>1, CanvasInvariant, PTL

\* Only a node inserted into an edge leaves an edge without its nodes.
THEOREM OnlyInsertDangles == CanvasSpec => []DanglesOnlyByInsert
<1>1. CanvasInv => DanglesOnlyByInsert
  BY DEF CanvasInv
<1>2. QED
  BY <1>1, CanvasInvariant, PTL

\* No edge waits for a node that is not yet there.
THEOREM NewNodesFindNoEdge == CanvasSpec => []NewNodesAreApart
<1>1. CanvasInv => NewNodesAreApart
  BY CanvasAssumption DEF CanvasInv, KnownInv, Known, NewNodesAreApart, Touches
<1>2. QED
  BY <1>1, CanvasInvariant, PTL

-----------------------------------------------------------------------------
\* The order of the nodes.

\* A node on an edge: what was reached is reached through it, and no more.
LEMMA NodeOnEdge ==
    ASSUME NEW ns, NEW es, NEW e \in es, NEW n, n \notin ns, NEW l1, NEW l2,
           l1.source = e.source, l1.target = n,
           l2.source = n, l2.target = e.target,
           \A f \in es : f.source # n /\ f.target # n,
           NEW a \in ns, NEW b \in ns
    PROVE  Reaches(ns, es, a, b) <=>
             Reaches(ns \cup {n}, (es \ {e}) \cup {l1, l2}, a, b)
<1> DEFINE ms == ns \cup {n}
           fs == (es \ {e}) \cup {l1, l2}
           Closed(vs, gs, S) == \A g \in gs : g.source \in S /\ g.target \in vs
                                                => g.target \in S
<1>1. ASSUME Reaches(ns, es, a, b), NEW S \in SUBSET ms, a \in S, Closed(ms, fs, S)
      PROVE  b \in S
  <2>1. S \cap ns \in SUBSET ns /\ a \in S \cap ns
    BY <1>1
  <2>2. ASSUME NEW g \in es, g.source \in S \cap ns, g.target \in ns
        PROVE  g.target \in S \cap ns
    <3>1. CASE g # e
      BY <1>1, <2>2, <3>1
    <3>2. CASE g = e
      <4>1. l1 \in fs /\ l2 \in fs
        OBVIOUS
      <4>2. n \in S
        BY <1>1, <2>2, <3>2, <4>1
      <4>3. e.target \in S
        BY <1>1, <2>2, <3>2, <4>1, <4>2
      <4>4. QED
        BY <2>2, <3>2, <4>3
    <3>3. QED
      BY <3>1, <3>2
  <2>3. b \in S \cap ns
    BY <1>1, <2>1, <2>2 DEF Reaches
  <2>4. QED
    BY <2>3
<1>2. ASSUME Reaches(ms, fs, a, b), NEW S \in SUBSET ns, a \in S, Closed(ns, es, S)
      PROVE  b \in S
  <2> DEFINE T == S \cup {m \in {n} : e.source \in S}
  <2>1. T \in SUBSET ms /\ a \in T
    BY <1>2
  <2>2. ASSUME NEW g \in fs, g.source \in T, g.target \in ms
        PROVE  g.target \in T
    <3>1. CASE g \in es \ {e}
      <4>1. g.source \in S /\ g.target \in ns
        BY <2>2, <3>1
      <4>2. QED
        BY <1>2, <3>1, <4>1
    <3>2. CASE g = l1
      <4>1. e.source \in S
        BY <2>2, <3>2
      <4>2. QED
        BY <3>2, <4>1
    <3>3. CASE g = l2
      <4>1. e.source \in S
        BY <1>2, <2>2, <3>3
      <4>2. e.target \in ns
        BY <2>2, <3>3
      <4>3. QED
        BY <1>2, <3>3, <4>1, <4>2
    <3>4. QED
      BY <3>1, <3>2, <3>3
  <2>3. b \in T
    BY <1>2, <2>1, <2>2 DEF Reaches
  <2>4. QED
    BY <2>3
<1>3. QED
  BY <1>1, <1>2 DEF Reaches

\* A step that inserts a node into an edge of the canvas changes the order of
\* no other two nodes.
LEMMA InsertKeepsOrderStep ==
    ASSUME CanvasInv, NEW n \in FreshNode, NEW e \in onEdge, InsertOnEdge(n, e),
           e \in edges, NEW a \in nodes, NEW b \in nodes
    PROVE  Reaches(nodes, edges, a, b) <=> Reaches(nodes', edges', a, b)
<1>1. /\ n \notin nodes
      /\ \A f \in edges : f.source # n /\ f.target # n
  BY CanvasAssumption DEF CanvasInv, KnownInv, Known, InsertOnEdge, Fresh
<1>2. e.source \in Node /\ e.target \in Node /\ n \in Node
  BY DEF CanvasInv, CanvasTypeOK, Edge, Node
<1>3. /\ Link(e.source, n).source = e.source /\ Link(e.source, n).target = n
      /\ Link(n, e.target).source = n /\ Link(n, e.target).target = e.target
  BY <1>2, LinkTyping
<1>4. /\ nodes' = nodes \cup {n}
      /\ edges' = (edges \ {e}) \cup {Link(e.source, n), Link(n, e.target)}
  BY DEF InsertOnEdge
<1>5. Reaches(nodes, edges, a, b) <=>
        Reaches(nodes \cup {n},
                (edges \ {e}) \cup {Link(e.source, n), Link(n, e.target)}, a, b)
  BY <1>1, <1>3, NodeOnEdge
<1>6. QED
  BY <1>4, <1>5

THEOREM InsertionKeepsOrder == CanvasSpec => InsertKeepsOrder
<1> DEFINE Kept == \A n \in FreshNode, e \in onEdge :
                     InsertOnEdge(n, e) /\ e \in edges =>
                       \A a, b \in nodes :
                         Reaches(nodes, edges, a, b) <=> Reaches(nodes', edges', a, b)
<1>1. CanvasInv => Kept
  BY InsertKeepsOrderStep
<1>2. QED
  BY <1>1, CanvasInvariant, PTL DEF InsertKeepsOrder

-----------------------------------------------------------------------------
\* Where a run begins.

\* The canvas never has more nodes than can be counted.
FiniteCanvas == IsFiniteSet(nodes)

LEMMA CanvasIsFinite == CanvasSpec => []FiniteCanvas
<1>1. CanvasInit => FiniteCanvas
  BY FS_EmptySet DEF CanvasInit, FiniteCanvas
<1>2. FiniteCanvas /\ [CanvasNext]_canvasVars => FiniteCanvas'
  <2> SUFFICES ASSUME IsFiniteSet(nodes), [CanvasNext]_canvasVars
               PROVE  IsFiniteSet(nodes')
    BY DEF FiniteCanvas
  <2>1. \A n : IsFiniteSet(nodes \cup {n}) /\ IsFiniteSet(nodes \ {n})
    BY FS_AddElement, FS_RemoveElement
  <2>2. \A w \in Way, d \in Doc : ApplyDocument(w, d) => IsFiniteSet(nodes')
    BY CanvasAssumption DEF ApplyDocument
  <2>3. ClearCanvas => IsFiniteSet(nodes')
    BY FS_EmptySet DEF ClearCanvas
  <2>4. \/ nodes' = nodes
        \/ \E n : nodes' = nodes \cup {n} \/ nodes' = nodes \ {n}
        \/ ClearCanvas
        \/ \E w \in Way, d \in Doc : ApplyDocument(w, d)
    BY DEF CanvasNext, canvasVars, OpenPicker, RequestOnEdge, RequestOnHandle, ClosePicker,
       AddNode, InsertOnEdge, AddLinked, SourceIsGone, Connect, DeleteNode, KeyDeleteNode,
       KeyDeleteEdge, AskFor, DocumentFails
  <2>5. QED
    BY <2>1, <2>2, <2>3, <2>4
<1>3. QED
  BY <1>1, <1>2, PTL DEF CanvasSpec

\* Every non-empty set of numbers has a least one.
LEMMA LeastElement ==
    ASSUME NEW T \in SUBSET Nat, T # {}
    PROVE  \E x \in T : \A y \in T : x <= y
<1> DEFINE R == {p \in Nat \X Nat : p[1] < p[2]}
<1>1. IsWellFoundedOn(R, Nat)
  BY NatLessThanWellFounded, Zenon DEF OpToRel
<1>2. \E x \in T : \A y \in T : <<y, x>> \notin R
  <2> HIDE DEF R
  <2> QED
    BY <1>1, WFMin, Zenon
<1>3. \A x, y \in Nat : <<y, x>> \notin R => x <= y
  OBVIOUS
<1> HIDE DEF R
<1>4. QED
  BY <1>2, <1>3

\* Without cycles, every node has an entry node before it: of the nodes from
\* which it is reached, one that the fewest others reach is itself reached by
\* no edge.
LEMMA EntryBefore ==
    ASSUME NEW ns, NEW es, IsFiniteSet(ns), NoCycle(ns, es),
           \A e \in es : e.source \in ns /\ e.target \in ns,
           NEW n \in ns
    PROVE  \E r \in EntryNodes(ns, es) : Reaches(ns, es, r, n)
<1> DEFINE R(a, b) == Reaches(ns, es, a, b)
           P == {m \in ns : R(m, n)}
           Before(m) == {k \in ns : R(k, m)}
<1>1. /\ \A a \in ns : R(a, a)
      /\ \A a, b, c \in ns : R(a, b) /\ R(b, c) => R(a, c)
      /\ \A e \in es : R(e.source, e.target)
      /\ \A e \in es : ~R(e.target, e.source)
  <2>1. \A a \in ns : R(a, a)
    BY DEF Reaches
  <2>2. ASSUME NEW a \in ns, NEW b \in ns, NEW c \in ns, R(a, b), R(b, c)
        PROVE  R(a, c)
    BY <2>2 DEF Reaches
  <2>3. \A e \in es : R(e.source, e.target)
    BY DEF Reaches
  <2>4. \A e \in es : ~R(e.target, e.source)
    BY DEF NoCycle
  <2>5. QED
    BY <2>1, <2>2, <2>3, <2>4
<1> HIDE DEF R
<1>2. \A m \in ns : /\ IsFiniteSet(Before(m))
                    /\ Cardinality(Before(m)) \in Nat
  <2> SUFFICES ASSUME NEW m \in ns
               PROVE  IsFiniteSet(Before(m)) /\ Cardinality(Before(m)) \in Nat
    OBVIOUS
  <2>1. Before(m) \in SUBSET ns
    OBVIOUS
  <2> HIDE DEF Before
  <2>2. QED
    BY <2>1, FS_Subset, FS_CardinalityType
<1> DEFINE C == {Cardinality(Before(m)) : m \in P}
<1>3. C \in SUBSET Nat /\ C # {}
  <2>1. n \in P
    BY <1>1
  <2> HIDE DEF Before
  <2>2. QED
    BY <1>2, <2>1
<1>4. PICK c \in C : \A d \in C : c <= d
  <2> HIDE DEF C
  <2> QED
    BY <1>3, LeastElement
<1>5. PICK m \in P : c = Cardinality(Before(m))
  OBVIOUS
<1>6. ASSUME NEW e \in es, e.target = m
      PROVE  FALSE
  <2>1. e.source \in P
    BY <1>1, <1>5, <1>6
  <2>2. Before(e.source) \subseteq Before(m)
    BY <1>1, <1>5, <1>6
  <2>3. m \in Before(m) /\ m \notin Before(e.source)
    BY <1>1, <1>5, <1>6
  <2>4. Cardinality(Before(e.source)) \in C /\ e.source \in ns /\ m \in ns
    BY <1>5, <2>1
  <2> HIDE DEF Before, C
  <2>5. /\ Cardinality(Before(e.source)) <= Cardinality(Before(m))
        /\ Cardinality(Before(m)) = Cardinality(Before(e.source))
             => Before(m) = Before(e.source)
    BY <1>2, <2>2, <2>4, FS_Subset
  <2>6. Cardinality(Before(m)) <= Cardinality(Before(e.source))
    BY <1>4, <1>5, <2>4
  <2>7. Cardinality(Before(m)) = Cardinality(Before(e.source))
    BY <1>2, <2>4, <2>5, <2>6
  <2>8. QED
    BY <2>3, <2>5, <2>7
<1>7. m \in EntryNodes(ns, es)
  BY <1>5, <1>6 DEF EntryNodes
<1>8. QED
  BY <1>5, <1>7 DEF R

\* Every node of a cycle-free canvas is reached from the entry nodes sent with it,
\* however large the canvas and in whatever order it was drawn.
THEOREM EntriesReachEveryNode == CanvasSpec => []EntriesReachAll
<1>1. FiniteCanvas => EntriesReachAll
  BY EntryBefore DEF FiniteCanvas, EntriesReachAll, EdgesJoinNodes, JoinsNodes
<1>2. QED
  BY <1>1, CanvasIsFinite, PTL

=============================================================================
