------------------------ MODULE WorkflowRunnerProofs ------------------------
(***************************************************************************)
(* The sort and the run loop keep their promises for every workflow: any   *)
(* number of nodes, any edge list, with repeated edges and self-loops, and *)
(* any outcome of any node.  The types, and the brackets of the trace,     *)
(* need nothing more; the rest needs node lists without repetition.        *)
(***************************************************************************)
EXTENDS WorkflowRunner, FiniteSetTheorems, SequenceTheorems, TLAPS

UniqueIdLists == \A s \in IdLists : IsInjective(s)

-----------------------------------------------------------------------------
\* Facts about sequences.

LEMMA ToSetType ==
    ASSUME NEW S, NEW s \in Seq(S)
    PROVE  /\ ToSet(s) \subseteq S
           /\ s \in Seq(ToSet(s))
           /\ IsFiniteSet(ToSet(s))
<1>1. /\ Len(s) \in Nat
      /\ DOMAIN s = 1 .. Len(s)
      /\ \A i \in 1 .. Len(s) : s[i] \in S
  BY LenProperties, ElementOfSeq
<1>2. ToSet(s) \subseteq S
  BY <1>1 DEF ToSet
<1>3. s \in [1 .. Len(s) -> ToSet(s)]
  BY <1>1, LenProperties DEF ToSet
<1>4. s \in Seq(ToSet(s))
  BY <1>1, <1>3
<1>5. IsFiniteSet(1 .. Len(s))
  BY <1>1, FS_Interval
<1>6. s \in Surjection(1 .. Len(s), ToSet(s))
  BY <1>1, <1>3 DEF Surjection, ToSet
<1>7. IsFiniteSet(ToSet(s))
  BY <1>5, <1>6, FS_Surjection
<1>8. QED
  BY <1>2, <1>4, <1>7

LEMMA AppendSet ==
    ASSUME NEW S, NEW s \in Seq(S), NEW e \in S
    PROVE  ToSet(Append(s, e)) = ToSet(s) \cup {e}
<1>1. /\ Append(s, e) \in Seq(S)
      /\ Len(Append(s, e)) = Len(s) + 1
      /\ Len(s) \in Nat
      /\ DOMAIN s = 1 .. Len(s)
      /\ DOMAIN Append(s, e) = 1 .. Len(s) + 1
      /\ \A i \in 1 .. Len(s) : Append(s, e)[i] = s[i]
      /\ Append(s, e)[Len(s) + 1] = e
  BY AppendProperties, LenProperties
<1>2. QED
  BY <1>1 DEF ToSet

LEMMA ConcatSet ==
    ASSUME NEW S, NEW s \in Seq(S), NEW t \in Seq(S)
    PROVE  ToSet(s \o t) = ToSet(s) \cup ToSet(t)
<1>1. /\ s \o t \in Seq(S)
      /\ Len(s \o t) = Len(s) + Len(t)
      /\ Len(s) \in Nat
      /\ Len(t) \in Nat
      /\ DOMAIN s = 1 .. Len(s)
      /\ DOMAIN t = 1 .. Len(t)
      /\ DOMAIN (s \o t) = 1 .. Len(s) + Len(t)
      /\ \A i \in 1 .. Len(s) + Len(t) :
           (s \o t)[i] = IF i <= Len(s) THEN s[i] ELSE t[i - Len(s)]
  BY ConcatProperties, LenProperties
<1>2. ASSUME NEW x \in ToSet(s \o t)
      PROVE  x \in ToSet(s) \cup ToSet(t)
  <2>1. PICK i \in 1 .. Len(s) + Len(t) : x = (s \o t)[i]
    BY <1>1 DEF ToSet
  <2>2. CASE i <= Len(s)
    BY <1>1, <2>1, <2>2 DEF ToSet
  <2>3. CASE ~(i <= Len(s))
    <3>1. i - Len(s) \in 1 .. Len(t) /\ x = t[i - Len(s)]
      BY <1>1, <2>1, <2>3
    <3>2. QED
      BY <1>1, <3>1 DEF ToSet
  <2>4. QED
    BY <2>2, <2>3
<1>3. ASSUME NEW x \in ToSet(s)
      PROVE  x \in ToSet(s \o t)
  BY <1>1 DEF ToSet
<1>4. ASSUME NEW x \in ToSet(t)
      PROVE  x \in ToSet(s \o t)
  <2>1. PICK i \in 1 .. Len(t) : x = t[i]
    BY <1>1 DEF ToSet
  <2>2. /\ i + Len(s) \in 1 .. Len(s) + Len(t)
        /\ (s \o t)[i + Len(s)] = x
    BY <1>1, <2>1
  <2>3. QED
    BY <1>1, <2>2 DEF ToSet
<1>5. QED
  BY <1>2, <1>3, <1>4

\* Taking the head off a queue without repetitions takes it out for good.
LEMMA TailSet ==
    ASSUME NEW S, NEW s \in Seq(S), s # <<>>, IsInjective(s)
    PROVE  /\ ToSet(Tail(s)) = ToSet(s) \ {Head(s)}
           /\ IsInjective(Tail(s))
           /\ Head(s) \in ToSet(s)
<1>1. /\ Tail(s) \in Seq(S)
      /\ Len(Tail(s)) = Len(s) - 1
      /\ \A i \in 1 .. Len(Tail(s)) : Tail(s)[i] = s[i + 1]
      /\ Len(s) \in Nat \ {0}
      /\ DOMAIN s = 1 .. Len(s)
      /\ DOMAIN Tail(s) = 1 .. Len(s) - 1
      /\ Head(s) = s[1]
  BY HeadTailProperties, LenProperties, EmptySeq
<1>2. ASSUME NEW x \in ToSet(Tail(s))
      PROVE  x \in ToSet(s) \ {Head(s)}
  <2>1. PICK i \in 1 .. Len(s) - 1 : x = s[i + 1]
    BY <1>1 DEF ToSet
  <2>2. i + 1 \in 1 .. Len(s) /\ i + 1 # 1
    BY <1>1, <2>1
  <2>3. QED
    BY <1>1, <2>1, <2>2 DEF ToSet, IsInjective
<1>3. ASSUME NEW x \in ToSet(s) \ {Head(s)}
      PROVE  x \in ToSet(Tail(s))
  <2>1. PICK i \in 1 .. Len(s) : x = s[i]
    BY <1>1 DEF ToSet
  <2>2. i # 1
    BY <1>1, <2>1
  <2>3. i - 1 \in 1 .. Len(s) - 1 /\ Tail(s)[i - 1] = x
    BY <1>1, <2>1, <2>2
  <2>4. QED
    BY <1>1, <2>3 DEF ToSet
<1>4. IsInjective(Tail(s))
  <2>1. ASSUME NEW a \in 1 .. Len(s) - 1, NEW b \in 1 .. Len(s) - 1,
               s[a + 1] = s[b + 1]
        PROVE  a = b
    <3>1. a + 1 \in 1 .. Len(s) /\ b + 1 \in 1 .. Len(s)
      BY <1>1
    <3>2. a + 1 = b + 1
      BY <1>1, <2>1, <3>1 DEF IsInjective
    <3>3. QED
      BY <3>2
  <2>2. QED
    BY <1>1, <2>1 DEF IsInjective
<1>5. Head(s) \in ToSet(s)
  BY <1>1 DEF ToSet
<1>6. QED
  BY <1>2, <1>3, <1>4, <1>5

LEMMA AppendInjectivity ==
    ASSUME NEW S, NEW s \in Seq(S), NEW e \in S, IsInjective(s), e \notin ToSet(s)
    PROVE  IsInjective(Append(s, e))
<1>1. /\ Len(s) \in Nat
      /\ DOMAIN s = 1 .. Len(s)
      /\ DOMAIN Append(s, e) = 1 .. Len(s) + 1
      /\ \A i \in 1 .. Len(s) : Append(s, e)[i] = s[i]
      /\ Append(s, e)[Len(s) + 1] = e
  BY AppendProperties, LenProperties
<1>2. \A i \in 1 .. Len(s) : s[i] # e
  BY <1>1 DEF ToSet
<1>3. \A i \in 1 .. Len(s) + 1 : i \in 1 .. Len(s) \/ i = Len(s) + 1
  BY <1>1
<1>4. QED
  BY <1>1, <1>2, <1>3 DEF IsInjective

LEMMA ConcatInjectivity ==
    ASSUME NEW S, NEW s \in Seq(S), NEW t \in Seq(S),
           IsInjective(s), IsInjective(t), ToSet(s) \cap ToSet(t) = {}
    PROVE  IsInjective(s \o t)
<1>1. /\ Len(s) \in Nat
      /\ Len(t) \in Nat
      /\ DOMAIN s = 1 .. Len(s)
      /\ DOMAIN t = 1 .. Len(t)
      /\ DOMAIN (s \o t) = 1 .. Len(s) + Len(t)
      /\ \A i \in 1 .. Len(s) + Len(t) :
           (s \o t)[i] = IF i <= Len(s) THEN s[i] ELSE t[i - Len(s)]
  BY ConcatProperties, LenProperties
<1>2. \A i \in 1 .. Len(s), j \in 1 .. Len(t) : s[i] # t[j]
  BY <1>1 DEF ToSet
<1>3. SUFFICES ASSUME NEW a \in 1 .. Len(s) + Len(t), NEW b \in 1 .. Len(s) + Len(t),
                      (s \o t)[a] = (s \o t)[b]
               PROVE  a = b
  BY <1>1 DEF IsInjective
<1>4. CASE a <= Len(s) /\ b <= Len(s)
  BY <1>1, <1>3, <1>4 DEF IsInjective
<1>5. CASE ~(a <= Len(s)) /\ ~(b <= Len(s))
  <2>1. a - Len(s) \in 1 .. Len(t) /\ b - Len(s) \in 1 .. Len(t)
    BY <1>1, <1>5
  <2>2. t[a - Len(s)] = t[b - Len(s)]
    BY <1>1, <1>3, <1>5
  <2>3. a - Len(s) = b - Len(s)
    BY <1>1, <2>1, <2>2 DEF IsInjective
  <2>4. QED
    BY <1>1, <2>3
<1>6. CASE a <= Len(s) /\ ~(b <= Len(s))
  <2>1. a \in 1 .. Len(s) /\ b - Len(s) \in 1 .. Len(t)
    BY <1>1, <1>6
  <2>2. QED
    BY <1>1, <1>2, <1>3, <1>6, <2>1
<1>7. CASE ~(a <= Len(s)) /\ b <= Len(s)
  <2>1. b \in 1 .. Len(s) /\ a - Len(s) \in 1 .. Len(t)
    BY <1>1, <1>7
  <2>2. QED
    BY <1>1, <1>2, <1>3, <1>7, <2>1
<1>8. QED
  BY <1>4, <1>5, <1>6, <1>7

\* A sequence without repetitions is as long as its set of elements is large.
LEMMA InjectiveLength ==
    ASSUME NEW S, NEW s \in Seq(S), IsInjective(s)
    PROVE  Cardinality(ToSet(s)) = Len(s)
<1>1. Len(s) \in Nat /\ DOMAIN s = 1 .. Len(s)
  BY LenProperties
<1>2. s \in [1 .. Len(s) -> ToSet(s)]
  BY <1>1, LenProperties DEF ToSet
<1>3. s \in Surjection(1 .. Len(s), ToSet(s)) /\ s \in Injection(1 .. Len(s), ToSet(s))
  BY <1>1, <1>2 DEF Surjection, Injection, ToSet, IsInjective
<1>4. IsFiniteSet(1 .. Len(s)) /\ Cardinality(1 .. Len(s)) = Len(s)
  BY <1>1, FS_Interval
<1>5. Cardinality(ToSet(s)) = Cardinality(1 .. Len(s))
  BY <1>3, <1>4, FS_Surjection
<1>6. QED
  BY <1>4, <1>5

\* A listing that names each element of S once, and nothing else, is injective.
LEMMA ListingOnce ==
    ASSUME NEW S, NEW n \in Nat, NEW copies, \A x \in S : copies[x] = 1,
           NEW z \in SortedListings(S, n, copies)
    PROVE  /\ z \in Seq(S)
           /\ ToSet(z) = S
           /\ IsInjective(z)
<1>1. PICK m \in 0 .. n : z \in [1 .. m -> S]
  BY DEF SortedListings, BoundedSeq, SeqOf
<1>2. z \in Seq(S) /\ Len(z) = m /\ DOMAIN z = 1 .. m
  BY <1>1
<1>3. \A x \in S : Cardinality({i \in 1 .. m : z[i] = x}) = 1
  BY <1>2 DEF SortedListings, Occurrences
<1>4. IsFiniteSet(1 .. m)
  BY <1>1, FS_Interval
<1>5. ASSUME NEW x \in S
      PROVE  \E i \in 1 .. m : {j \in 1 .. m : z[j] = x} = {i}
  <2> DEFINE P == {j \in 1 .. m : z[j] = x}
  <2>1. IsFiniteSet(P) /\ Cardinality(P) = 1
    BY <1>3, <1>4, FS_Subset
  <2>2. PICK i : P = {i}
    BY <2>1, FS_Singleton
  <2>3. QED
    BY <2>2
<1>6. ToSet(z) = S
  BY <1>1, <1>2, <1>5 DEF ToSet
<1>7. ASSUME NEW a \in 1 .. m, NEW b \in 1 .. m, z[a] = z[b]
      PROVE  a = b
  <2>1. z[a] \in S
    BY <1>1
  <2>2. PICK i \in 1 .. m : {j \in 1 .. m : z[j] = z[a]} = {i}
    BY <1>5, <2>1
  <2>3. QED
    BY <1>7, <2>2
<1>8. QED
  BY <1>2, <1>6, <1>7 DEF IsInjective

\* Every position at which a sequence without repetitions lists x is the same.
LEMMA OccursOnce ==
    ASSUME NEW S, NEW s \in Seq(S), IsInjective(s), NEW x \in ToSet(s)
    PROVE  Occurrences(s, x) = 1
<1>1. PICK i \in DOMAIN s : s[i] = x
  BY DEF ToSet
<1>2. {j \in DOMAIN s : s[j] = x} = {i}
  BY <1>1 DEF IsInjective
<1>3. QED
  BY <1>2, FS_Singleton DEF Occurrences

-----------------------------------------------------------------------------
\* Type correctness of the sort.

LEMMA InDegreeType ==
    ASSUME SortTypeOK, NEW u, NEW v
    PROVE  /\ IsFiniteSet(DOMAIN edges)
           /\ InDegree(v) \in Nat
           /\ Multiplicity(u, v) \in Nat
<1>1. DOMAIN edges = 1 .. Len(edges) /\ Len(edges) \in Nat
  BY LenProperties DEF SortTypeOK
<1>2. IsFiniteSet(DOMAIN edges)
  BY <1>1, FS_Interval
<1>3. /\ IsFiniteSet({k \in DOMAIN edges : edges[k][2] = v})
      /\ IsFiniteSet({k \in DOMAIN edges : edges[k] = <<u, v>>})
  BY <1>2, FS_Subset
<1>4. QED
  BY <1>2, <1>3, FS_CardinalityType DEF InDegree, Multiplicity

THEOREM SortTyping == SortSpec => []SortTypeOK
<1>1. SortInit => SortTypeOK
  <2> SUFFICES ASSUME SortInit PROVE SortTypeOK
    OBVIOUS
  <2>1. ids \in Seq(Node) /\ edges \in Seq(Node \X Node)
    BY RequestAssumption DEF SortInit
  <2>2. <<>> \in Seq(Ids)
    BY EmptySeq
  <2>3. QED
    BY <2>1, <2>2 DEF SortInit, SortTypeOK
<1>2. SortTypeOK /\ [SortNext]_sortVars => SortTypeOK'
  <2> SUFFICES ASSUME SortTypeOK, [SortNext]_sortVars PROVE SortTypeOK'
    OBVIOUS
  <2>1. CASE RejectUnknownEndpoint
    BY <2>1 DEF RejectUnknownEndpoint, SortTypeOK, Ids
  <2>2. CASE RejectNoRoot
    <3>1. \A v \in Ids : InDegree(v) \in Int
      BY InDegreeType
    <3>2. QED
      BY <2>2, <3>1 DEF RejectNoRoot, SortTypeOK, Ids
  <2>3. CASE EnqueueRoots
    <3>1. \A v \in Ids : InDegree(v) \in Int
      BY InDegreeType
    <3>2. PICK m \in 0 .. Len(ids) : q' \in [1 .. m -> Roots]
      BY <2>3 DEF EnqueueRoots, SortedListings, BoundedSeq, SeqOf
    <3>3. q' \in Seq(Ids)
      <4>1. m \in Nat
        BY <3>2
      <4>2. q' \in [1 .. m -> Ids]
        BY <3>2 DEF Roots
      <4>3. QED
        BY <4>1, <4>2
    <3>4. QED
      BY <2>3, <3>1, <3>3 DEF EnqueueRoots, SortTypeOK, Ids
  <2>4. CASE VisitNext
    <3> DEFINE u == Head(q)
    <3>1. q # <<>> /\ u \in Ids /\ Tail(q) \in Seq(Ids)
      BY <2>4, HeadTailProperties DEF VisitNext, SortTypeOK
    <3>2. \A v \in Ids : indeg[v] - Multiplicity(u, v) \in Int
      BY InDegreeType DEF SortTypeOK
    <3>3. PICK r \in SortedListings(Released(u), Cardinality(Released(u)),
                                    [v \in Released(u) |-> 1]) :
            q' = Tail(q) \o r
      BY <2>4 DEF VisitNext
    <3>4. r \in Seq(Ids)
      <4>1. PICK m \in 0 .. Cardinality(Released(u)) : r \in [1 .. m -> Released(u)]
        BY <3>3 DEF SortedListings, BoundedSeq, SeqOf
      <4>2. m \in Nat
        BY <4>1
      <4>3. r \in [1 .. m -> Ids]
        BY <4>1 DEF Released
      <4>4. QED
        BY <4>2, <4>3
    <3>5. q' \in Seq(Ids)
      BY <3>1, <3>3, <3>4, ConcatProperties
    <3>6. order' \in Seq(Ids)
      BY <2>4, <3>1, AppendProperties DEF VisitNext, SortTypeOK
    <3>7. QED
      BY <2>4, <3>2, <3>5, <3>6 DEF VisitNext, SortTypeOK, Ids
  <2>5. CASE FinishSort
    BY <2>5 DEF FinishSort, SortTypeOK, Ids
  <2>6. CASE UNCHANGED sortVars
    BY <2>6 DEF sortVars, SortTypeOK, Ids
  <2>7. QED
    BY <2>1, <2>2, <2>3, <2>4, <2>5, <2>6 DEF SortNext
<1>3. QED
  BY <1>1, <1>2, PTL DEF SortSpec

-----------------------------------------------------------------------------
\* The inductive invariant.  The node list never changes, so that it has no
\* repetition is one too.

SortedInv == SortTypeOK /\ IsInjective(ids) /\ SortInv

\* The positions of the edges are finitely many.
LEMMA OpenEdgesFinite ==
    ASSUME SortTypeOK, NEW v
    PROVE  IsFiniteSet(OpenEdges(v)) /\ Cardinality(OpenEdges(v)) \in Nat
<1>1. IsFiniteSet(DOMAIN edges)
  BY InDegreeType
<1>2. OpenEdges(v) \subseteq DOMAIN edges
  BY DEF OpenEdges
<1>3. QED
  BY <1>1, <1>2, FS_Subset, FS_CardinalityType

\* An edge is a pair of nodes of the workflow, and there is one per parent.
LEMMA EdgeShape ==
    ASSUME SortTypeOK, ~HasUnknownEndpoint
    PROVE  /\ \A k \in DOMAIN edges : /\ edges[k] = <<edges[k][1], edges[k][2]>>
                                      /\ edges[k][1] \in Ids
                                      /\ edges[k][2] \in Ids
                                      /\ edges[k][1] \in Parents(edges[k][2])
           /\ \A v, p : p \in Parents(v) =>
                \E k \in DOMAIN edges : edges[k] = <<p, v>>
<1>1. DOMAIN edges = 1 .. Len(edges) /\ \A k \in DOMAIN edges : edges[k] \in Node \X Node
  BY LenProperties, ElementOfSeq DEF SortTypeOK
<1>2. \A k \in DOMAIN edges : edges[k][1] \in Ids /\ edges[k][2] \in Ids
  BY DEF HasUnknownEndpoint, ToSet
<1>3. QED
  BY <1>1, <1>2 DEF Parents, ToSet

\* What depends on the request only stays as it is.
LEMMA SameGraph ==
    ASSUME UNCHANGED <<ids, edges>>
    PROVE  /\ Ids' = Ids
           /\ \A n : Parents(n)' = Parents(n)
           /\ HasUnknownEndpoint' <=> HasUnknownEndpoint
           /\ Cyclic' <=> Cyclic
           /\ Orderable' <=> Orderable
<1>1. Ids' = Ids
  BY DEF Ids
<1>2. \A n : Parents(n)' = Parents(n)
  BY DEF Parents
<1>3. HasUnknownEndpoint' <=> HasUnknownEndpoint
  BY <1>1 DEF HasUnknownEndpoint
<1>4. Cyclic' <=> Cyclic
  BY <1>1, <1>2 DEF Cyclic
<1>5. Orderable' <=> Orderable
  BY <1>1, <1>3, <1>4 DEF Orderable
<1>6. QED
  BY <1>1, <1>2, <1>3, <1>4, <1>5

LEMMA SameVisits ==
    ASSUME Visiting, UNCHANGED <<ids, edges, indeg, q, order>>
    PROVE  Visiting'
<1>1. Ids' = Ids /\ \A n : Parents(n)' = Parents(n)
  BY SameGraph
<1>2. NoRepetition'
  BY DEF Visiting, NoRepetition
<1>3. CountsAreExact'
  <2>1. \A v : OpenEdges(v)' = OpenEdges(v)
    BY DEF OpenEdges
  <2>2. QED
    BY <1>1, <2>1 DEF Visiting, CountsAreExact
<1>4. ParentsComeEarlier'
  BY <1>1 DEF Visiting, ParentsComeEarlier
<1>5. NoCycleVisited'
  BY <1>1 DEF Visiting, NoCycleVisited
<1>6. QED
  BY <1>2, <1>3, <1>4, <1>5 DEF Visiting

\* The roots, each listed once, are the nodes without open edges.
LEMMA EnqueueRootsKeeps ==
    ASSUME SortedInv, EnqueueRoots
    PROVE  Visiting'
<1>1. order = <<>> /\ order' = <<>> /\ ids' = ids /\ edges' = edges
  BY DEF SortedInv, SortInv, EnqueueRoots
<1>2. ToSet(order') = {}
  BY <1>1 DEF ToSet
<1>3. \A v \in Roots : [x \in Roots |-> Occurrences(ids, x)][v] = 1
  BY OccursOnce DEF SortedInv, SortTypeOK, Roots, Ids
<1>4. Len(ids) \in Nat
  BY LenProperties DEF SortedInv, SortTypeOK
<1>5. ToSet(q') = Roots /\ IsInjective(q')
  BY <1>3, <1>4, ListingOnce DEF EnqueueRoots
<1>6. NoRepetition'
  BY <1>1, <1>2, <1>5 DEF NoRepetition, IsInjective
<1>7. CountsAreExact'
  <2>1. \A v \in Ids : OpenEdges(v)' = {k \in DOMAIN edges : edges[k][2] = v}
    BY <1>1, <1>2 DEF OpenEdges
  <2>2. \A v \in Ids : indeg'[v] = InDegree(v)
    BY DEF EnqueueRoots
  <2>3. Ids' = Ids
    BY <1>1 DEF Ids
  <2>4. \A v \in Ids : v \in Roots <=> InDegree(v) = 0
    BY DEF Roots
  <2>5. QED
    BY <1>2, <1>5, <2>1, <2>2, <2>3, <2>4 DEF CountsAreExact, InDegree
<1>8. ParentsComeEarlier'
  BY <1>1 DEF ParentsComeEarlier
<1>9. NoCycleVisited'
  BY <1>2 DEF NoCycleVisited
<1>10. QED
  BY <1>6, <1>7, <1>8, <1>9 DEF Visiting

\* Visiting the head of the queue closes its outgoing edges, and queues exactly
\* the nodes whose last open edges these were.
LEMMA VisitKeeps ==
    ASSUME SortedInv, VisitNext
    PROVE  Visiting'
<1> DEFINE u == Head(q)
<1>1. /\ SortTypeOK
      /\ ~HasUnknownEndpoint
      /\ Visiting
      /\ q # <<>>
      /\ ids' = ids
      /\ edges' = edges
      /\ order' = Append(order, u)
      /\ indeg' = [v \in Ids |-> indeg[v] - Multiplicity(u, v)]
  BY DEF SortedInv, SortInv, VisitNext
<1>2. /\ u \in Ids
      /\ Tail(q) \in Seq(Ids)
      /\ ToSet(Tail(q)) = ToSet(q) \ {u}
      /\ IsInjective(Tail(q))
      /\ u \in ToSet(q)
      /\ u \notin ToSet(order)
  BY <1>1, HeadTailProperties, TailSet DEF SortTypeOK, Visiting, NoRepetition
<1>3. PICK r \in SortedListings(Released(u), Cardinality(Released(u)),
                                [v \in Released(u) |-> 1]) :
        q' = Tail(q) \o r
  BY DEF VisitNext
<1>4. /\ r \in Seq(Ids)
      /\ ToSet(r) = Released(u)
      /\ IsInjective(r)
  <2>1. Released(u) \subseteq Ids
    BY DEF Released
  <2>2. IsFiniteSet(Ids)
    BY <1>1, ToSetType DEF SortTypeOK, Ids
  <2>3. Cardinality(Released(u)) \in Nat
    BY <2>1, <2>2, FS_Subset, FS_CardinalityType
  <2>4. /\ r \in Seq(Released(u))
        /\ ToSet(r) = Released(u)
        /\ IsInjective(r)
    BY <1>3, <2>3, ListingOnce
  <2>5. QED
    BY <2>1, <2>4, SeqMonotonic
<1>5. ToSet(order') = ToSet(order) \cup {u}
  BY <1>1, <1>2, AppendSet DEF SortTypeOK
<1>6. ToSet(q') = (ToSet(q) \ {u}) \cup Released(u)
  <2> HIDE DEF u
  <2>1. ToSet(Tail(q) \o r) = ToSet(Tail(q)) \cup ToSet(r)
    <3>1. Tail(q) \in Seq(Ids) /\ r \in Seq(Ids)
      BY <1>2, <1>4
    <3>2. QED
      BY <3>1, ConcatSet, Zenon
  <2>2. QED
    BY <1>2, <1>3, <1>4, <2>1
<1>7. \A v \in Ids : (v \in ToSet(order) \cup ToSet(q)) <=> indeg[v] = 0
  BY <1>1 DEF Visiting, CountsAreExact
<1>8. Released(u) \cap (ToSet(order) \cup ToSet(q)) = {}
  BY <1>7 DEF Released
<1>9. NoRepetition'
  <2>1. IsInjective(order')
    BY <1>1, <1>2, AppendInjectivity DEF SortTypeOK, Visiting, NoRepetition
  <2>2. IsInjective(q')
    BY <1>2, <1>3, <1>4, <1>8, ConcatInjectivity
  <2>3. ToSet(order) \cap ToSet(q) = {}
    BY <1>1 DEF Visiting, NoRepetition
  <2>4. ToSet(order') \cap ToSet(q') = {}
    BY <1>2, <1>5, <1>6, <1>8, <2>3
  <2>5. QED
    BY <2>1, <2>2, <2>4 DEF NoRepetition
<1>10. CountsAreExact'
  <2> SUFFICES ASSUME NEW v \in Ids
               PROVE  /\ indeg'[v] = Cardinality(OpenEdges(v)')
                      /\ v \in ToSet(order') \cup ToSet(q') <=> indeg'[v] = 0
    BY <1>1 DEF CountsAreExact, Ids
  <2> DEFINE A == OpenEdges(v)
             B == {k \in DOMAIN edges : edges[k] = <<u, v>>}
  <2>1. /\ indeg[v] = Cardinality(A)
        /\ IsFiniteSet(A)
        /\ Cardinality(A) \in Nat
    BY <1>1, OpenEdgesFinite DEF Visiting, CountsAreExact
  <2>2. B \subseteq A
    BY <1>2 DEF OpenEdges
  <2>3. /\ IsFiniteSet(B)
        /\ Cardinality(B) \in Nat
        /\ Cardinality(B) <= Cardinality(A)
        /\ A \cap B = B
    BY <2>1, <2>2, FS_Subset, FS_CardinalityType
  <2>4. OpenEdges(v)' = A \ B
    BY <1>1, <1>5, EdgeShape DEF OpenEdges
  <2>5. Cardinality(OpenEdges(v)') = Cardinality(A) - Cardinality(B)
    <3> HIDE DEF A, B
    <3>1. Cardinality(A \ B) = Cardinality(A) - Cardinality(A \cap B)
      BY <2>1, FS_Difference
    <3>2. QED
      BY <2>3, <2>4, <3>1
  <2>6. indeg'[v] = indeg[v] - Cardinality(B)
    BY <1>1 DEF Multiplicity
  <2>7. v \in Released(u) <=> indeg[v] \in 1 .. Cardinality(B)
    BY DEF Released, Multiplicity
  <2>8. v \in ToSet(order') \cup ToSet(q')
          <=> indeg[v] = 0 \/ v \in Released(u)
    BY <1>2, <1>5, <1>6, <1>7
  <2>9. QED
    BY <2>1, <2>3, <2>5, <2>6, <2>7, <2>8
<1>11. /\ DOMAIN order = 1 .. Len(order)
       /\ DOMAIN order' = 1 .. Len(order) + 1
       /\ Len(order) \in Nat
       /\ \A i \in 1 .. Len(order) : order'[i] = order[i]
       /\ order'[Len(order) + 1] = u
  BY <1>1, <1>2, AppendProperties, LenProperties DEF SortTypeOK
<1>12. Parents(u) \subseteq ToSet(order)
  <2> SUFFICES ASSUME NEW p \in Parents(u)
               PROVE  p \in ToSet(order)
    OBVIOUS
  <2>1. PICK k \in DOMAIN edges : edges[k] = <<p, u>>
    BY <1>1, EdgeShape
  <2>2. OpenEdges(u) = {}
    <3>1. Cardinality(OpenEdges(u)) = 0
      BY <1>1, <1>2, <1>7 DEF Visiting, CountsAreExact
    <3>2. QED
      BY <1>1, <3>1, OpenEdgesFinite, FS_EmptySet
  <2>3. QED
    BY <2>1, <2>2 DEF OpenEdges
<1>13. ParentsComeEarlier'
  <2> SUFFICES ASSUME NEW i \in 1 .. Len(order) + 1, NEW p \in Parents(order'[i])
               PROVE  \E j \in 1 .. i - 1 : order'[j] = p
    BY <1>1, <1>11 DEF ParentsComeEarlier, Parents
  <2>1. CASE i \in 1 .. Len(order)
    <3>1. PICK j \in 1 .. i - 1 : order[j] = p
      BY <1>1, <1>11, <2>1 DEF Visiting, ParentsComeEarlier
    <3>2. j \in 1 .. Len(order)
      BY <1>11, <2>1
    <3>3. QED
      BY <1>11, <3>1, <3>2
  <2>2. CASE i = Len(order) + 1
    <3>1. p \in ToSet(order)
      BY <1>11, <1>12, <2>2
    <3>2. PICK j \in 1 .. Len(order) : order[j] = p
      BY <1>11, <3>1 DEF ToSet
    <3>3. QED
      BY <1>11, <2>2, <3>2
  <2>3. QED
    BY <1>11, <2>1, <2>2
<1>14. NoCycleVisited'
  <2> SUFFICES ASSUME NEW S \in SUBSET Ids, \A n \in S : Parents(n) \cap S # {}
               PROVE  S \cap (ToSet(order) \cup {u}) = {}
    <3>1. Ids' = Ids /\ \A n : Parents(n)' = Parents(n)
      BY <1>1, SameGraph
    <3>2. QED
      BY <1>5, <3>1 DEF NoCycleVisited
  <2>1. S \cap ToSet(order) = {}
    BY <1>1 DEF Visiting, NoCycleVisited
  <2>2. u \notin S
    BY <1>12, <2>1
  <2>3. QED
    BY <2>1, <2>2
<1>15. QED
  BY <1>9, <1>10, <1>13, <1>14 DEF Visiting

\* The comparison of lengths tells the cyclic graphs from the others.
LEMMA LengthTestDecides ==
    ASSUME SortedInv, FinishSort
    PROVE  /\ RejectsOnlyUnorderable'
           /\ sorter' = "ordered" => ToSet(order') = Ids'
<1>1. /\ SortTypeOK
      /\ Ids # {}
      /\ ~HasUnknownEndpoint
      /\ Visiting
      /\ q = <<>>
      /\ sorter' = IF Len(order) = Len(ids) THEN "ordered" ELSE "rejected"
      /\ UNCHANGED <<ids, edges, order>>
  BY DEF SortedInv, SortInv, FinishSort, OrderIsComplete
<1>2. /\ ToSet(order) \subseteq Ids
      /\ IsFiniteSet(Ids)
      /\ Cardinality(Ids) = Len(ids)
      /\ Cardinality(ToSet(order)) = Len(order)
  BY <1>1, ToSetType, InjectiveLength
     DEF SortTypeOK, SortedInv, Ids, Visiting, NoRepetition
<1>3. CASE Len(order) = Len(ids)
  <2>1. ToSet(order) = Ids
    BY <1>2, <1>3, FS_Subset
  <2>2. ~Cyclic
    BY <1>1, <2>1 DEF Cyclic, Visiting, NoCycleVisited
  <2>3. Orderable'
    BY <1>1, <2>2, SameGraph DEF Orderable
  <2>4. Ids' = Ids
    BY <1>1, SameGraph
  <2>5. QED
    BY <1>1, <1>3, <2>1, <2>3, <2>4 DEF RejectsOnlyUnorderable
<1>4. CASE Len(order) # Len(ids)
  <2> DEFINE S == Ids \ ToSet(order)
  <2>1. S # {}
    <3>1. ToSet(order) # Ids
      BY <1>2, <1>4
    <3>2. QED
      BY <1>2, <3>1
  <2>2. ASSUME NEW n \in S
        PROVE  Parents(n) \cap S # {}
    <3>1. ToSet(q) = {}
      BY <1>1 DEF ToSet
    <3>2. OpenEdges(n) # {}
      BY <1>1, <2>2, <3>1, FS_EmptySet DEF Visiting, CountsAreExact
    <3>3. PICK k \in DOMAIN edges : edges[k][2] = n /\ edges[k][1] \notin ToSet(order)
      BY <3>2 DEF OpenEdges
    <3>4. QED
      BY <1>1, <3>3, EdgeShape
  <2>3. Cyclic
    BY <2>1, <2>2 DEF Cyclic
  <2>4. ~Orderable'
    BY <1>1, <2>3, SameGraph DEF Orderable
  <2>5. QED
    BY <1>1, <1>4, <2>4 DEF RejectsOnlyUnorderable
<1>5. QED
  BY <1>3, <1>4

LEMMA SortStepKeeps ==
    ASSUME SortedInv, [SortNext]_sortVars, SortTypeOK'
    PROVE  SortedInv'
<1>1. IsInjective(ids')
  BY DEF SortedInv, SortNext, sortVars, RejectUnknownEndpoint, RejectNoRoot,
         EnqueueRoots, VisitNext, FinishSort
<1>2. CASE RejectUnknownEndpoint
  BY <1>1, <1>2 DEF RejectUnknownEndpoint, SortedInv, SortInv,
     RejectsOnlyUnorderable, Orderable, HasUnknownEndpoint, Ids
<1>3. CASE RejectNoRoot
  <2>1. \A v \in Ids : Parents(v) \cap Ids # {}
    <3> SUFFICES ASSUME NEW v \in Ids
                 PROVE  Parents(v) \cap Ids # {}
      OBVIOUS
    <3>1. {k \in DOMAIN edges : edges[k][2] = v} # {}
      BY <1>3, FS_EmptySet DEF RejectNoRoot, Roots, InDegree
    <3>2. QED
      BY <1>3, <3>1, EdgeShape DEF RejectNoRoot, SortedInv
  <2>2. ~Orderable
    BY <2>1 DEF Orderable, Cyclic
  <2>3. ~Orderable'
    BY <1>3, <2>2, SameGraph DEF RejectNoRoot
  <2>4. QED
    BY <1>1, <1>3, <2>3 DEF RejectNoRoot, SortedInv, SortInv, RejectsOnlyUnorderable
<1>4. CASE EnqueueRoots
  <2>1. Visiting'
    BY <1>4, EnqueueRootsKeeps
  <2>2. /\ sorter' = "kahn"
        /\ Ids' # {}
        /\ ~HasUnknownEndpoint'
    BY <1>4 DEF EnqueueRoots, Roots, Ids, HasUnknownEndpoint
  <2>3. QED
    BY <1>1, <2>1, <2>2 DEF SortedInv, SortInv, RejectsOnlyUnorderable
<1>5. CASE VisitNext
  <2>1. Visiting'
    BY <1>5, VisitKeeps
  <2>2. /\ sorter' = "kahn"
        /\ Ids' # {}
        /\ ~HasUnknownEndpoint'
    BY <1>5 DEF VisitNext, SortedInv, SortInv, Ids, HasUnknownEndpoint
  <2>3. QED
    BY <1>1, <2>1, <2>2 DEF SortedInv, SortInv, RejectsOnlyUnorderable
<1>6. CASE FinishSort
  <2>1. RejectsOnlyUnorderable' /\ (sorter' = "ordered" => ToSet(order') = Ids')
    BY <1>6, LengthTestDecides
  <2>2. /\ sorter' \in {"ordered", "rejected"}
        /\ Ids' # {}
        /\ ~HasUnknownEndpoint'
    BY <1>6 DEF FinishSort, SortedInv, SortInv, Ids, HasUnknownEndpoint
  <2>3. Visiting'
    BY <1>6, SameVisits DEF FinishSort, SortedInv, SortInv
  <2>4. QED
    BY <1>1, <2>1, <2>2, <2>3 DEF SortedInv, SortInv
<1>7. CASE UNCHANGED sortVars
  BY <1>1, <1>7, SameGraph, SameVisits
     DEF sortVars, SortedInv, SortInv, RejectsOnlyUnorderable
<1>8. QED
  BY <1>2, <1>3, <1>4, <1>5, <1>6, <1>7 DEF SortNext

\* For node lists without repetition, _topological_order returns an order in
\* which parents come before children exactly when the graph has one, and
\* raises otherwise.
THEOREM SortCorrect ==
    ASSUME UniqueIdLists
    PROVE  SortSpec => []SortInv
<1>1. SortInit /\ SortTypeOK => SortedInv
  BY DEF UniqueIdLists, SortInit, SortedInv, SortInv, RejectsOnlyUnorderable
<1>2. SortedInv /\ SortTypeOK' /\ [SortNext]_sortVars => SortedInv'
  BY SortStepKeeps
<1>3. SortedInv => SortInv
  BY DEF SortedInv
<1>4. QED
  BY <1>1, <1>2, <1>3, SortTyping, PTL DEF SortSpec

-----------------------------------------------------------------------------
\* The run loop.


\* The loop awaits only nodes that the order has.
TypeInv ==
    /\ TypeOK
    /\ step \in {"pick", "await"} => sorter = "ordered"
    /\ step = "await" => cursor <= Len(order)

LEMMA OrderElements ==
    ASSUME TypeOK
    PROVE  /\ Len(order) \in Nat
           /\ DOMAIN order = 1 .. Len(order)
           /\ Ids \subseteq Node
           /\ \A i \in 1 .. Len(order) : order[i] \in Ids
           /\ cursor <= Len(order) => Current \in Node
<1>1. Ids \subseteq Node
  BY ToSetType DEF TypeOK, SortTypeOK, Ids
<1>2. /\ Len(order) \in Nat
      /\ DOMAIN order = 1 .. Len(order)
      /\ \A i \in 1 .. Len(order) : order[i] \in Ids
  BY LenProperties, ElementOfSeq DEF TypeOK, SortTypeOK
<1>3. cursor \in Nat \ {0}
  BY DEF TypeOK
<1>4. QED
  BY <1>1, <1>2, <1>3 DEF Current

LEMMA LegacyInputType ==
    ASSUME TypeOK, NEW n \in Node
    PROVE  LegacyInput(n) \in [kind : {"none", "initial", "single", "merged"},
                               from : SUBSET (Node \X Nat)]
<1> DEFINE k == IF InDegree(n) = 0 THEN "initial"
                ELSE IF InDegree(n) = 1 THEN "single" ELSE "merged"
           f == {<<p, writes[p]>> : p \in Parents(n)}
<1>1. LegacyInput(n) = [kind |-> k, from |-> f]
  BY Zenon DEF LegacyInput
<1>2. k \in {"none", "initial", "single", "merged"}
  OBVIOUS
<1>3. f \in SUBSET (Node \X Nat)
  <2>1. \A p \in Parents(n) : <<p, writes[p]>> \in Node \X Nat
    BY DEF TypeOK, Parents
  <2>2. QED
    BY <2>1
<1>4. QED
  <2> HIDE DEF k, f
  <2> QED BY <1>1, <1>2, <1>3

\* The sort never moves once the order is computed.
LEMMA SortIsOver ==
    ASSUME sorter = "ordered", Sort
    PROVE  FALSE
  BY DEF Sort, SortNext, RejectUnknownEndpoint, RejectNoRoot, EnqueueRoots,
         VisitNext, FinishSort

\* Every behaviour of the runner is one of the sort with stuttering after it.
LEMMA RunnerSorts == Spec => SortSpec
<1>1. Init => SortInit
  BY DEF Init
<1>2. [Next]_vars => [SortNext]_sortVars
  BY DEF Next, Advance, NodeReturns, Sort, RaiseRejected, StartRun, RejectNodeType,
         StartNode, FinishRun, NodeSucceeds, NodeReportsFailure, NodeRaises, Cancel,
         vars
<1>3. QED
  BY <1>1, <1>2, PTL DEF Spec, SortSpec

TraceEvents == {"workflow_started", "node_started", "node_output_written",
                "node_finished", "node_failed", "workflow_finished"} \X SUBSET Node

LEMMA TypeInvHolds == Spec => []TypeInv
<1>1. Init /\ SortTypeOK => TypeInv
  <2> SUFFICES ASSUME Init, SortTypeOK
               PROVE  TypeInv
    OBVIOUS
  <2>1. trace \in Seq(TraceEvents)
    BY DEF Init, RunnerInit
  <2>2. QED
    BY <2>1 DEF Init, RunnerInit, TypeInv, TypeOK, TraceEvents, NodePhases, RunPhases,
                Outcomes, NoInput
<1>2. TypeInv /\ SortTypeOK' /\ [Next]_vars => TypeInv'
  <2> SUFFICES ASSUME TypeInv, SortTypeOK', [Next]_vars
               PROVE  TypeInv'
    OBVIOUS
  <2>0. /\ TypeOK
        /\ trace \in Seq(TraceEvents)
    BY DEF TypeInv, TypeOK, TraceEvents
  <2>a. ASSUME NEW e \in TraceEvents
        PROVE  Append(trace, e) \in Seq(TraceEvents)
    BY <2>0, <2>a, AppendProperties
  <2>b. ASSUME NEW e \in TraceEvents, NEW f \in TraceEvents
        PROVE  trace \o <<e, f>> \in Seq(TraceEvents)
    BY <2>0, <2>b
  <2>c. cursor <= Len(order) =>
          /\ Current \in Node
          /\ \A t \in {"node_started", "node_output_written", "node_finished",
                       "node_failed"} : <<t, {Current}>> \in TraceEvents
    BY <2>0, OrderElements DEF TraceEvents
  <2>1. CASE Sort
    BY <2>1, SortIsOver DEF Sort, TypeInv, TypeOK, runVars
  <2>2. CASE RaiseRejected
    BY <2>2 DEF RaiseRejected, TypeInv, TypeOK, sortVars, Outcomes
  <2>3. CASE StartRun
    <3>1. trace' \in Seq(TraceEvents)
      BY <2>3, <2>a DEF StartRun, TraceEvents
    <3>2. QED
      BY <2>3, <3>1 DEF StartRun, TypeInv, TypeOK, sortVars, RunPhases, TraceEvents
  <2>4. CASE RejectNodeType
    BY <2>4, <2>c DEF RejectNodeType, ReturnFailed, TypeInv, TypeOK, sortVars,
       NodePhases, RunPhases, Outcomes
  <2>5. CASE StartNode
    <3>1. trace' \in Seq(TraceEvents)
      BY <2>5, <2>a, <2>c DEF StartNode
    <3>2. Current \in Node
      BY <2>5, <2>c DEF StartNode
    <3>3. inputs' \in [Node -> [kind : {"none", "initial", "single", "merged"},
                                from : SUBSET (Node \X Nat)]]
      BY <2>0, <2>5, <3>2, LegacyInputType DEF StartNode, TypeOK
    <3>4. phase' \in [Node -> NodePhases]
      BY <2>0, <2>5 DEF StartNode, TypeOK, NodePhases
    <3>5. QED
      BY <2>5, <3>1, <3>3, <3>4
         DEF StartNode, TypeInv, TypeOK, sortVars, TraceEvents
  <2>6. CASE FinishRun
    <3>1. trace' \in Seq(TraceEvents)
      BY <2>6, <2>a DEF FinishRun, TraceEvents
    <3>2. QED
      BY <2>6, <3>1 DEF FinishRun, TypeInv, TypeOK, sortVars, RunPhases, Outcomes,
                        TraceEvents
  <2>7. CASE NodeSucceeds
    <3>1. cursor <= Len(order)
      BY <2>7 DEF NodeSucceeds, TypeInv
    <3>2. trace' \in Seq(TraceEvents)
      BY <2>7, <2>b, <2>c, <3>1 DEF NodeSucceeds
    <3>3. writes' \in [Node -> Nat] /\ phase' \in [Node -> NodePhases]
      BY <2>0, <2>7, <2>c, <3>1 DEF NodeSucceeds, TypeOK, NodePhases
    <3>4. QED
      BY <2>7, <3>2, <3>3 DEF NodeSucceeds, TypeInv, TypeOK, sortVars, TraceEvents
  <2>8. CASE NodeReportsFailure
    <3>1. cursor <= Len(order)
      BY <2>8 DEF NodeReportsFailure, TypeInv
    <3>2. trace' \in Seq(TraceEvents)
      BY <2>8, <2>b, <2>c, <3>1 DEF NodeReportsFailure
    <3>3. writes' \in [Node -> Nat] /\ phase' \in [Node -> NodePhases]
      BY <2>0, <2>8, <2>c, <3>1 DEF NodeReportsFailure, ReturnFailed, TypeOK, NodePhases
    <3>4. QED
      BY <2>8, <2>c, <3>1, <3>2, <3>3 DEF NodeReportsFailure, ReturnFailed, TypeInv,
         TypeOK, sortVars, RunPhases, Outcomes, TraceEvents
  <2>9. CASE NodeRaises
    <3>1. cursor <= Len(order)
      BY <2>9 DEF NodeRaises, TypeInv
    <3>2. trace' \in Seq(TraceEvents)
      BY <2>9, <2>a, <2>c, <3>1 DEF NodeRaises
    <3>3. phase' \in [Node -> NodePhases]
      BY <2>0, <2>9 DEF NodeRaises, ReturnFailed, TypeOK, NodePhases
    <3>4. QED
      BY <2>9, <2>c, <3>1, <3>2, <3>3 DEF NodeRaises, ReturnFailed, TypeInv, TypeOK,
         sortVars, RunPhases, Outcomes, TraceEvents
  <2>10. CASE Cancel
    BY <2>10 DEF Cancel, TypeInv, TypeOK, sortVars, Outcomes
  <2>11. CASE UNCHANGED vars
    BY <2>11 DEF vars, runVars, sortVars, TypeInv, TypeOK
  <2>12. QED
    BY <2>1, <2>2, <2>3, <2>4, <2>5, <2>6, <2>7, <2>8, <2>9, <2>10, <2>11
       DEF Next, Advance, NodeReturns
<1>3. QED
  BY <1>1, <1>2, RunnerSorts, SortTyping, PTL DEF Spec

\* run() keeps its variables in their types, for every request.
THEOREM Typing == Spec => []TypeOK
<1>1. TypeInv => TypeOK
  BY DEF TypeInv
<1>2. QED
  BY <1>1, TypeInvHolds, PTL

-----------------------------------------------------------------------------
\* Every node_started is closed.

\* While a node is awaited its node_started is the last event, and of all the
\* node_started events only that one may be open.
BracketInv ==
    /\ step # "returned" => outcome = "none"
    /\ step = "await" =>
         trace # <<>> /\ trace[Len(trace)] = <<"node_started", {Current}>>
    /\ \A i \in DOMAIN trace : trace[i][1] = "node_started" =>
         \/ i = Len(trace) /\ (step = "await" \/ outcome = "cancelled")
         \/ EndIsRecorded(i)

\* An ended node stays ended in a longer list.
LEMMA EndStaysRecorded ==
    ASSUME NEW n \in Nat, NEW m \in Nat, n <= m,
           DOMAIN trace = 1 .. n, DOMAIN trace' = 1 .. m,
           \A k \in 1 .. n : trace'[k] = trace[k],
           NEW i \in 1 .. n, EndIsRecorded(i)
    PROVE  EndIsRecorded(i)'
<1>1. PICK j \in {i + 1, i + 2} \cap DOMAIN trace :
        /\ trace[j][1] \in {"node_finished", "node_failed"}
        /\ \A k \in i .. j : trace[k][2] = trace[i][2]
  BY DEF EndIsRecorded
<1>2. j \in 1 .. n /\ j \in DOMAIN trace'
  BY <1>1
<1>3. \A k \in i .. j : k \in 1 .. n
  BY <1>2
<1>4. QED
  BY <1>1, <1>2, <1>3 DEF EndIsRecorded

\* A step of the loop that appends at most two events keeps the brackets, if
\* the node that was awaited is either ended by these events or left open.
LEMMA AppendKeepsBrackets ==
    ASSUME TypeOK, TypeOK', BracketInv,
           NEW n \in Nat, NEW m \in Nat, n <= m, n = Len(trace), m = Len(trace'),
           \A k \in 1 .. n : trace'[k] = trace[k],
           step = "await" => EndIsRecorded(n)' \/ (m = n /\ outcome' = "cancelled"),
           outcome # "cancelled",
           \A k \in n + 1 .. m : trace'[k][1] = "node_started" =>
                                   k = m /\ step' = "await",
           step' # "returned" => outcome' = "none",
           step' = "await" =>
             trace' # <<>> /\ trace'[m] = <<"node_started", {Current'}>>
    PROVE  BracketInv'
<1>1. DOMAIN trace = 1 .. n /\ DOMAIN trace' = 1 .. m
  BY LenProperties DEF TypeOK
<1>2. ASSUME NEW i \in DOMAIN trace', trace'[i][1] = "node_started"
      PROVE  \/ i = m /\ (step' = "await" \/ outcome' = "cancelled")
             \/ EndIsRecorded(i)'
  <2>1. CASE i \in 1 .. n
    <3>1. trace[i][1] = "node_started"
      BY <1>2, <2>1
    <3>2. CASE EndIsRecorded(i)
      BY <1>1, <2>1, <3>2, EndStaysRecorded
    <3>3. CASE i = n /\ step = "await"
      BY <3>3
    <3>4. QED
      BY <1>1, <2>1, <3>1, <3>2, <3>3 DEF BracketInv
  <2>2. CASE i \in n + 1 .. m
    BY <1>2, <2>2
  <2>3. QED
    BY <1>1, <2>1, <2>2
<1>3. QED
  BY <1>2 DEF BracketInv

LEMMA BracketInvHolds == Spec => []BracketInv
<1>1. Init => BracketInv
  BY DEF Init, RunnerInit, BracketInv
<1>2. TypeInv /\ TypeOK' /\ BracketInv /\ [Next]_vars => BracketInv'
  <2> SUFFICES ASSUME TypeInv, TypeOK', BracketInv, [Next]_vars
               PROVE  BracketInv'
    OBVIOUS
  <2> PICK n \in Nat : n = Len(trace)
    BY LenProperties DEF TypeInv, TypeOK
  <2>0. /\ TypeOK
        /\ trace \in Seq(TraceEvents)
        /\ n \in Nat
        /\ n = Len(trace)
        /\ DOMAIN trace = 1 .. n
    BY LenProperties DEF TypeInv, TypeOK, TraceEvents
  <2>a. ASSUME NEW e \in TraceEvents, trace' = Append(trace, e)
        PROVE  /\ Len(trace') = n + 1
               /\ \A k \in 1 .. n : trace'[k] = trace[k]
               /\ trace'[n + 1] = e
               /\ trace' # <<>>
    BY <2>0, <2>a, AppendProperties
  <2>b. ASSUME NEW e \in TraceEvents, NEW f \in TraceEvents,
               trace' = trace \o <<e, f>>
        PROVE  /\ Len(trace') = n + 2
               /\ \A k \in 1 .. n : trace'[k] = trace[k]
               /\ trace'[n + 1] = e
               /\ trace'[n + 2] = f
    <3>1. <<e, f>> \in Seq(TraceEvents) /\ Len(<<e, f>>) = 2
      OBVIOUS
    <3>2. QED
      BY <2>0, <2>b, <3>1, ConcatProperties
  <2>c. cursor <= Len(order) =>
          \A t \in {"node_started", "node_output_written", "node_finished",
                    "node_failed"} : <<t, {Current}>> \in TraceEvents
    BY <2>0, OrderElements DEF TraceEvents
  <2>d. step = "await" => /\ cursor <= Len(order)
                          /\ n # 0
                          /\ trace[n] = <<"node_started", {Current}>>
    BY <2>0, EmptySeq DEF TypeInv, BracketInv
  <2>1. CASE UNCHANGED vars
    BY <2>1 DEF vars, runVars, sortVars, BracketInv, EndIsRecorded, Current
  <2>2. CASE Sort
    <3>1. step # "await"
      BY <2>2, SortIsOver DEF TypeInv
    <3>2. QED
      BY <2>2, <3>1 DEF Sort, runVars, BracketInv, EndIsRecorded
  <2>3. CASE RaiseRejected \/ RejectNodeType
    <3>1. /\ step \in {"idle", "pick"}
          /\ step' = "returned"
          /\ trace' = trace
      BY <2>3 DEF RaiseRejected, RejectNodeType, ReturnFailed
    <3>2. \A k \in n + 1 .. n : FALSE
      BY <2>0
    <3>3. outcome # "cancelled"
      BY <3>1 DEF BracketInv
    <3>4. QED
      BY <2>0, <3>1, <3>2, <3>3, AppendKeepsBrackets
  <2>4. CASE StartRun \/ FinishRun
    <3>1. PICK t \in {"workflow_started", "workflow_finished"} :
            /\ trace' = Append(trace, <<t, {}>>)
            /\ step \in {"idle", "pick"}
            /\ \/ step' = "returned"
               \/ step' = "pick" /\ outcome' = outcome
      BY <2>4 DEF StartRun, FinishRun
    <3>2. <<t, {}>> \in TraceEvents
      BY DEF TraceEvents
    <3>3. /\ Len(trace') = n + 1
          /\ \A k \in 1 .. n : trace'[k] = trace[k]
          /\ trace'[n + 1] = <<t, {}>>
      BY <3>1, <3>2, <2>a
    <3>4. trace'[n + 1][1] # "node_started"
      BY <3>3
    <3>5. \A k \in n + 1 .. n + 1 : trace'[k][1] # "node_started"
      BY <2>0, <3>4
    <3>6. n + 1 \in Nat /\ n <= n + 1 /\ outcome = "none" /\ step # "await"
      BY <2>0, <3>1 DEF BracketInv
    <3>7. step' # "await" /\ (step' # "returned" => outcome' = "none")
      BY <3>1, <3>6
    <3>8. QED
      BY <2>0, <3>3, <3>5, <3>6, <3>7, AppendKeepsBrackets
  <2>5. CASE StartNode
    <3>1. /\ trace' = Append(trace, <<"node_started", {Current}>>)
          /\ step = "pick"
          /\ step' = "await"
          /\ outcome' = outcome
          /\ Current' = Current
          /\ cursor <= Len(order)
      BY <2>5 DEF StartNode, sortVars, Current
    <3>2. /\ Len(trace') = n + 1
          /\ \A k \in 1 .. n : trace'[k] = trace[k]
          /\ trace'[n + 1] = <<"node_started", {Current}>>
          /\ trace' # <<>>
      BY <3>1, <2>a, <2>c
    <3>3. \A k \in n + 1 .. n + 1 : k = n + 1
      BY <2>0
    <3>4. n + 1 \in Nat /\ n <= n + 1 /\ outcome = "none"
      BY <2>0, <3>1 DEF BracketInv
    <3>5. trace'[n + 1] = <<"node_started", {Current'}>>
      BY <3>1, <3>2
    <3>6. QED
      BY <2>0, <3>1, <3>2, <3>3, <3>4, <3>5, AppendKeepsBrackets
  <2>6. CASE NodeSucceeds \/ NodeReportsFailure
    <3>1. PICK t \in {"node_finished", "node_failed"} :
            /\ trace' = trace \o << <<"node_output_written", {Current}>>,
                                    <<t, {Current}>> >>
            /\ step = "await"
            /\ \/ step' = "returned"
               \/ step' = "pick" /\ outcome' = outcome
      BY <2>6 DEF NodeSucceeds, NodeReportsFailure, ReturnFailed
    <3>2. /\ Len(trace') = n + 2
          /\ \A k \in 1 .. n : trace'[k] = trace[k]
          /\ trace'[n + 1] = <<"node_output_written", {Current}>>
          /\ trace'[n + 2] = <<t, {Current}>>
          /\ trace[n] = <<"node_started", {Current}>>
          /\ n # 0
      BY <3>1, <2>b, <2>c, <2>d
    <3>3. DOMAIN trace' = 1 .. n + 2
      BY <2>0, <3>2, LenProperties DEF TypeOK
    <3>4. EndIsRecorded(n)'
      <4>1. n \in 1 .. n /\ n + 2 \in {n + 1, n + 2} \cap DOMAIN trace'
        BY <2>0, <3>2, <3>3
      <4>2. \A k \in n .. n + 2 : trace'[k][2] = {Current}
        <5>1. \A k \in n .. n + 2 : k = n \/ k = n + 1 \/ k = n + 2
          BY <2>0
        <5>2. trace'[n] = trace[n]
          BY <3>2, <4>1
        <5>3. QED
          BY <3>2, <5>1, <5>2
      <4>3. trace'[n + 2][1] \in {"node_finished", "node_failed"}
        BY <3>1, <3>2
      <4>4. trace'[n][2] = {Current}
        BY <2>0, <4>2
      <4>5. QED
        BY <4>1, <4>2, <4>3, <4>4 DEF EndIsRecorded
    <3>5. \A k \in n + 1 .. n + 2 : k = n + 1 \/ k = n + 2
      BY <2>0
    <3>6. \A k \in n + 1 .. n + 2 : trace'[k][1] # "node_started"
      BY <3>1, <3>2, <3>5
    <3>7. n + 2 \in Nat /\ n <= n + 2
      BY <2>0
    <3>8. QED
      BY <2>0, <3>1, <3>2, <3>4, <3>6, <3>7, AppendKeepsBrackets DEF BracketInv
  <2>7. CASE NodeRaises
    <3>1. /\ trace' = Append(trace, <<"node_failed", {Current}>>)
          /\ step = "await"
          /\ step' = "returned"
      BY <2>7 DEF NodeRaises, ReturnFailed
    <3>2. /\ Len(trace') = n + 1
          /\ \A k \in 1 .. n : trace'[k] = trace[k]
          /\ trace'[n + 1] = <<"node_failed", {Current}>>
          /\ trace[n] = <<"node_started", {Current}>>
          /\ n # 0
      BY <3>1, <2>a, <2>c, <2>d
    <3>3. DOMAIN trace' = 1 .. n + 1
      BY <2>0, <3>2, LenProperties DEF TypeOK
    <3>4. EndIsRecorded(n)'
      <4>1. n \in 1 .. n /\ n + 1 \in {n + 1, n + 2} \cap DOMAIN trace'
        BY <2>0, <3>2, <3>3
      <4>2. \A k \in n .. n + 1 : trace'[k][2] = {Current}
        <5>1. \A k \in n .. n + 1 : k = n \/ k = n + 1
          BY <2>0
        <5>2. trace'[n] = trace[n]
          BY <3>2, <4>1
        <5>3. QED
          BY <3>2, <5>1, <5>2
      <4>3. trace'[n][2] = {Current}
        BY <2>0, <4>2
      <4>4. QED
        BY <3>2, <4>1, <4>2, <4>3 DEF EndIsRecorded
    <3>5. \A k \in n + 1 .. n + 1 : k = n + 1
      BY <2>0
    <3>6. QED
      BY <2>0, <3>1, <3>2, <3>4, <3>5, AppendKeepsBrackets DEF BracketInv
  <2>8. CASE Cancel
    <3>1. /\ trace' = trace
          /\ step = "await"
          /\ step' = "returned"
          /\ outcome' = "cancelled"
      BY <2>8 DEF Cancel
    <3>2. \A k \in n + 1 .. n : FALSE
      BY <2>0
    <3>3. QED
      BY <2>0, <3>1, <3>2, AppendKeepsBrackets DEF BracketInv
  <2>9. QED
    BY <2>1, <2>2, <2>3, <2>4, <2>5, <2>6, <2>7, <2>8
       DEF Next, Advance, NodeReturns
<1>3. QED
  BY <1>1, <1>2, TypeInvHolds, PTL DEF Spec, TypeInv

\* In the event list every started node is closed before the next event opens
\* another one: whatever the graph, and whatever the nodes do.
THEOREM NodesAreBracketed == Spec => []TraceIsBracketed
<1>1. TypeOK /\ BracketInv => TraceIsBracketed
  <2> SUFFICES ASSUME TypeOK, BracketInv
               PROVE  TraceIsBracketed
    OBVIOUS
  <2>1. step = "await" => outcome = "none"
    BY DEF BracketInv
  <2>2. QED
    BY <2>1 DEF BracketInv, TraceIsBracketed
<1>2. QED
  BY <1>1, Typing, BracketInvHolds, PTL

-----------------------------------------------------------------------------
\* The inductive invariant of the loop.

RunnerInv == TypeOK /\ SortInv /\ RunInv

\* What the sort hands to the loop.
LEMMA OrderIsGood ==
    ASSUME TypeOK, SortInv, sorter = "ordered"
    PROVE  /\ ToSet(order) = Ids
           /\ \A i, j \in 1 .. Len(order) : order[i] = order[j] => i = j
           /\ \A i \in 1 .. Len(order) : \A p \in Parents(order[i]) :
                \E j \in 1 .. i - 1 : order[j] = p
  BY OrderElements DEF SortInv, Visiting, NoRepetition, ParentsComeEarlier, IsInjective

\* All parents of the node the loop is at have succeeded, and their output is
\* the one they wrote.
LEMMA ParentsAreDone ==
    ASSUME RunnerInv, sorter = "ordered", cursor <= Len(order)
    PROVE  \A p \in Parents(Current) : phase[p] = "SUCCESS" /\ writes[p] = 1
<1> SUFFICES ASSUME NEW p \in Parents(Current)
             PROVE  phase[p] = "SUCCESS" /\ writes[p] = 1
  OBVIOUS
<1>1. cursor \in 1 .. Len(order) /\ Len(order) \in Nat
  BY OrderElements DEF RunnerInv, TypeOK
<1>2. PICK j \in 1 .. cursor - 1 : order[j] = p
  BY <1>1, OrderIsGood DEF RunnerInv, Current
<1>3. p \in Node
  BY DEF Parents
<1>4. QED
  BY <1>2, <1>3 DEF RunnerInv, RunInv, LoopInv, BooksInv

\* The sort runs before the first node does.
LEMMA SortKeepsRunInv ==
    ASSUME RunnerInv, Sort, TypeOK'
    PROVE  RunInv'
<1>1. /\ step = "idle"
      /\ outcome = "none"
      /\ sorter' \in {"kahn", "ordered", "rejected"}
      /\ UNCHANGED runVars
  BY DEF Sort, SortNext, RejectUnknownEndpoint, RejectNoRoot, EnqueueRoots, VisitNext,
         FinishSort, RunnerInv, RunInv, LoopInv, EndInv, TypeOK, Outcomes
<1>2. Len(order') \in Nat
  BY LenProperties DEF TypeOK, SortTypeOK
<1>3. \A n \in Node : ~Started(n) /\ ~Started(n)' /\ inputs[n] = NoInput
  BY <1>1 DEF RunnerInv, RunInv, LoopInv, BooksInv, Started, runVars
<1>4. LoopInv'
  BY <1>1, <1>2, <1>3 DEF RunnerInv, RunInv, LoopInv, runVars
<1>5. BooksInv'
  BY <1>1, <1>3 DEF RunnerInv, RunInv, BooksInv, NoInput, runVars
<1>6. EndInv'
  BY <1>1 DEF RunnerInv, RunInv, EndInv, runVars
<1>7. QED
  BY <1>4, <1>5, <1>6 DEF RunInv

\* What a step of the loop may rely on, and what it leaves as it is.
LEMMA AtCurrent ==
    ASSUME RunnerInv, step \in {"pick", "await"}, cursor <= Len(order),
           UNCHANGED sortVars
    PROVE  /\ cursor \in 1 .. Len(order)
           /\ Len(order) \in Nat
           /\ Current \in Node
           /\ sorter = "ordered"
           /\ outcome = "none"
           /\ \A n : Parents(n)' = Parents(n)
           /\ \A i \in 1 .. Len(order) :
                order[i] \in Node /\ (order[i] = Current <=> i = cursor)
           /\ \A i \in 1 .. cursor - 1 : phase[order[i]] = "SUCCESS"
           /\ phase[Current] = IF step = "pick" THEN "ABSENT" ELSE "RUNNING"
<1>1. /\ cursor \in 1 .. Len(order)
      /\ Len(order) \in Nat
      /\ Current \in Node
      /\ \A i \in 1 .. Len(order) : order[i] \in Node
  BY OrderElements DEF RunnerInv, TypeOK
<1>2. sorter = "ordered" /\ outcome = "none"
  BY DEF RunnerInv, RunInv, LoopInv, EndInv, TypeOK, Outcomes
<1>3. \A i \in 1 .. Len(order) : order[i] = Current <=> i = cursor
  BY <1>1, <1>2, OrderIsGood DEF RunnerInv, Current
<1>4. \A n : Parents(n)' = Parents(n)
  BY SameGraph DEF sortVars
<1>5. QED
  BY <1>1, <1>2, <1>3, <1>4 DEF RunnerInv, RunInv, LoopInv

\* A failed node ends the run at the node the loop is at.
LEMMA FailureKeepsRunInv ==
    ASSUME RunnerInv, step \in {"pick", "await"}, cursor <= Len(order),
           ReturnFailed(Current), UNCHANGED <<sortVars, cursor, inputs>>,
           \A n \in Node \ {Current} : results'[n] = results[n] /\ writes'[n] = writes[n],
           results'[Current] # "ok"
    PROVE  RunInv'
<1>1. /\ cursor \in 1 .. Len(order)
      /\ Len(order) \in Nat
      /\ Current \in Node
      /\ sorter = "ordered"
      /\ \A n : Parents(n)' = Parents(n)
      /\ \A i \in 1 .. Len(order) :
           order[i] \in Node /\ (order[i] = Current <=> i = cursor)
      /\ \A i \in 1 .. cursor - 1 : phase[order[i]] = "SUCCESS"
  BY AtCurrent
<1>2. /\ order' = order
      /\ sorter' = sorter
      /\ cursor' = cursor
      /\ inputs' = inputs
      /\ Current' = Current
      /\ step' = "returned"
      /\ outcome' = "failed"
      /\ runPhase' = "FAILED"
      /\ failedNode' = {Current}
      /\ phase'[Current] = "FAILED"
      /\ \A n \in Node \ {Current} : phase'[n] = phase[n]
  BY <1>1 DEF ReturnFailed, RunnerInv, TypeOK, sortVars, Current
<1>3. LoopInv'
  <2>1. \A i \in 1 .. cursor - 1 : phase'[order[i]] = "SUCCESS"
    BY <1>1, <1>2
  <2>2. \A n \in Node : Started(n)' =>
          \E i \in 1 .. cursor : i <= Len(order) /\ order[i] = n
    BY <1>1, <1>2 DEF RunnerInv, RunInv, LoopInv, Started, Current
  <2>3. QED
    BY <1>1, <1>2, <2>1, <2>2 DEF LoopInv
<1>4. BooksInv'
  <2> SUFFICES ASSUME NEW n \in Node
               PROVE  /\ results'[n] = "ok" <=> phase'[n] = "SUCCESS"
                      /\ phase'[n] \in {"ABSENT", "RUNNING"} => writes'[n] = 0
                      /\ phase'[n] = "SUCCESS" => writes'[n] = 1
                      /\ inputs'[n] # NoInput =>
                           /\ phase'[n] # "ABSENT"
                           /\ inputs'[n].from = {<<p, 1>> : p \in Parents(n)}
    BY <1>1 DEF BooksInv, Started, NoInput
  <2>1. CASE n = Current
    BY <1>2, <2>1 DEF RunnerInv, RunInv, BooksInv
  <2>2. CASE n # Current
    BY <1>2, <2>2 DEF RunnerInv, RunInv, BooksInv, Started
  <2>3. QED
    BY <2>1, <2>2
<1>5. EndInv'
  BY <1>1, <1>2 DEF EndInv
<1>6. QED
  BY <1>3, <1>4, <1>5 DEF RunInv

\* The started node reads what its parents, all done, have written.
LEMMA StartNodeKeepsRunInv ==
    ASSUME RunnerInv, StartNode
    PROVE  RunInv'
<1>0. step = "pick" /\ cursor <= Len(order) /\ UNCHANGED sortVars
  BY DEF StartNode
<1>1. /\ cursor \in 1 .. Len(order)
      /\ Len(order) \in Nat
      /\ Current \in Node
      /\ sorter = "ordered"
      /\ outcome = "none"
      /\ \A n : Parents(n)' = Parents(n)
      /\ \A i \in 1 .. Len(order) :
           order[i] \in Node /\ (order[i] = Current <=> i = cursor)
      /\ \A i \in 1 .. cursor - 1 : phase[order[i]] = "SUCCESS"
      /\ phase[Current] = "ABSENT"
  BY <1>0, AtCurrent
<1>2. /\ UNCHANGED <<order, sorter, cursor, results, writes, outcome, runPhase>>
      /\ Current' = Current
      /\ step' = "await"
      /\ phase'[Current] = "RUNNING"
      /\ inputs'[Current] = LegacyInput(Current)
      /\ \A n \in Node \ {Current} : phase'[n] = phase[n] /\ inputs'[n] = inputs[n]
  BY <1>1 DEF StartNode, RunnerInv, TypeOK, sortVars, Current
<1>3. LoopInv'
  <2>1. \A i \in 1 .. cursor - 1 : phase'[order[i]] = "SUCCESS"
    BY <1>1, <1>2
  <2>2. \A n \in Node : Started(n)' =>
          \E i \in 1 .. cursor : i <= Len(order) /\ order[i] = n
    BY <1>1, <1>2 DEF RunnerInv, RunInv, LoopInv, Started, Current
  <2>3. QED
    BY <1>1, <1>2, <2>1, <2>2 DEF LoopInv
<1>4. BooksInv'
  <2> SUFFICES ASSUME NEW n \in Node
               PROVE  /\ results'[n] = "ok" <=> phase'[n] = "SUCCESS"
                      /\ phase'[n] \in {"ABSENT", "RUNNING"} => writes'[n] = 0
                      /\ phase'[n] = "SUCCESS" => writes'[n] = 1
                      /\ inputs'[n] # NoInput =>
                           /\ phase'[n] # "ABSENT"
                           /\ inputs'[n].from = {<<p, 1>> : p \in Parents(n)}
    BY <1>1 DEF BooksInv, Started, NoInput
  <2>1. CASE n = Current
    <3>1. results[Current] # "ok" /\ writes[Current] = 0
      BY <1>1 DEF RunnerInv, RunInv, BooksInv
    <3>2. LegacyInput(Current).from = {<<p, writes[p]>> : p \in Parents(Current)}
      BY DEF LegacyInput
    <3>3. \A p \in Parents(Current) : writes[p] = 1
      BY <1>1, ParentsAreDone
    <3>4. {<<p, writes[p]>> : p \in Parents(Current)}
            = {<<p, 1>> : p \in Parents(Current)}
      BY <3>3
    <3>5. QED
      BY <1>2, <2>1, <3>1, <3>2, <3>4
  <2>2. CASE n # Current
    BY <1>2, <2>2 DEF RunnerInv, RunInv, BooksInv, Started
  <2>3. QED
    BY <2>1, <2>2
<1>5. EndInv'
  BY <1>0, <1>1, <1>2 DEF EndInv, RunnerInv, RunInv
<1>6. QED
  BY <1>3, <1>4, <1>5 DEF RunInv

\* The loop moves past a node once it has succeeded.
LEMMA NodeSucceedsKeepsRunInv ==
    ASSUME RunnerInv, NodeSucceeds
    PROVE  RunInv'
<1>0. step = "await" /\ cursor <= Len(order) /\ UNCHANGED sortVars
  BY DEF NodeSucceeds, RunnerInv, RunInv, LoopInv
<1>1. /\ cursor \in 1 .. Len(order)
      /\ Len(order) \in Nat
      /\ Current \in Node
      /\ sorter = "ordered"
      /\ outcome = "none"
      /\ \A n : Parents(n)' = Parents(n)
      /\ \A i \in 1 .. Len(order) :
           order[i] \in Node /\ (order[i] = Current <=> i = cursor)
      /\ \A i \in 1 .. cursor - 1 : phase[order[i]] = "SUCCESS"
      /\ phase[Current] = "RUNNING"
  BY <1>0, AtCurrent
<1>2. /\ UNCHANGED <<order, sorter, inputs, outcome, runPhase>>
      /\ cursor' = cursor + 1
      /\ step' = "pick"
      /\ Current = order[cursor]
      /\ Current' = order[cursor + 1]
      /\ phase'[Current] = "SUCCESS"
      /\ results'[Current] = "ok"
      /\ writes'[Current] = writes[Current] + 1
      /\ \A n \in Node \ {Current} :
           phase'[n] = phase[n] /\ results'[n] = results[n] /\ writes'[n] = writes[n]
  BY <1>1 DEF NodeSucceeds, RunnerInv, TypeOK, sortVars, Current
<1>3. LoopInv'
  <2>1. \A i \in 1 .. cursor : phase'[order[i]] = "SUCCESS"
    BY <1>1, <1>2
  <2>2. \A n \in Node : Started(n)' =>
          \E i \in 1 .. cursor + 1 : i <= Len(order) /\ order[i] = n
    BY <1>1, <1>2 DEF RunnerInv, RunInv, LoopInv, Started
  <2>3. ASSUME cursor + 1 <= Len(order)
        PROVE  phase'[order[cursor + 1]] = "ABSENT"
    <3>1. cursor + 1 \in 1 .. Len(order) /\ order[cursor + 1] \in Node \ {Current}
      BY <1>1, <2>3
    <3>2. \A j \in 1 .. cursor : order[j] # order[cursor + 1]
      <4>1. \A i, j \in 1 .. Len(order) : order[i] = order[j] => i = j
        BY <1>1, OrderIsGood DEF RunnerInv
      <4>2. QED
        BY <1>1, <3>1, <4>1
    <3>3. ~Started(order[cursor + 1])
      BY <3>1, <3>2 DEF RunnerInv, RunInv, LoopInv
    <3>4. QED
      BY <1>2, <3>1, <3>3 DEF Started
  <2>4. cursor + 1 \in 1 .. Len(order) + 1 /\ cursor + 1 - 1 = cursor
    BY <1>1
  <2>5. QED
    BY <1>1, <1>2, <2>1, <2>2, <2>3, <2>4 DEF LoopInv
<1>4. BooksInv'
  <2> SUFFICES ASSUME NEW n \in Node
               PROVE  /\ results'[n] = "ok" <=> phase'[n] = "SUCCESS"
                      /\ phase'[n] \in {"ABSENT", "RUNNING"} => writes'[n] = 0
                      /\ phase'[n] = "SUCCESS" => writes'[n] = 1
                      /\ inputs'[n] # NoInput =>
                           /\ phase'[n] # "ABSENT"
                           /\ inputs'[n].from = {<<p, 1>> : p \in Parents(n)}
    BY <1>1 DEF BooksInv, Started, NoInput
  <2>1. CASE n = Current
    BY <1>1, <1>2, <2>1 DEF RunnerInv, RunInv, BooksInv
  <2>2. CASE n # Current
    BY <1>2, <2>2 DEF RunnerInv, RunInv, BooksInv, Started
  <2>3. QED
    BY <2>1, <2>2
<1>5. EndInv'
  BY <1>0, <1>1, <1>2 DEF EndInv, RunnerInv, RunInv
<1>6. QED
  BY <1>3, <1>4, <1>5 DEF RunInv

\* The steps that leave every node as it is.
LEMMA FrameKeepsRunInv ==
    ASSUME RunnerInv, RaiseRejected \/ StartRun \/ FinishRun \/ Cancel \/ UNCHANGED vars
    PROVE  RunInv'
<1>1. /\ UNCHANGED <<sortVars, cursor, phase, results, writes, inputs, failedNode>>
      /\ Current' = Current
      /\ \A n : Started(n)' <=> Started(n)
  BY DEF RaiseRejected, StartRun, FinishRun, Cancel, vars, runVars, sortVars, Current,
         Started
<1>2. /\ Len(order) \in Nat
      /\ \A i \in 1 .. Len(order) : order[i] \in Node
  BY OrderElements DEF RunnerInv, TypeOK
<1>3. BooksInv'
  <2>1. \A n : Parents(n)' = Parents(n)
    BY <1>1, SameGraph DEF sortVars
  <2>2. NoInput' = NoInput
    BY DEF NoInput
  <2>3. QED
    BY <1>1, <2>1, <2>2 DEF RunnerInv, RunInv, BooksInv
<1>4. cursor \in Nat \ {0} /\ outcome \in Outcomes
  BY DEF RunnerInv, TypeOK
<1>5. /\ order' = order /\ sorter' = sorter /\ cursor' = cursor /\ phase' = phase
      /\ failedNode' = failedNode
  BY <1>1 DEF sortVars
<1>6. LoopInv /\ EndInv
  BY DEF RunnerInv, RunInv
<1>7. CASE RaiseRejected
  <2>1. LoopInv'
    BY <1>1, <1>5, <1>6, <1>7 DEF RaiseRejected, LoopInv, EndInv
  <2>2. EndInv'
    BY <1>1, <1>5, <1>6, <1>7 DEF RaiseRejected, EndInv
  <2>3. QED
    BY <1>3, <2>1, <2>2 DEF RunInv
<1>8. CASE StartRun
  <2>1. cursor <= Len(order) => phase[Current] = "ABSENT"
    BY <1>2, <1>4, <1>6, <1>8 DEF StartRun, LoopInv, Started, Current
  <2>2. LoopInv'
    BY <1>1, <1>5, <1>6, <1>8, <2>1 DEF StartRun, LoopInv, EndInv
  <2>3. EndInv'
    BY <1>1, <1>5, <1>6, <1>8 DEF StartRun, EndInv
  <2>4. QED
    BY <1>3, <2>2, <2>3 DEF RunInv
<1>9. CASE FinishRun
  <2>1. cursor = Len(order) + 1
    BY <1>2, <1>4, <1>6, <1>9 DEF FinishRun, LoopIsOver, LoopInv
  <2>2. LoopInv'
    BY <1>1, <1>5, <1>6, <1>9 DEF FinishRun, LoopInv, EndInv
  <2>3. EndInv'
    BY <1>1, <1>5, <1>6, <1>9, <2>1 DEF FinishRun, EndInv, LoopInv
  <2>4. QED
    BY <1>3, <2>2, <2>3 DEF RunInv
<1>10. CASE Cancel
  <2>1. LoopInv'
    BY <1>1, <1>5, <1>6, <1>10 DEF Cancel, LoopInv, EndInv
  <2>2. EndInv'
    BY <1>1, <1>5, <1>6, <1>10 DEF Cancel, EndInv, LoopInv
  <2>3. QED
    BY <1>3, <2>1, <2>2 DEF RunInv
<1>11. CASE UNCHANGED vars
  BY <1>1, <1>3, <1>5, <1>6, <1>11 DEF vars, runVars, LoopInv, EndInv, RunInv
<1>12. QED
  BY <1>7, <1>8, <1>9, <1>10, <1>11

LEMMA StepKeepsRunInv ==
    ASSUME RunnerInv, [Next]_vars, TypeOK'
    PROVE  RunInv'
<1>1. CASE Sort
  BY <1>1, SortKeepsRunInv
<1>2. CASE RejectNodeType
  <2>1. phase[Current] = "ABSENT" /\ Current \in Node
    BY <1>2, AtCurrent DEF RejectNodeType
  <2>2. results'[Current] # "ok"
    BY <1>2, <2>1 DEF RejectNodeType, RunnerInv, RunInv, BooksInv
  <2>3. QED
    BY <1>2, <2>2, FailureKeepsRunInv DEF RejectNodeType
<1>3. CASE NodeReportsFailure
  <2>1. cursor <= Len(order) /\ Current \in Node
    BY <1>3, OrderElements DEF NodeReportsFailure, RunnerInv, RunInv, LoopInv
  <2>2. /\ results'[Current] # "ok"
        /\ \A n \in Node \ {Current} : results'[n] = results[n] /\ writes'[n] = writes[n]
    BY <1>3, <2>1 DEF NodeReportsFailure, RunnerInv, TypeOK
  <2>3. QED
    BY <1>3, <2>1, <2>2, FailureKeepsRunInv DEF NodeReportsFailure
<1>4. CASE NodeRaises
  <2>1. cursor <= Len(order)
    BY <1>4 DEF NodeRaises, RunnerInv, RunInv, LoopInv
  <2>2. phase[Current] = "RUNNING" /\ Current \in Node
    BY <1>4, <2>1, AtCurrent DEF NodeRaises
  <2>3. results'[Current] # "ok"
    BY <1>4, <2>2 DEF NodeRaises, RunnerInv, RunInv, BooksInv
  <2>4. QED
    BY <1>4, <2>1, <2>3, FailureKeepsRunInv DEF NodeRaises
<1>5. QED
  BY <1>1, <1>2, <1>3, <1>4, StartNodeKeepsRunInv, NodeSucceedsKeepsRunInv,
     FrameKeepsRunInv DEF Next, Advance, NodeReturns

\* The invariant holds, for every workflow whose node list has no repetition.
LEMMA RunnerInvHolds ==
    ASSUME UniqueIdLists
    PROVE  Spec => []RunnerInv
<1>1. Init /\ TypeOK /\ SortInv => RunnerInv
  <2> SUFFICES ASSUME Init, TypeOK, SortInv
               PROVE  RunInv
    BY DEF RunnerInv
  <2>1. Len(order) \in Nat
    BY OrderElements
  <2>2. LoopInv
    BY <2>1 DEF Init, RunnerInit, LoopInv, Started
  <2>3. BooksInv
    BY DEF Init, RunnerInit, BooksInv
  <2>4. EndInv
    BY DEF Init, RunnerInit, EndInv
  <2>5. QED
    BY <2>2, <2>3, <2>4 DEF RunInv
<1>2. RunnerInv /\ TypeOK' /\ SortInv' /\ [Next]_vars => RunnerInv'
  BY StepKeepsRunInv DEF RunnerInv
<1>3. Spec => []SortInv
  BY RunnerSorts, SortCorrect, PTL
<1>4. QED
  BY <1>1, <1>2, <1>3, Typing, PTL DEF Spec

-----------------------------------------------------------------------------
\* What follows from it.

\* run() follows the order, starts nothing early, records what happened to each
\* node and reports it.
THEOREM RunStaysInStep ==
    ASSUME UniqueIdLists
    PROVE  Spec => []RunInv
<1>1. RunnerInv => RunInv
  BY DEF RunnerInv
<1>2. QED
  BY <1>1, RunnerInvHolds, PTL


\* A node starts only after all its parents have succeeded.
THEOREM ParentsComeFirst ==
    ASSUME UniqueIdLists
    PROVE  Spec => []ParentsFirst
<1>1. RunnerInv => ParentsFirst
  <2> SUFFICES ASSUME RunnerInv, NEW n \in Node, Started(n), NEW p \in Parents(n)
               PROVE  phase[p] = "SUCCESS"
    BY DEF ParentsFirst
  <2>1. /\ sorter = "ordered"
        /\ Len(order) \in Nat
        /\ cursor \in Nat
    BY OrderElements DEF RunnerInv, RunInv, LoopInv, TypeOK
  <2>2. PICK i \in 1 .. cursor : i <= Len(order) /\ order[i] = n
    BY DEF RunnerInv, RunInv, LoopInv
  <2>3. PICK j \in 1 .. i - 1 : order[j] = p
    <3>1. i \in 1 .. Len(order) /\ p \in Parents(order[i])
      BY <2>1, <2>2
    <3>2. QED
      BY <2>1, <3>1, OrderIsGood DEF RunnerInv
  <2>4. j \in 1 .. cursor - 1
    BY <2>1
  <2>5. QED
    BY <2>3, <2>4 DEF RunnerInv, RunInv, LoopInv
<1>2. QED
  BY <1>1, RunnerInvHolds, PTL

\* What a node reads is the one output that each parent has written.
THEOREM InputsAreComplete ==
    ASSUME UniqueIdLists
    PROVE  Spec => []InputsAreFinal
<1>1. RunnerInv /\ ParentsFirst => InputsAreFinal
  <2> SUFFICES ASSUME RunnerInv, ParentsFirst, NEW n \in Node, inputs[n] # NoInput
               PROVE  /\ inputs[n].from = {<<p, 1>> : p \in Parents(n)}
                      /\ \A p \in Parents(n) : writes[p] = 1
    BY DEF InputsAreFinal
  <2>1. Started(n) /\ inputs[n].from = {<<p, 1>> : p \in Parents(n)}
    BY DEF RunnerInv, RunInv, BooksInv
  <2>2. \A p \in Parents(n) : p \in Node /\ phase[p] = "SUCCESS"
    BY <2>1 DEF ParentsFirst, Parents
  <2>3. QED
    BY <2>1, <2>2 DEF RunnerInv, RunInv, BooksInv
<1>2. QED
  BY <1>1, RunnerInvHolds, ParentsComeFirst, PTL

\* What run() returns agrees with what it did.
THEOREM VerdictIsRight ==
    ASSUME UniqueIdLists
    PROVE  Spec => []VerdictMatchesNodes
<1>1. RunnerInv => VerdictMatchesNodes
  <2> SUFFICES ASSUME RunnerInv
               PROVE  VerdictMatchesNodes
    OBVIOUS
  <2>1. /\ Len(order) \in Nat
        /\ cursor \in 1 .. Len(order) + 1
        /\ DOMAIN order = 1 .. Len(order)
        /\ \A i \in 1 .. Len(order) : order[i] \in Node
        /\ Ids \subseteq Node
    BY OrderElements DEF RunnerInv, RunInv, LoopInv
  <2>2. ASSUME outcome = "success", NEW n \in Ids
        PROVE  phase[n] = "SUCCESS" /\ results[n] = "ok" /\ writes[n] = 1
    <3>1. cursor = Len(order) + 1 /\ sorter = "ordered"
      BY <2>2 DEF RunnerInv, RunInv, EndInv
    <3>2. PICK i \in 1 .. Len(order) : order[i] = n
      BY <2>1, <3>1, OrderIsGood DEF RunnerInv, ToSet
    <3>3. phase[n] = "SUCCESS"
      BY <2>1, <3>1, <3>2 DEF RunnerInv, RunInv, LoopInv
    <3>4. QED
      BY <2>1, <3>3 DEF RunnerInv, RunInv, BooksInv
  <2>3. ASSUME outcome = "failed"
        PROVE  /\ phase[Current] = "FAILED"
               /\ failedNode = {Current}
               /\ Current \in Node
               /\ \A n \in Node \ {Current} : phase[n] \in {"ABSENT", "SUCCESS"}
    <3>1. /\ cursor <= Len(order)
          /\ phase[Current] = "FAILED"
          /\ failedNode = {Current}
          /\ Current \in Node
      BY <2>1, <2>3 DEF RunnerInv, RunInv, LoopInv, EndInv, Current
    <3>2. ASSUME NEW n \in Node \ {Current}, Started(n)
          PROVE  phase[n] = "SUCCESS"
      <4>1. PICK i \in 1 .. cursor : i <= Len(order) /\ order[i] = n
        BY <3>2 DEF RunnerInv, RunInv, LoopInv
      <4>2. i \in 1 .. cursor - 1
        BY <2>1, <3>2, <4>1 DEF Current
      <4>3. QED
        BY <4>1, <4>2 DEF RunnerInv, RunInv, LoopInv
    <3>3. QED
      BY <3>1, <3>2 DEF Started
  <2>4. {n \in Node : phase[n] = "FAILED"} = failedNode \/ outcome # "failed"
    BY <2>3
  <2>5. outcome = "success" => runPhase = "SUCCESS"
    BY DEF RunnerInv, RunInv, EndInv
  <2>6. outcome = "failed" => runPhase = "FAILED"
    BY DEF RunnerInv, RunInv, EndInv
  <2>7. outcome = "raised" => runPhase = "PENDING" /\ ~ \E n \in Node : Started(n)
    BY DEF RunnerInv, RunInv, LoopInv, EndInv
  <2>8. \A n \in Node : results[n] = "ok" <=> phase[n] = "SUCCESS"
    BY DEF RunnerInv, RunInv, BooksInv
  <2>9. QED
    BY <2>2, <2>3, <2>4, <2>5, <2>6, <2>7, <2>8 DEF VerdictMatchesNodes
<1>2. QED
  BY <1>1, RunnerInvHolds, PTL

\* A step leaves the verdict on a node that has ended as it is.
LEMMA StepKeepsVerdicts ==
    ASSUME RunnerInv, Next, NEW n \in Node, phase[n] \in {"SUCCESS", "FAILED"}
    PROVE  phase'[n] = phase[n]
<1>1. ASSUME step \in {"pick", "await"}, cursor <= Len(order), UNCHANGED sortVars
      PROVE  n # Current
  BY <1>1, AtCurrent
<1>2. CASE RejectNodeType \/ StartNode
  <2>1. n # Current
    BY <1>1, <1>2 DEF RejectNodeType, StartNode
  <2>2. QED
    BY <1>2, <2>1 DEF RejectNodeType, StartNode, ReturnFailed, RunnerInv, TypeOK
<1>3. CASE NodeReturns
  <2>1. n # Current
    BY <1>1, <1>3 DEF NodeReturns, NodeSucceeds, NodeReportsFailure, NodeRaises,
                      RunnerInv, RunInv, LoopInv
  <2>2. QED
    BY <1>3, <2>1 DEF NodeReturns, NodeSucceeds, NodeReportsFailure, NodeRaises,
                      ReturnFailed, RunnerInv, TypeOK
<1>4. CASE Sort \/ RaiseRejected \/ StartRun \/ FinishRun \/ Cancel
  BY <1>4 DEF Sort, RaiseRejected, StartRun, FinishRun, Cancel, runVars
<1>5. QED
  BY <1>2, <1>3, <1>4 DEF Next, Advance

\* The verdict on a node is final.
THEOREM VerdictsAreFinal ==
    ASSUME UniqueIdLists
    PROVE  Spec => EndedNodesStayEnded
<1>1. RunnerInv /\ [Next]_vars =>
        [\A n \in Node : phase[n] \in {"SUCCESS", "FAILED"} => phase'[n] = phase[n]]_vars
  BY StepKeepsVerdicts
<1>2. QED
  BY <1>1, RunnerInvHolds, PTL DEF Spec, EndedNodesStayEnded

-----------------------------------------------------------------------------
\* The runner implements DagExecution.

LEMMA DagStatesOf ==
    ASSUME NEW p \in NodePhases
    PROVE  /\ p = "ABSENT" <=> DagStateOf(p) = "waiting"
           /\ p = "RUNNING" <=> DagStateOf(p) = "running"
           /\ p = "SUCCESS" <=> DagStateOf(p) = "done"
           /\ p = "FAILED" <=> DagStateOf(p) = "failed"
  BY Zenon DEF NodePhases, DagStateOf

LEMMA DagStates ==
    ASSUME TypeOK, NEW n \in Node
    PROVE  /\ phase[n] = "ABSENT" <=> DagState[n] = "waiting"
           /\ phase[n] = "RUNNING" <=> DagState[n] = "running"
           /\ phase[n] = "SUCCESS" <=> DagState[n] = "done"
           /\ phase[n] = "FAILED" <=> DagState[n] = "failed"
<1>1. phase[n] \in NodePhases
  BY DEF TypeOK
<1>2. DagState[n] = DagStateOf(phase[n])
  BY DEF DagState
<1>3. QED
  BY <1>1, <1>2, DagStatesOf

\* The graphs that can be executed are those that can be ordered.
LEMMA OrderableIsExecutable ==
    ASSUME SortTypeOK
    PROVE  Dag!Executable <=> Orderable
<1>1. /\ \A n : Dag!ParentsOf(n) = Parents(n)
      /\ ToSet(edges) \subseteq Node \X Node
  BY ToSetType DEF Dag!ParentsOf, Parents, SortTypeOK
<1>2. ToSet(edges) \subseteq Ids \X Ids <=> ~HasUnknownEndpoint
  BY <1>1 DEF HasUnknownEndpoint
<1>3. QED
  BY <1>1, <1>2 DEF Dag!Executable, Orderable, Cyclic

\* A step that only changes the phase of n changes only the state of n.
LEMMA DagStep ==
    ASSUME NEW n \in Node, \A m \in Node \ {n} : phase'[m] = phase[m]
    PROVE  DagState' = [DagState EXCEPT ![n] = DagStateOf(phase'[n])]
  BY DEF DagState

\* Where the loop is going to start a node, and when it runs one.
LEMMA DagAtCurrent ==
    ASSUME RunnerInv, step \in {"pick", "await"}, cursor <= Len(order)
    PROVE  /\ Dag!Executable
           /\ Current \in Node
           /\ step = "pick" => Dag!Idle /\ Dag!Ready(Current)
           /\ step = "await" => DagState[Current] = "running"
           /\ DagVerdict = "open"
<1>1. /\ sorter = "ordered"
      /\ outcome = "none"
      /\ Current \in Node
      /\ cursor \in 1 .. Len(order)
      /\ Len(order) \in Nat
  BY OrderElements DEF RunnerInv, RunInv, LoopInv, EndInv, TypeOK, Outcomes
<1>2. Dag!Executable
  BY <1>1, OrderableIsExecutable
     DEF RunnerInv, SortInv, RejectsOnlyUnorderable, TypeOK
<1>3. phase[Current] = IF step = "pick" THEN "ABSENT" ELSE "RUNNING"
  BY <1>1 DEF RunnerInv, RunInv, LoopInv
<1>4. DagVerdict = "open"
  BY <1>1, Zenon DEF DagVerdict
<1>5. ASSUME step = "pick"
      PROVE  Dag!Idle /\ Dag!Ready(Current)
  <2>1. ASSUME NEW n \in Node
        PROVE  phase[n] # "RUNNING"
    <3>1. CASE Started(n)
      <4>1. PICK i \in 1 .. cursor : i <= Len(order) /\ order[i] = n
        BY <3>1 DEF RunnerInv, RunInv, LoopInv
      <4>2. CASE i = cursor
        BY <1>3, <1>5, <4>1, <4>2 DEF Current
      <4>3. CASE i # cursor
        <5>1. i \in 1 .. cursor - 1
          BY <1>1, <4>3
        <5>2. QED
          BY <4>1, <5>1 DEF RunnerInv, RunInv, LoopInv
      <4>4. QED
        BY <4>2, <4>3
    <3>2. QED
      BY <3>1 DEF Started
  <2>2. Dag!Idle
    BY <2>1, DagStates DEF Dag!Idle, RunnerInv
  <2>3. Current \in Ids
    BY <1>1, OrderElements DEF RunnerInv, Current
  <2>4. \A p \in Dag!ParentsOf(Current) : DagState[p] = "done"
    <3>1. \A p \in Parents(Current) : p \in Node /\ phase[p] = "SUCCESS"
      BY <1>1, ParentsAreDone DEF Parents
    <3>2. Dag!ParentsOf(Current) = Parents(Current)
      BY DEF Dag!ParentsOf, Parents
    <3>3. QED
      BY <3>1, <3>2, DagStates DEF RunnerInv
  <2>5. DagState[Current] = "waiting"
    BY <1>1, <1>3, <1>5, DagStates DEF RunnerInv
  <2>6. QED
    BY <2>2, <2>3, <2>4, <2>5 DEF Dag!Ready
<1>6. step = "await" => DagState[Current] = "running"
  BY <1>1, <1>3, DagStates DEF RunnerInv
<1>7. QED
  BY <1>1, <1>2, <1>4, <1>5, <1>6

\* The node the loop is at fails.
LEMMA FailureIsDagFail ==
    ASSUME RunnerInv, step \in {"pick", "await"}, cursor <= Len(order),
           ReturnFailed(Current), UNCHANGED sortVars
    PROVE  Dag!Fail(Current)
<1>1. /\ Dag!Executable
      /\ Current \in Node
      /\ DagVerdict = "open"
      /\ DagState[Current] = "running" \/ (Dag!Idle /\ Dag!Ready(Current))
  BY DagAtCurrent
<1>2. /\ phase'[Current] = "FAILED"
      /\ \A m \in Node \ {Current} : phase'[m] = phase[m]
      /\ outcome' = "failed"
  BY <1>1 DEF ReturnFailed, RunnerInv, TypeOK
<1>3. DagStateOf("FAILED") = "failed"
  BY DagStatesOf DEF NodePhases
<1>4. DagState' = [DagState EXCEPT ![Current] = "failed"]
  BY <1>1, <1>2, <1>3, DagStep
<1>5. DagVerdict' = "failed"
  BY <1>2, Zenon DEF DagVerdict
<1>6. UNCHANGED <<Ids, ToSet(edges)>>
  BY DEF sortVars, Ids
<1>7. QED
  BY <1>1, <1>4, <1>5, <1>6 DEF Dag!Fail

LEMMA StartNodeIsDagBegin ==
    ASSUME RunnerInv, StartNode
    PROVE  Dag!Begin(Current)
<1>1. step = "pick" /\ cursor <= Len(order) /\ UNCHANGED sortVars
  BY DEF StartNode
<1>2. /\ Dag!Executable
      /\ Current \in Node
      /\ DagVerdict = "open"
      /\ Dag!Idle /\ Dag!Ready(Current)
  BY <1>1, DagAtCurrent
<1>3. /\ phase'[Current] = "RUNNING"
      /\ \A m \in Node \ {Current} : phase'[m] = phase[m]
      /\ outcome' = outcome
  BY <1>2 DEF StartNode, RunnerInv, TypeOK
<1>4. DagStateOf("RUNNING") = "running"
  BY DagStatesOf DEF NodePhases
<1>5. DagState' = [DagState EXCEPT ![Current] = "running"]
  BY <1>2, <1>3, <1>4, DagStep
<1>6. DagVerdict' = DagVerdict
  BY <1>3 DEF DagVerdict
<1>7. UNCHANGED <<Ids, ToSet(edges)>>
  BY <1>1 DEF sortVars, Ids
<1>8. QED
  BY <1>2, <1>5, <1>6, <1>7 DEF Dag!Begin

LEMMA NodeSucceedsIsDagComplete ==
    ASSUME RunnerInv, NodeSucceeds
    PROVE  Dag!Complete(Current)
<1>1. step = "await" /\ cursor <= Len(order) /\ UNCHANGED sortVars
  BY DEF NodeSucceeds, RunnerInv, RunInv, LoopInv
<1>2. /\ Current \in Node
      /\ DagVerdict = "open"
      /\ DagState[Current] = "running"
  BY <1>1, DagAtCurrent
<1>3. /\ phase'[Current] = "SUCCESS"
      /\ \A m \in Node \ {Current} : phase'[m] = phase[m]
      /\ outcome' = outcome
  BY <1>2 DEF NodeSucceeds, RunnerInv, TypeOK
<1>4. DagStateOf("SUCCESS") = "done"
  BY DagStatesOf DEF NodePhases
<1>5. DagState' = [DagState EXCEPT ![Current] = "done"]
  BY <1>2, <1>3, <1>4, DagStep
<1>6. DagVerdict' = DagVerdict
  BY <1>3 DEF DagVerdict
<1>7. UNCHANGED <<Ids, ToSet(edges)>>
  BY <1>1 DEF sortVars, Ids
<1>8. QED
  BY <1>2, <1>5, <1>6, <1>7 DEF Dag!Complete

\* The steps that end the run without touching a node.
LEMMA EndIsDagEnd ==
    ASSUME RunnerInv, RaiseRejected \/ FinishRun \/ Cancel
    PROVE  Dag!Succeed \/ Dag!Refuse \/ Dag!Abort
<1>1. /\ UNCHANGED <<Ids, ToSet(edges), DagState>>
      /\ outcome = "none"
      /\ SortTypeOK
  BY DEF RaiseRejected, FinishRun, Cancel, sortVars, Ids, DagState, RunnerInv, RunInv,
         EndInv, TypeOK, Outcomes
<1>2. DagVerdict = "open"
  BY <1>1, Zenon DEF DagVerdict
<1>3. CASE RaiseRejected
  <2>1. ~Dag!Executable
    BY <1>1, <1>3, OrderableIsExecutable
       DEF RaiseRejected, RunnerInv, SortInv, RejectsOnlyUnorderable
  <2>2. outcome' = "raised"
    BY <1>3 DEF RaiseRejected
  <2>3. DagVerdict' = "refused"
    BY <2>2, Zenon DEF DagVerdict
  <2>4. QED
    BY <1>1, <1>2, <2>1, <2>3 DEF Dag!Refuse
<1>4. CASE FinishRun
  <2>1. /\ sorter = "ordered"
        /\ cursor = Len(order) + 1
        /\ Len(order) \in Nat
        /\ Ids \subseteq Node
    BY <1>4, OrderElements
       DEF FinishRun, LoopIsOver, RunnerInv, RunInv, LoopInv, TypeOK
  <2>2. Dag!Executable
    BY <1>1, <2>1, OrderableIsExecutable
       DEF RunnerInv, SortInv, RejectsOnlyUnorderable
  <2>3. \A n \in Ids : phase[n] = "SUCCESS"
    <3> SUFFICES ASSUME NEW n \in Ids
                 PROVE  phase[n] = "SUCCESS"
      OBVIOUS
    <3>1. PICK i \in 1 .. Len(order) : order[i] = n
      BY <2>1, OrderIsGood, OrderElements DEF RunnerInv, ToSet
    <3>2. i \in 1 .. cursor - 1
      BY <2>1
    <3>3. QED
      BY <3>1, <3>2 DEF RunnerInv, RunInv, LoopInv
  <2>4. \A n \in Ids : DagState[n] = "done"
    BY <2>1, <2>3, DagStates DEF RunnerInv
  <2>5. outcome' = "success"
    BY <1>4 DEF FinishRun
  <2>6. DagVerdict' = "success"
    BY <2>5, Zenon DEF DagVerdict
  <2>7. QED
    BY <1>1, <1>2, <2>2, <2>4, <2>6 DEF Dag!Succeed
<1>5. CASE Cancel
  <2>1. step = "await" /\ cursor <= Len(order)
    BY <1>5 DEF Cancel, RunnerInv, RunInv, LoopInv
  <2>2. Current \in Node /\ DagState[Current] = "running"
    BY <2>1, DagAtCurrent
  <2>3. outcome' = "cancelled"
    BY <1>5 DEF Cancel
  <2>4. DagVerdict' = "aborted"
    BY <2>3, Zenon DEF DagVerdict
  <2>5. QED
    BY <1>1, <1>2, <2>2, <2>4 DEF Dag!Abort, Dag!Idle
<1>6. QED
  BY <1>3, <1>4, <1>5

\* run() implements the abstract execution of a DAG: it adds the computation of
\* an order, and one order among those allowed.
THEOREM RunnerImplementsDag ==
    ASSUME UniqueIdLists
    PROVE  Spec => ImplementsDag
<1>1. Init /\ TypeOK => Dag!Init
  <2> SUFFICES ASSUME Init, TypeOK
               PROVE  Dag!Init
    OBVIOUS
  <2>1. Ids \in SUBSET Node /\ ToSet(edges) \in SUBSET (Node \X Node)
    BY ToSetType DEF TypeOK, SortTypeOK, Ids
  <2>2. DagStateOf("ABSENT") = "waiting"
    BY DagStatesOf DEF NodePhases
  <2>3. DagState = [n \in Node |-> "waiting"]
    BY <2>2 DEF Init, RunnerInit, DagState
  <2>4. outcome = "none"
    BY DEF Init, RunnerInit
  <2>5. DagVerdict = "open"
    BY <2>4, Zenon DEF DagVerdict
  <2>6. QED
    BY <2>1, <2>3, <2>5 DEF Dag!Init
<1>2. RunnerInv /\ [Next]_vars => [Dag!Next]_(Dag!dagVars)
  <2> SUFFICES ASSUME RunnerInv, [Next]_vars
               PROVE  Dag!Next \/ UNCHANGED Dag!dagVars
    OBVIOUS
  <2>1. CASE Sort \/ StartRun \/ UNCHANGED vars
    <3>1. UNCHANGED <<ids, edges, phase, outcome>>
      BY <2>1 DEF Sort, StartRun, SortNext, RejectUnknownEndpoint, RejectNoRoot,
         EnqueueRoots, VisitNext, FinishSort, vars, runVars, sortVars
    <3>2. QED
      BY <3>1 DEF Dag!dagVars, Ids, DagState, DagVerdict
  <2>2. CASE RaiseRejected \/ FinishRun \/ Cancel
    BY <2>2, EndIsDagEnd DEF Dag!Next
  <2>3. CASE StartNode
    <3>1. Current \in Node
      BY <2>3, DagAtCurrent DEF StartNode
    <3>2. QED
      BY <2>3, <3>1, StartNodeIsDagBegin DEF Dag!Next
  <2>4. CASE NodeSucceeds
    <3>1. Current \in Node
      BY <2>4, DagAtCurrent DEF NodeSucceeds, RunnerInv, RunInv, LoopInv
    <3>2. QED
      BY <2>4, <3>1, NodeSucceedsIsDagComplete DEF Dag!Next
  <2>5. CASE RejectNodeType \/ NodeReportsFailure \/ NodeRaises
    <3>1. /\ step \in {"pick", "await"}
          /\ cursor <= Len(order)
          /\ ReturnFailed(Current)
          /\ UNCHANGED sortVars
      BY <2>5 DEF RejectNodeType, NodeReportsFailure, NodeRaises, RunnerInv, RunInv,
                  LoopInv
    <3>2. Current \in Node
      BY <3>1, DagAtCurrent
    <3>3. QED
      BY <3>1, <3>2, FailureIsDagFail DEF Dag!Next
  <2>6. QED
    BY <2>1, <2>2, <2>3, <2>4, <2>5 DEF Next, Advance, NodeReturns
<1>3. QED
  BY <1>1, <1>2, RunnerInvHolds, Typing, PTL DEF Spec, ImplementsDag, Dag!Spec

=============================================================================
