------------------------ MODULE EmbeddingIndexProofs -------------------------
(***************************************************************************)
(* What holds of embedding.index for any number of runs, any records and   *)
(* any sizes of batches: a vector, reused or not, is that of a record with *)
(* the id of the one it is given to, however appends to the file fail; and *)
(* while none has failed, a resumed run sends no record again that a run   *)
(* before it has saved.                                                    *)
(***************************************************************************)
EXTENDS EmbeddingIndex, FiniteSetTheorems, SequenceTheorems, WellFoundedInduction, TLAPS

-----------------------------------------------------------------------------
\* The invariant.

\* What a line may be: the vector of a record under that record's id.
FittingLines ==
    {line \in [key : {IdOf[x] : x \in Record}, vector : Record] :
        line.key = IdOf[line.vector]}

Vectors == Record \cup {NoVector}

\* What a run with input c may have: vectors V, of the pending P those in G have
\* come back, K of them are kept.
Fits(c, state, V, P, G, K, W) ==
    /\ state \in {"new"} \cup Live \cup Ended
    /\ V \in [DOMAIN c.records -> Vectors]
    /\ P \in Seq(DOMAIN c.records)
    /\ G \in Seq(Vectors)
    /\ Len(G) <= Len(P)
    /\ K \in 0 .. Len(G)
    /\ W \in 0 .. Len(c.records)
    /\ state = "new" => G = <<>> /\ K = 0
    /\ \A k \in DOMAIN G : G[k] = NoVector \/ G[k] = c.records[P[k]]
    /\ \A i \in DOMAIN V : V[i] # NoVector => IdOf[V[i]] = IdOf[c.records[i]]
    /\ state = "done" /\ ~c.allow => \A i \in DOMAIN V : V[i] # NoVector

RunFits(r) ==
    Fits(conf[r], pc[r], vectors[r], pending[r], got[r], kept[r], withVector[r])

OneHasLoop == \A r \in Run : \A s \in Run \ {r} : ~(pc[r] = "run" /\ pc[s] = "run")

IndexInv ==
    /\ FileTypeOK
    /\ lines \in Seq(FittingLines)
    /\ conf \in [Run -> Configs]
    /\ before \in [Run -> SUBSET Run]
    /\ DOMAIN pc = Run /\ DOMAIN vectors = Run /\ DOMAIN pending = Run
    /\ DOMAIN got = Run /\ DOMAIN kept = Run /\ DOMAIN withVector = Run
    /\ pc = [r \in Run |-> pc[r]]
    /\ vectors = [r \in Run |-> vectors[r]]
    /\ pending = [r \in Run |-> pending[r]]
    /\ got = [r \in Run |-> got[r]]
    /\ kept = [r \in Run |-> kept[r]]
    /\ withVector = [r \in Run |-> withVector[r]]
    /\ \A r \in Run : RunFits(r)
    /\ OneHasLoop

-----------------------------------------------------------------------------
\* Lemmas about the file.

LEMMA FrontTyping ==
    ASSUME NEW S, NEW s \in Seq(S)
    PROVE  s # <<>> => Front(s) \in Seq(S)
<1> SUFFICES ASSUME s # <<>> PROVE Front(s) \in Seq(S)
  OBVIOUS
<1>1. Len(s) \in Nat \ {0}
  OBVIOUS
<1>2. SubSeq(s, 1, Len(s) - 1) \in Seq(S)
  BY <1>1
<1> QED
  BY <1>2 DEF Front

\* Whether it succeeds or fails, an append leaves a file of fitting lines.
LEMMA AppendKeepsFile ==
    ASSUME FileTypeOK, lines \in Seq(FittingLines),
           NEW line \in FittingLines, AppendLine(line) \/ BadAppend(line)
    PROVE  FileTypeOK' /\ lines' \in Seq(FittingLines)
<1>1. /\ Joined \in Seq(FittingLines)
      /\ Append(lines, line) \in Seq(FittingLines) /\ Append(lines, line) # <<>>
  BY FrontTyping DEF FileTypeOK, Joined
<1>2. CASE AppendLine(line)
  BY <1>1, <1>2 DEF AppendLine, FileTypeOK
<1>3. CASE BadAppend(line)
  <2>1. badAppends' \in 0 .. MaxBadAppends
    BY <1>3, FileAssumption DEF BadAppend, FileTypeOK
  <2>2. CASE UNCHANGED <<lines, ending, legible>>
    BY <1>3, <2>1, <2>2 DEF BadAppend, FileTypeOK
  <2>3. CASE lines' = Joined /\ ending' = "torn" /\ legible' \in {legible, FALSE}
    BY <1>1, <1>3, <2>1, <2>3 DEF BadAppend, FileTypeOK
  <2>4. CASE lines' = Append(lines, line) /\ ending' = "unended" /\ UNCHANGED legible
    <3>1. lines' # <<>>
      BY <1>1, <2>4
    <3> QED
      BY <1>1, <1>3, <2>1, <2>4, <3>1 DEF BadAppend, FileTypeOK
  <2> QED
    BY <1>3, <2>2, <2>3, <2>4 DEF BadAppend
<1> QED
  BY <1>2, <1>3

LEMMA ClearKeepsFile ==
    ASSUME FileTypeOK, ClearFile
    PROVE  FileTypeOK' /\ lines' \in Seq(FittingLines)
<1>1. clears' \in 0 .. MaxClears
  BY FileAssumption DEF ClearFile, FileTypeOK
<1> QED
  BY <1>1 DEF ClearFile, FileTypeOK

\* What is reused for a record fits it.
LEMMA CachedFits ==
    ASSUME lines \in Seq(FittingLines), NEW r \in Run, NEW i, NEW v \in Cached(r, i)
    PROVE  v \in Record /\ IdOf[v] = IdOf[conf[r].records[i]]
<1>1. PICK line \in Loaded : line.key = Id(r, i) /\ v = line.vector
  BY DEF Cached
<1>2. line \in FittingLines
  BY <1>1 DEF Loaded, LastPerKey
<1> QED
  BY <1>1, <1>2 DEF FittingLines, Id

-----------------------------------------------------------------------------
\* Lemmas about a run.

LEMMA ConfTyping ==
    ASSUME conf \in [Run -> Configs], NEW r \in Run
    PROVE  /\ conf[r] \in [records : Seq(Record), func : BOOLEAN, resume : BOOLEAN,
                           allow : BOOLEAN, batch : Nat \ {0}]
           /\ conf[r].records \in Seq(Record)
           /\ DOMAIN conf[r].records = 1 .. Len(conf[r].records)
           /\ Len(conf[r].records) \in Nat
<1>1. conf[r] \in [records : Seq(Record), func : BOOLEAN, resume : BOOLEAN,
                   allow : BOOLEAN, batch : Nat \ {0}]
  BY IndexAssumption
<1>2. conf[r].records \in Seq(Record)
  BY <1>1
<1> QED
  BY <1>1, <1>2

LEMMA AscendingTyping ==
    ASSUME NEW T, NEW S \in SUBSET T, IsFiniteSet(S), NEW p \in Ascending(S)
    PROVE  p \in Seq(T)
<1>1. Cardinality(S) \in Nat
  BY FS_CardinalityType
<1>2. p \in [1 .. Cardinality(S) -> T]
  BY DEF Ascending
<1> QED
  BY <1>1, <1>2

\* A step of one run, by what it leaves that run with.
LEMMA OneRunMoves ==
    ASSUME IndexInv, NEW r \in Run,
           FileTypeOK', lines' \in Seq(FittingLines), before' \in [Run -> SUBSET Run],
           conf' = conf,
           NEW C, pc' = [pc EXCEPT ![r] = C],
           NEW V, vectors' = [vectors EXCEPT ![r] = V],
           NEW P, pending' = [pending EXCEPT ![r] = P],
           NEW G, got' = [got EXCEPT ![r] = G],
           NEW K, kept' = [kept EXCEPT ![r] = K],
           NEW W, withVector' = [withVector EXCEPT ![r] = W],
           Fits(conf[r], C, V, P, G, K, W),
           C = "run" => \A s \in Run : pc[s] = "run" => s = r
    PROVE  IndexInv'
<1>1. /\ DOMAIN pc = Run /\ DOMAIN vectors = Run /\ DOMAIN pending = Run
      /\ DOMAIN got = Run /\ DOMAIN kept = Run /\ DOMAIN withVector = Run
  BY DEF IndexInv
<1>2. /\ pc' = [s \in Run |-> IF s = r THEN C ELSE pc[s]]
      /\ vectors' = [s \in Run |-> IF s = r THEN V ELSE vectors[s]]
      /\ pending' = [s \in Run |-> IF s = r THEN P ELSE pending[s]]
      /\ got' = [s \in Run |-> IF s = r THEN G ELSE got[s]]
      /\ kept' = [s \in Run |-> IF s = r THEN K ELSE kept[s]]
      /\ withVector' = [s \in Run |-> IF s = r THEN W ELSE withVector[s]]
  BY <1>1
<1>3. \A s \in Run : RunFits(s)'
  <2>1. RunFits(r)'
    BY <1>2 DEF RunFits
  <2>2. ASSUME NEW s \in Run, s # r PROVE RunFits(s)'
    BY <1>2, <2>2 DEF RunFits, IndexInv
  <2> QED
    BY <2>1, <2>2
<1>4. OneHasLoop'
  BY <1>2 DEF OneHasLoop, IndexInv
<1>5. conf' \in [Run -> Configs]
  BY DEF IndexInv
<1>6. /\ DOMAIN pc' = Run /\ DOMAIN vectors' = Run /\ DOMAIN pending' = Run
      /\ DOMAIN got' = Run /\ DOMAIN kept' = Run /\ DOMAIN withVector' = Run
      /\ pc' = [s \in Run |-> pc'[s]] /\ vectors' = [s \in Run |-> vectors'[s]]
      /\ pending' = [s \in Run |-> pending'[s]] /\ got' = [s \in Run |-> got'[s]]
      /\ kept' = [s \in Run |-> kept'[s]] /\ withVector' = [s \in Run |-> withVector'[s]]
  BY <1>2
<1> QED
  BY <1>3, <1>4, <1>5, <1>6 DEF IndexInv

-----------------------------------------------------------------------------
\* The initial states and the steps.

LEMMA InitFits ==
    ASSUME Init
    PROVE  IndexInv
<1>1. /\ conf \in [Run -> Configs]
      /\ pc = [r \in Run |-> "new"]
      /\ vectors = [r \in Run |-> [i \in DOMAIN conf[r].records |-> NoVector]]
      /\ pending = [r \in Run |-> <<>>] /\ got = [r \in Run |-> <<>>]
      /\ kept = [r \in Run |-> 0] /\ withVector = [r \in Run |-> 0]
      /\ before = [r \in Run |-> {}]
  BY DEF Init
<1>2. FileTypeOK /\ lines \in Seq(FittingLines)
  BY FileAssumption DEF Init, FileInit, FileTypeOK
<1>3. ASSUME NEW r \in Run PROVE RunFits(r)
  <2>1. /\ pc[r] = "new" /\ pending[r] = <<>> /\ got[r] = <<>> /\ kept[r] = 0
        /\ withVector[r] = 0
        /\ vectors[r] = [i \in DOMAIN conf[r].records |-> NoVector]
    BY <1>1
  <2>2. Len(conf[r].records) \in Nat
    BY <1>1, ConfTyping
  <2> QED
    BY <2>1, <2>2 DEF RunFits, Fits, Vectors
<1>4. OneHasLoop
  BY <1>1 DEF OneHasLoop
<1>5. before \in [Run -> SUBSET Run]
  BY <1>1
<1> QED
  BY <1>1, <1>2, <1>3, <1>4, <1>5 DEF IndexInv

LEMMA Unmoved ==
    ASSUME IndexInv, NEW r \in Run
    PROVE  /\ pc = [pc EXCEPT ![r] = pc[r]]
           /\ vectors = [vectors EXCEPT ![r] = vectors[r]]
           /\ pending = [pending EXCEPT ![r] = pending[r]]
           /\ got = [got EXCEPT ![r] = got[r]]
           /\ kept = [kept EXCEPT ![r] = kept[r]]
           /\ withVector = [withVector EXCEPT ![r] = withVector[r]]
           /\ RunFits(r)
BY DEF IndexInv

LEMMA FileUnmoved ==
    ASSUME IndexInv, UNCHANGED fileVars
    PROVE  FileTypeOK' /\ lines' \in Seq(FittingLines)
BY DEF IndexInv, fileVars, FileTypeOK

LEMMA StartFits ==
    ASSUME IndexInv, NEW r \in Run, Start(r)
    PROVE  IndexInv'
<1> DEFINE reused == [i \in DOMAIN conf[r].records |->
                        IF conf[r].resume THEN Cached(r, i) ELSE {}]
           open == {i \in DOMAIN reused : conf[r].func /\ reused[i] = {}}
<1>1. PICK v \in [DOMAIN reused -> Record \cup {NoVector}] :
          /\ \A i \in DOMAIN v : IF reused[i] = {} THEN v[i] = NoVector
                                                 ELSE v[i] \in reused[i]
          /\ vectors' = [vectors EXCEPT ![r] = v]
  BY DEF Start
<1>2. PICK p \in Ascending(open) : pending' = [pending EXCEPT ![r] = p]
  BY DEF Start
<1>3. /\ pc[r] = "new" /\ LoopIsFree /\ pc' = [pc EXCEPT ![r] = "run"]
      /\ before' = [before EXCEPT ![r] = {s \in Run : pc[s] \in Ended}]
      /\ UNCHANGED <<fileVars, conf, got, kept, withVector>>
  BY DEF Start
<1>4. conf \in [Run -> Configs] /\ before \in [Run -> SUBSET Run] /\ lines \in Seq(FittingLines)
  BY DEF IndexInv
<1>5. RunFits(r)
  BY Unmoved
<1>6. DOMAIN reused = DOMAIN conf[r].records
      /\ DOMAIN conf[r].records = 1 .. Len(conf[r].records) /\ Len(conf[r].records) \in Nat
  BY <1>4, ConfTyping
<1>7. p \in Seq(DOMAIN conf[r].records)
  <2>1. IsFiniteSet(1 .. Len(conf[r].records))
    BY <1>6, FS_Interval
  <2>2. open \in SUBSET (1 .. Len(conf[r].records))
    BY <1>6
  <2>3. IsFiniteSet(open)
    BY <2>1, <2>2, FS_Subset
  <2> HIDE DEF open
  <2> QED
    BY <1>2, <1>6, <2>2, <2>3, AscendingTyping
<1>8. \A i \in DOMAIN v : v[i] # NoVector => IdOf[v[i]] = IdOf[conf[r].records[i]]
  <2> SUFFICES ASSUME NEW i \in DOMAIN v, v[i] # NoVector
               PROVE  IdOf[v[i]] = IdOf[conf[r].records[i]]
    OBVIOUS
  <2>1. i \in DOMAIN conf[r].records
    BY <1>1, <1>6
  <2>2. v[i] \in Cached(r, i)
    BY <1>1, <2>1
  <2> QED
    BY <1>4, <2>2, CachedFits
<1> HIDE DEF reused, open
<1>9. Fits(conf[r], "run", v, p, got[r], kept[r], withVector[r])
  <2>1. got[r] = <<>> /\ kept[r] = 0 /\ withVector[r] \in 0 .. Len(conf[r].records)
    BY <1>3, <1>5 DEF RunFits, Fits
  <2>2. Len(got[r]) = 0 /\ DOMAIN got[r] = {} /\ got[r] \in Seq(Vectors)
    BY <2>1
  <2>3. Len(p) \in Nat
    BY <1>7
  <2> QED
    BY <1>1, <1>6, <1>7, <1>8, <2>1, <2>2, <2>3 DEF Fits, Live, Vectors
<1>10. \A s \in Run : pc[s] = "run" => s = r
  BY <1>3 DEF LoopIsFree
<1>11. before' \in [Run -> SUBSET Run]
  BY <1>3, <1>4
<1>12. UNCHANGED fileVars /\ conf' = conf
       /\ got' = [got EXCEPT ![r] = got[r]] /\ kept' = [kept EXCEPT ![r] = kept[r]]
       /\ withVector' = [withVector EXCEPT ![r] = withVector[r]]
  BY <1>3, Unmoved
<1> QED
  BY <1>1, <1>2, <1>3, <1>9, <1>10, <1>11, <1>12, FileUnmoved, OneRunMoves

LEMMA ReceiveFits ==
    ASSUME IndexInv, NEW r \in Run, ReceiveBatch(r)
    PROVE  IndexInv'
<1> DEFINE n == BatchSize(r)
           c == conf[r]
<1>1. PICK missing \in SUBSET (1 .. n) :
          got' = [got EXCEPT ![r] = got[r] \o
                    [k \in 1 .. n |->
                       IF k \in missing THEN NoVector
                       ELSE c.records[pending[r][Len(got[r]) + k]]]]
  BY DEF ReceiveBatch, IndexInv
<1> DEFINE back == [k \in 1 .. n |-> IF k \in missing THEN NoVector
                                     ELSE c.records[pending[r][Len(got[r]) + k]]]
           G == got[r] \o back
<1>2. got' = [got EXCEPT ![r] = G]
  BY <1>1
<1>3. /\ pc[r] = "await" /\ LoopIsFree /\ pc' = [pc EXCEPT ![r] = "run"]
      /\ UNCHANGED <<fileVars, conf, vectors, pending, kept, withVector, before>>
  BY DEF ReceiveBatch
<1>4. RunFits(r) /\ conf \in [Run -> Configs] /\ before' \in [Run -> SUBSET Run]
  BY <1>3 DEF IndexInv
<1>5. /\ c.records \in Seq(Record) /\ c.batch \in Nat \ {0}
      /\ pending[r] \in Seq(DOMAIN c.records) /\ got[r] \in Seq(Vectors)
      /\ Len(got[r]) <= Len(pending[r]) /\ Len(got[r]) \in Nat /\ Len(pending[r]) \in Nat
  BY <1>4, ConfTyping DEF RunFits, Fits
<1>6. n \in Nat /\ Len(got[r]) + n <= Len(pending[r])
  <2>1. Len(pending[r]) - Len(got[r]) \in Nat /\ conf[r].batch \in Nat
    BY <1>5
  <2>2. \A b, m \in Nat : (IF b < m THEN b ELSE m) \in Nat /\ (IF b < m THEN b ELSE m) <= m
    OBVIOUS
  <2>3. n = IF conf[r].batch < Len(pending[r]) - Len(got[r])
              THEN conf[r].batch ELSE Len(pending[r]) - Len(got[r])
    BY DEF BatchSize
  <2> HIDE DEF n
  <2>4. n \in Nat /\ n <= Len(pending[r]) - Len(got[r])
    BY <2>1, <2>2, <2>3
  <2> QED
    BY <1>5, <2>4
<1>7. \A k \in 1 .. n : Len(got[r]) + k \in 1 .. Len(pending[r])
  BY <1>5, <1>6
<1>8. \A k \in 1 .. n : pending[r][Len(got[r]) + k] \in DOMAIN c.records
  BY <1>5, <1>7
<1>9. \A k \in 1 .. n : c.records[pending[r][Len(got[r]) + k]] \in Record
  BY <1>5, <1>8
<1> HIDE DEF n, c
<1>10. back \in Seq(Vectors) /\ Len(back) = n
  <2>1. back \in [1 .. n -> Vectors]
    BY <1>9 DEF Vectors
  <2> QED
    BY <1>6, <2>1
<1>11. \A k \in 1 .. n : back[k] = NoVector \/ back[k] = c.records[pending[r][Len(got[r]) + k]]
  OBVIOUS
<1> HIDE DEF back
<1>12. /\ G \in Seq(Vectors)
       /\ Len(G) = Len(got[r]) + n
       /\ \A i \in 1 .. Len(got[r]) + n :
            G[i] = IF i <= Len(got[r]) THEN got[r][i] ELSE back[i - Len(got[r])]
  BY <1>5, <1>10, ConcatProperties
<1> HIDE DEF G
<1>13. \A i \in DOMAIN G : G[i] = NoVector \/ G[i] = c.records[pending[r][i]]
  <2> SUFFICES ASSUME NEW i \in DOMAIN G
               PROVE  G[i] = NoVector \/ G[i] = c.records[pending[r][i]]
    OBVIOUS
  <2>1. i \in 1 .. Len(got[r]) + n
    BY <1>5, <1>6, <1>12
  <2>2. CASE i <= Len(got[r])
    <3>1. i \in DOMAIN got[r] /\ G[i] = got[r][i]
      BY <1>5, <1>12, <2>1, <2>2
    <3> QED
      BY <1>4, <3>1 DEF RunFits, Fits, c
  <2>3. CASE ~(i <= Len(got[r]))
    <3>1. i - Len(got[r]) \in 1 .. n /\ Len(got[r]) + (i - Len(got[r])) = i
      <4>1. \A a, b, j \in Nat : j \in 1 .. a + b /\ ~(j <= a) =>
                j - a \in 1 .. b /\ a + (j - a) = j
        OBVIOUS
      <4>2. i \in Nat
        BY <2>1
      <4> QED
        BY <1>5, <1>6, <2>1, <2>3, <4>1, <4>2
    <3>2. G[i] = back[i - Len(got[r])]
      BY <1>12, <2>1, <2>3
    <3> QED
      BY <1>11, <3>1, <3>2
  <2> QED
    BY <2>2, <2>3
<1>14. Fits(c, "run", vectors[r], pending[r], G, kept[r], withVector[r])
  <2>1. kept[r] \in 0 .. Len(G)
    BY <1>4, <1>5, <1>6, <1>12 DEF RunFits, Fits
  <2>2. Len(G) <= Len(pending[r])
    BY <1>6, <1>12
  <2> QED
    BY <1>4, <1>12, <1>13, <2>1, <2>2 DEF RunFits, Fits, Live, c
<1>15. \A s \in Run : pc[s] = "run" => s = r
  BY <1>3 DEF LoopIsFree
<1>16. UNCHANGED fileVars /\ conf' = conf
       /\ vectors' = [vectors EXCEPT ![r] = vectors[r]]
       /\ pending' = [pending EXCEPT ![r] = pending[r]]
       /\ kept' = [kept EXCEPT ![r] = kept[r]]
       /\ withVector' = [withVector EXCEPT ![r] = withVector[r]]
  BY <1>3, Unmoved
<1> QED
  BY <1>2, <1>3, <1>4, <1>14, <1>15, <1>16, FileUnmoved, OneRunMoves DEF c

LEMMA KeepFits ==
    ASSUME IndexInv, NEW r \in Run, Keep(r)
    PROVE  IndexInv'
<1> DEFINE i == Target(r)
           v == got[r][kept[r] + 1]
<1>1. /\ pc[r] = "run" /\ kept[r] < Len(got[r])
      /\ kept' = [kept EXCEPT ![r] = kept[r] + 1]
      /\ UNCHANGED <<conf, pc, pending, got, withVector, before>>
      /\ IF v = NoVector
           THEN UNCHANGED <<fileVars, vectors>>
           ELSE /\ vectors' = [vectors EXCEPT ![r][i] = v]
                /\ Save(r, [key |-> Id(r, i), vector |-> v])
  BY Unmoved DEF Keep
<1>2. RunFits(r) /\ conf \in [Run -> Configs] /\ before' \in [Run -> SUBSET Run]
  BY <1>1 DEF IndexInv
<1>3. /\ got[r] \in Seq(Vectors) /\ pending[r] \in Seq(DOMAIN conf[r].records)
      /\ kept[r] \in 0 .. Len(got[r]) /\ Len(got[r]) <= Len(pending[r])
      /\ vectors[r] \in [DOMAIN conf[r].records -> Vectors]
  BY <1>2 DEF RunFits, Fits
<1>4. kept[r] + 1 \in DOMAIN got[r] /\ kept[r] + 1 \in DOMAIN pending[r]
  BY <1>1, <1>3
<1>5. i \in DOMAIN conf[r].records
  BY <1>3, <1>4 DEF Target
<1>6. v = NoVector \/ v = conf[r].records[i]
  BY <1>2, <1>4 DEF RunFits, Fits, Target
<1> HIDE DEF i, v
<1>7. kept[r] + 1 \in 0 .. Len(got[r])
  BY <1>1, <1>3
<1>8. \A s \in Run : pc[s] = "run" => s = r
  BY <1>1 DEF IndexInv, OneHasLoop
<1>9. /\ conf' = conf /\ pc' = [pc EXCEPT ![r] = pc[r]]
      /\ pending' = [pending EXCEPT ![r] = pending[r]] /\ got' = [got EXCEPT ![r] = got[r]]
      /\ withVector' = [withVector EXCEPT ![r] = withVector[r]]
  BY <1>1, Unmoved
<1>10. CASE v = NoVector
  <2>1. UNCHANGED fileVars /\ vectors' = [vectors EXCEPT ![r] = vectors[r]]
    BY <1>1, <1>10, Unmoved
  <2>2. Fits(conf[r], pc[r], vectors[r], pending[r], got[r], kept[r] + 1, withVector[r])
    BY <1>1, <1>2, <1>7 DEF RunFits, Fits
  <2> QED
    BY <1>1, <1>2, <1>8, <1>9, <2>1, <2>2, FileUnmoved, OneRunMoves
<1>11. CASE v # NoVector
  <2> DEFINE V == [vectors[r] EXCEPT ![i] = v]
  <2>1. v = conf[r].records[i] /\ v \in Record
    <3>1. conf[r].records \in Seq(Record)
      BY <1>2, ConfTyping
    <3> QED
      BY <1>5, <1>6, <1>11, <3>1
  <2>2. vectors' = [vectors EXCEPT ![r] = V]
    BY <1>1, <1>11
  <2>3. /\ V \in [DOMAIN conf[r].records -> Vectors]
        /\ \A j \in DOMAIN V : V[j] = IF j = i THEN v ELSE vectors[r][j]
    BY <1>3, <1>5, <2>1 DEF Vectors
  <2> HIDE DEF V
  <2>4. \A j \in DOMAIN V : V[j] # NoVector => IdOf[V[j]] = IdOf[conf[r].records[j]]
    BY <1>2, <1>3, <2>1, <2>3 DEF RunFits, Fits
  <2>5. Fits(conf[r], pc[r], V, pending[r], got[r], kept[r] + 1, withVector[r])
    BY <1>1, <1>2, <1>7, <2>3, <2>4 DEF RunFits, Fits
  <2>6. FileTypeOK' /\ lines' \in Seq(FittingLines)
    <3> DEFINE line == [key |-> Id(r, i), vector |-> v]
    <3>1. line \in FittingLines
      BY <2>1 DEF FittingLines, Id
    <3>2. Save(r, line)
      BY <1>1, <1>11
    <3> HIDE DEF line
    <3>3. CASE conf[r].resume
      BY <3>1, <3>2, <3>3, AppendKeepsFile DEF Save, IndexInv
    <3>4. CASE ~conf[r].resume
      BY <3>2, <3>4, FileUnmoved DEF Save
    <3> QED
      BY <3>3, <3>4
  <2> QED
    BY <1>1, <1>2, <1>8, <1>9, <2>2, <2>5, <2>6, OneRunMoves
<1> QED
  BY <1>10, <1>11

LEMMA FinishFits ==
    ASSUME IndexInv, NEW r \in Run, Finish(r)
    PROVE  IndexInv'
<1> DEFINE W == IF conf[r].func THEN Cardinality(WithVector(r)) ELSE 0
           C == IF conf[r].allow \/ WithVector(r) = DOMAIN vectors[r] THEN "done" ELSE "failed"
<1>1. /\ withVector' = [withVector EXCEPT ![r] = W] /\ pc' = [pc EXCEPT ![r] = C]
      /\ UNCHANGED <<fileVars, conf, vectors, pending, got, kept, before>>
  BY DEF Finish
<1>2. RunFits(r) /\ conf \in [Run -> Configs] /\ before' \in [Run -> SUBSET Run]
  BY <1>1 DEF IndexInv
<1>3. W \in 0 .. Len(conf[r].records)
  <2>1. DOMAIN vectors[r] = 1 .. Len(conf[r].records) /\ Len(conf[r].records) \in Nat
    BY <1>2, ConfTyping DEF RunFits, Fits
  <2>2. WithVector(r) \in SUBSET (1 .. Len(conf[r].records))
    BY <2>1 DEF WithVector
  <2>3. /\ IsFiniteSet(1 .. Len(conf[r].records))
        /\ Cardinality(1 .. Len(conf[r].records)) = Len(conf[r].records)
    BY <2>1, FS_Interval
  <2>4. Cardinality(WithVector(r)) \in Nat
        /\ Cardinality(WithVector(r)) <= Len(conf[r].records)
    BY <2>2, <2>3, FS_Subset, FS_CardinalityType
  <2> QED
    BY <2>1, <2>4
<1>4. C = "done" /\ ~conf[r].allow => \A i \in DOMAIN vectors[r] : vectors[r][i] # NoVector
  BY DEF WithVector
<1>5. C \in {"done", "failed"}
  OBVIOUS
<1> HIDE DEF C, W
<1>6. Fits(conf[r], C, vectors[r], pending[r], got[r], kept[r], W)
  BY <1>2, <1>3, <1>4, <1>5 DEF RunFits, Fits, Ended
<1>7. UNCHANGED fileVars /\ conf' = conf
      /\ vectors' = [vectors EXCEPT ![r] = vectors[r]]
      /\ pending' = [pending EXCEPT ![r] = pending[r]]
      /\ got' = [got EXCEPT ![r] = got[r]] /\ kept' = [kept EXCEPT ![r] = kept[r]]
  BY <1>1, Unmoved
<1> QED
  BY <1>1, <1>2, <1>5, <1>6, <1>7, FileUnmoved, OneRunMoves

LEMMA StepFits ==
    ASSUME IndexInv, [Next]_vars
    PROVE  IndexInv'
<1>1. ASSUME NEW r \in Run, NEW C \in {"await", "failed"}, pc[r] # "done",
             pc' = [pc EXCEPT ![r] = C],
             UNCHANGED <<fileVars, conf, vectors, pending, got, kept, withVector>>,
             before' \in [Run -> SUBSET Run]
      PROVE  IndexInv'
  <2>1. /\ conf' = conf
        /\ vectors' = [vectors EXCEPT ![r] = vectors[r]]
        /\ pending' = [pending EXCEPT ![r] = pending[r]]
        /\ got' = [got EXCEPT ![r] = got[r]] /\ kept' = [kept EXCEPT ![r] = kept[r]]
        /\ withVector' = [withVector EXCEPT ![r] = withVector[r]]
    BY <1>1, Unmoved
  <2>2. Fits(conf[r], C, vectors[r], pending[r], got[r], kept[r], withVector[r])
    BY <1>1, Unmoved DEF RunFits, Fits, Live, Ended
  <2> QED
    BY <1>1, <2>1, <2>2, FileUnmoved, OneRunMoves
<1>2. before \in [Run -> SUBSET Run]
  BY DEF IndexInv
<1>3. ASSUME NEW r \in Run, Reject(r)
      PROVE  IndexInv'
  <2>1. before' \in [Run -> SUBSET Run]
    BY <1>2, <1>3 DEF Reject
  <2> QED
    BY <1>1, <1>3, <2>1 DEF Reject
<1>4. ASSUME NEW r \in Run, SendBatch(r) \/ LoseBatches(r)
      PROVE  IndexInv'
  BY <1>1, <1>2, <1>4 DEF SendBatch, LoseBatches
<1>5. CASE Clear
  <2>1. ClearFile /\ UNCHANGED <<conf, pc, vectors, pending, got, kept, withVector, before>>
    BY <1>5 DEF Clear, runVars
  <2>2. FileTypeOK' /\ lines' \in Seq(FittingLines)
    BY <2>1, ClearKeepsFile DEF IndexInv
  <2> QED
    BY <2>1, <2>2 DEF IndexInv, RunFits, OneHasLoop
<1>6. CASE Crash
  <2>1. /\ pc' = [r \in Run |-> IF pc[r] \in Live THEN "dead" ELSE pc[r]]
        /\ UNCHANGED <<fileVars, conf, vectors, pending, got, kept, withVector, before>>
    BY <1>6 DEF Crash
  <2>2. FileTypeOK' /\ lines' \in Seq(FittingLines)
    BY <2>1, FileUnmoved
  <2>3. \A r \in Run : RunFits(r)'
    <3> SUFFICES ASSUME NEW r \in Run PROVE RunFits(r)'
      OBVIOUS
    <3>1. RunFits(r) /\ (pc'[r] = "dead" \/ pc'[r] = pc[r])
      BY <2>1 DEF IndexInv
    <3> QED
      BY <2>1, <3>1 DEF RunFits, Fits, Ended
  <2>4. OneHasLoop'
    BY <2>1 DEF OneHasLoop, IndexInv
  <2>5. DOMAIN pc' = Run /\ pc' = [r \in Run |-> pc'[r]]
    BY <2>1
  <2> QED
    BY <2>1, <2>2, <2>3, <2>4, <2>5 DEF IndexInv
<1>7. CASE UNCHANGED vars
  <2>1. UNCHANGED <<fileVars, conf, pc, vectors, pending, got, kept, withVector, before>>
    BY <1>7 DEF vars, runVars
  <2>2. FileTypeOK' /\ lines' \in Seq(FittingLines)
    BY <2>1, FileUnmoved
  <2> QED
    BY <2>1, <2>2 DEF IndexInv, RunFits, OneHasLoop
<1> QED
  BY <1>3, <1>4, <1>5, <1>6, <1>7, StartFits, ReceiveFits, KeepFits, FinishFits
  DEF Next, Step

-----------------------------------------------------------------------------
\* The theorems.

LEMMA IndexInvHolds == Spec => []IndexInv
<1>1. Init => IndexInv
  BY InitFits
<1>2. IndexInv /\ [Next]_vars => IndexInv'
  BY StepFits
<1> QED
  BY <1>1, <1>2, PTL DEF Spec

\* embedding.index keeps its types, and no two runs have the event loop at once.
THEOREM IndexTyping == Spec => []TypeOK
<1>1. ASSUME IndexInv PROVE TypeOK
  <2>1. /\ FileTypeOK /\ conf \in [Run -> Configs] /\ before \in [Run -> SUBSET Run]
        /\ \A r \in Run : RunFits(r)
        /\ pc = [r \in Run |-> pc[r]]
    BY <1>1 DEF IndexInv
  <2>2. pc \in [Run -> {"new"} \cup Live \cup Ended]
    <3>1. \A r \in Run : pc[r] \in {"new"} \cup Live \cup Ended
      BY <2>1 DEF RunFits, Fits
    <3> QED
      BY <2>1, <3>1
  <2>3. \A r \in Run :
          /\ vectors[r] \in [DOMAIN conf[r].records -> Record \cup {NoVector}]
          /\ pending[r] \in Seq(DOMAIN conf[r].records)
          /\ got[r] \in Seq(Record \cup {NoVector})
          /\ kept[r] \in 0 .. Len(got[r])
          /\ withVector[r] \in 0 .. Len(conf[r].records)
    BY <2>1 DEF RunFits, Fits, Vectors
  <2>4. \A r \in Run : \A s \in Run \ {r} : ~(pc[r] = "run" /\ pc[s] = "run")
    BY <1>1 DEF IndexInv, OneHasLoop
  <2> QED
    BY <2>1, <2>2, <2>3, <2>4 DEF TypeOK
<1>2. IndexInv => TypeOK
  BY <1>1
<1> QED
  BY <1>2, IndexInvHolds, PTL

\* Whichever run computed it and whatever happened to the file, a record's vector is
\* that of a record with its id, and a run that is done without permission to go
\* without vectors has one for each.
THEOREM VectorsAlwaysFit == Spec => []VectorsFit
<1>1. ASSUME IndexInv PROVE VectorsFit
  <2> SUFFICES ASSUME NEW r \in Run
               PROVE  /\ \A i \in WithVector(r) : IdOf[vectors[r][i]] = Id(r, i)
                      /\ pc[r] = "done" /\ ~conf[r].allow =>
                           WithVector(r) = DOMAIN vectors[r]
    BY DEF VectorsFit
  <2>1. RunFits(r)
    BY <1>1 DEF IndexInv
  <2> QED
    BY <2>1 DEF RunFits, Fits, WithVector, Id
<1>2. IndexInv => VectorsFit
  BY <1>1
<1> QED
  BY <1>2, IndexInvHolds, PTL

-----------------------------------------------------------------------------
\* What a later run finds in the checkpoint.

HasKey(k) == \E j \in DOMAIN lines : lines[j].key = k

\* The runs that were over have a line for every vector they had, and the line
\* was there when the later run chose what to send.
SavedInv ==
    \A s \in Run : conf[s].resume =>
      \A i \in DOMAIN vectors[s] : vectors[s][i] # NoVector => HasKey(Id(s, i))

ResumeInv ==
    /\ badAppends = 0 => ending = "clean" /\ legible
    /\ \A r \in Run : pc[r] = "new" => pending[r] = <<>>
    /\ \A r \in Run : \A s \in before[r] : pc[s] \in Ended
    /\ badAppends = 0 /\ clears = 0 => SavedInv
    /\ ResumeRepeatsNothing

\* Every non-empty set of numbers has a least one, and a greatest one below a
\* bound.
LEMMA LeastElement ==
    ASSUME NEW T \in SUBSET Nat, T # {}
    PROVE  \E x \in T : \A y \in T : x <= y
<1> DEFINE R == {p \in Nat \X Nat : p[1] < p[2]}
<1>1. IsWellFoundedOn(R, Nat)
  BY NatLessThanWellFounded, Zenon DEF OpToRel
<1>2. \E x \in T : \A y \in T : <<y, x>> \notin R
  <2> HIDE DEF R
  <2> QED
    BY <1>1, WFMin, Zenon
<1>3. \A x, y \in Nat : <<y, x>> \notin R => x <= y
  OBVIOUS
<1> HIDE DEF R
<1>4. QED
  BY <1>2, <1>3

LEMMA GreatestElement ==
    ASSUME NEW k \in Nat, NEW T \in SUBSET (1 .. k), T # {}
    PROVE  \E x \in T : \A y \in T : y <= x
<1> DEFINE U == {k - y : y \in T}
<1>1. \A y \in T : k - y \in Nat
  OBVIOUS
<1>2. U \in SUBSET Nat /\ U # {}
  BY <1>1
<1>3. PICK u \in U : \A v \in U : u <= v
  <2> HIDE DEF U
  <2> QED
    BY <1>2, LeastElement
<1>4. PICK x \in T : u = k - x
  OBVIOUS
<1>5. \A y \in T : u <= k - y
  BY <1>3
<1>6. \A y \in T : y \in Int
  OBVIOUS
<1> HIDE DEF U
<1>7. \A y \in T : y <= x
  BY <1>4, <1>5, <1>6
<1>8. QED
  BY <1>7

\* Reading a file keeps one line of every key.
LEMMA LastOfKey ==
    ASSUME NEW S, NEW ls \in Seq(S), NEW j \in DOMAIN ls
    PROVE  \E line \in LastPerKey(ls) : line.key = ls[j].key
<1> DEFINE T == {i \in DOMAIN ls : ls[i].key = ls[j].key}
<1>1. Len(ls) \in Nat /\ DOMAIN ls = 1 .. Len(ls)
  OBVIOUS
<1>2. PICK i \in T : \A k \in T : k <= i
  <2>1. T \in SUBSET (1 .. Len(ls)) /\ T # {}
    BY <1>1
  <2> HIDE DEF T
  <2>2. QED
    BY <1>1, <2>1, GreatestElement
<1>3. ls[i] \in LastPerKey(ls)
  BY <1>2 DEF LastPerKey
<1>4. QED
  BY <1>2, <1>3

LEMMA AppendAny ==
    ASSUME NEW S, NEW s \in Seq(S), NEW e
    PROVE  /\ Len(s) \in Nat
           /\ DOMAIN s = 1 .. Len(s)
           /\ DOMAIN Append(s, e) = 1 .. Len(s) + 1
           /\ Append(s, e)[Len(s) + 1] = e
           /\ \A i \in 1 .. Len(s) : Append(s, e)[i] = s[i]
OBVIOUS

\* A file that is whole has a cached vector for each of its keys.
LEMMA WholeFileHasCached ==
    ASSUME IndexInv, legible, NEW r \in Run, NEW i, HasKey(Id(r, i))
    PROVE  Cached(r, i) # {}
<1>1. lines \in Seq(FittingLines)
  BY DEF IndexInv
<1>2. PICK j \in DOMAIN lines : lines[j].key = Id(r, i)
  BY DEF HasKey
<1>3. PICK line \in LastPerKey(lines) : line.key = Id(r, i)
  BY <1>1, <1>2, LastOfKey
<1>4. line \in Loaded
  BY <1>3 DEF Loaded
<1>5. line.vector \in Cached(r, i)
  BY <1>3, <1>4 DEF Cached
<1>6. QED
  BY <1>5

LEMMA CachedHasKey ==
    ASSUME NEW r \in Run, NEW i, Cached(r, i) # {}
    PROVE  HasKey(Id(r, i))
BY DEF Cached, Loaded, LastPerKey, HasKey

\* What a step does to the file.
LEMMA FileStep ==
    ASSUME IndexInv, [Next]_vars
    PROVE  \/ /\ UNCHANGED fileVars
              /\ \A r \in Run : Keep(r) /\ conf[r].resume => vectors' = vectors
           \/ Clear
           \/ \E r \in Run : \E line :
                /\ Keep(r) /\ conf[r].resume /\ line.key = Id(r, Target(r))
                /\ AppendLine(line) \/ BadAppend(line)
<1>1. ASSUME NEW r \in Run, Keep(r)
      PROVE  \/ /\ UNCHANGED fileVars
                /\ conf[r].resume => vectors' = vectors
             \/ \E line : /\ conf[r].resume /\ line.key = Id(r, Target(r))
                          /\ AppendLine(line) \/ BadAppend(line)
  <2> DEFINE v == got[r][kept[r] + 1]
             line == [key |-> Id(r, Target(r)), vector |-> v]
  <2>1. IF v = NoVector THEN UNCHANGED <<fileVars, vectors>> ELSE Save(r, line)
    BY <1>1 DEF Keep
  <2>2. line.key = Id(r, Target(r))
    OBVIOUS
  <2> HIDE DEF v, line
  <2>3. CASE v = NoVector
    BY <2>1, <2>3
  <2>4. CASE v # NoVector
    <3>1. IF conf[r].resume THEN AppendLine(line) \/ BadAppend(line) ELSE UNCHANGED fileVars
      BY <2>1, <2>4 DEF Save
    <3>2. QED
      BY <2>2, <3>1
  <2>5. QED
    BY <2>3, <2>4
<1>2. \A r, s \in Run : Keep(r) /\ Keep(s) => r = s
  BY DEF Keep, IndexInv, OneHasLoop
<1>3. CASE \E r \in Run : Keep(r)
  BY <1>1, <1>2, <1>3
<1>4. CASE ~ \E r \in Run : Keep(r)
  <2>1. UNCHANGED fileVars \/ Clear
    BY <1>4 DEF Next, Step, Reject, Start, SendBatch, ReceiveBatch, LoseBatches, Finish, Crash,
       vars
  <2>2. QED
    BY <1>4, <2>1
<1>5. QED
  BY <1>3, <1>4

\* Without failures and deletions the file only grows.
LEMMA FileGrows ==
    ASSUME IndexInv, ResumeInv, [Next]_vars
    PROVE  /\ badAppends' = 0 => ending' = "clean" /\ legible'
           /\ badAppends' = 0 /\ clears' = 0 =>
                /\ badAppends = 0 /\ clears = 0 /\ legible
                /\ \A k : HasKey(k) => HasKey(k)'
                /\ \A r \in Run : Keep(r) /\ conf[r].resume =>
                     vectors' = vectors \/ \A k : k = Id(r, Target(r)) => HasKey(k)'
<1>1. badAppends \in Nat /\ clears \in Nat /\ lines \in Seq(FittingLines)
  BY FileAssumption DEF IndexInv, FileTypeOK
<1>2. CASE /\ UNCHANGED fileVars
           /\ \A r \in Run : Keep(r) /\ conf[r].resume => vectors' = vectors
  <2>1. UNCHANGED <<lines, ending, legible, badAppends, clears>>
    BY <1>2 DEF fileVars
  <2>2. \A k : HasKey(k)' <=> HasKey(k)
    BY <2>1 DEF HasKey
  <2>3. QED
    BY <1>2, <2>1, <2>2 DEF ResumeInv
<1>3. CASE Clear
  <2>1. clears' = clears + 1 /\ ending' = "clean" /\ legible' = TRUE
    BY <1>3 DEF Clear, ClearFile
  <2>2. clears' # 0
    BY <1>1, <2>1
  <2>3. QED
    BY <2>1, <2>2
<1>4. ASSUME NEW r \in Run, NEW line, Keep(r), conf[r].resume,
             line.key = Id(r, Target(r)), AppendLine(line) \/ BadAppend(line)
      PROVE  /\ badAppends' = 0 => ending' = "clean" /\ legible'
             /\ badAppends' = 0 /\ clears' = 0 =>
                  /\ badAppends = 0 /\ clears = 0 /\ legible
                  /\ \A k : HasKey(k) => HasKey(k)'
                  /\ \A k : k = Id(r, Target(r)) => HasKey(k)'
  <2>1. CASE BadAppend(line)
    <3>1. badAppends' = badAppends + 1
      BY <2>1, Zenon DEF BadAppend
    <3>2. badAppends' # 0
      BY <1>1, <3>1
    <3>3. QED
      BY <3>2
  <2>2. CASE AppendLine(line)
    <3>1. /\ lines' = IF ending = "clean" THEN Append(lines, line) ELSE Joined
          /\ ending' = "clean" /\ legible' = legible
          /\ badAppends' = badAppends /\ clears' = clears
      BY <2>2 DEF AppendLine
    <3>2. badAppends = 0 => ending = "clean" /\ legible
      BY DEF ResumeInv
    <3>3. ASSUME badAppends = 0
          PROVE  /\ \A k : HasKey(k) => HasKey(k)'
                 /\ \A k : k = Id(r, Target(r)) => HasKey(k)'
      <4>1. lines' = Append(lines, line)
        BY <3>1, <3>2, <3>3
      <4>2. /\ Len(lines) \in Nat
            /\ DOMAIN lines = 1 .. Len(lines)
            /\ DOMAIN lines' = 1 .. Len(lines) + 1
            /\ lines'[Len(lines) + 1] = line
            /\ \A j \in 1 .. Len(lines) : lines'[j] = lines[j]
        BY <1>1, <4>1, AppendAny
      <4>3. \A k : (\E j \in DOMAIN lines : lines[j].key = k)
                     => \E j \in DOMAIN lines' : lines'[j].key = k
        BY <4>2
      <4>4. \E j \in DOMAIN lines' : lines'[j].key = Id(r, Target(r))
        BY <1>4, <4>2
      <4>5. QED
        BY <4>3, <4>4 DEF HasKey
    <3>4. QED
      BY <3>1, <3>2, <3>3
  <2>3. QED
    BY <1>4, <2>1, <2>2
<1>5. ASSUME NEW r \in Run, NEW s \in Run, Keep(r), Keep(s)
      PROVE  r = s
  BY <1>5 DEF Keep, IndexInv, OneHasLoop
<1>6. QED
  BY <1>2, <1>3, <1>4, <1>5, FileStep

LEMMA ConfStays ==
    ASSUME [Next]_vars
    PROVE  conf' = conf
BY DEF Next, Step, Reject, Start, SendBatch, ReceiveBatch, Keep, LoseBatches, Finish, Clear,
   Crash, vars, runVars

\* A run that is over stays as it is, and no run becomes new.
LEMMA EndedStays ==
    ASSUME IndexInv, [Next]_vars, NEW s \in Run
    PROVE  /\ pc[s] \in Ended => pc'[s] = pc[s] /\ vectors'[s] = vectors[s]
           /\ pc'[s] = "new" => pc[s] = "new" /\ pending'[s] = pending[s]
<1>1. /\ DOMAIN pc = Run /\ DOMAIN vectors = Run /\ DOMAIN pending = Run
      /\ pc[s] \in Ended => pc[s] \notin {"new", "run", "await"}
  BY DEF IndexInv, Ended
<1>2. ASSUME NEW r \in Run, pc[r] \in {"new", "run", "await"}, conf' = conf,
             NEW C, C # "new", pc' = [pc EXCEPT ![r] = C] \/ (pc' = pc /\ pc[r] # "new"),
             vectors' = vectors \/ \E V : vectors' = [vectors EXCEPT ![r] = V],
             pending' = pending \/ \E P : pending' = [pending EXCEPT ![r] = P]
      PROVE  /\ pc[s] \in Ended => pc'[s] = pc[s] /\ vectors'[s] = vectors[s]
             /\ pc'[s] = "new" => pc[s] = "new" /\ pending'[s] = pending[s]
  <2>1. CASE s = r
    BY <1>1, <1>2, <2>1
  <2>2. CASE s # r
    BY <1>1, <1>2, <2>2
  <2>3. QED
    BY <2>1, <2>2
<1>3. ASSUME NEW r \in Run, Start(r)
      PROVE  /\ pc[s] \in Ended => pc'[s] = pc[s] /\ vectors'[s] = vectors[s]
             /\ pc'[s] = "new" => pc[s] = "new" /\ pending'[s] = pending[s]
  <2>1. /\ pc[r] = "new" /\ conf' = conf /\ pc' = [pc EXCEPT ![r] = "run"]
        /\ \E V : vectors' = [vectors EXCEPT ![r] = V]
        /\ \E P : pending' = [pending EXCEPT ![r] = P]
    BY <1>3 DEF Start
  <2>2. QED
    BY <1>2, <2>1
<1>4. ASSUME NEW r \in Run, Keep(r)
      PROVE  /\ pc[s] \in Ended => pc'[s] = pc[s] /\ vectors'[s] = vectors[s]
             /\ pc'[s] = "new" => pc[s] = "new" /\ pending'[s] = pending[s]
  <2>1. /\ pc[r] = "run" /\ conf' = conf /\ pc' = pc /\ pending' = pending
        /\ vectors' = vectors \/ \E i, v : vectors' = [vectors EXCEPT ![r][i] = v]
    BY <1>4 DEF Keep
  <2>2. vectors' = vectors \/ \E V : vectors' = [vectors EXCEPT ![r] = V]
    BY <2>1
  <2>3. pc' = pc /\ pc[r] # "new"
    BY <2>1
  <2>4. \E C : C = "run"
    OBVIOUS
  <2>5. QED
    BY <1>2, <2>1, <2>2, <2>3
<1>5. ASSUME NEW r \in Run,
             Reject(r) \/ SendBatch(r) \/ ReceiveBatch(r) \/ LoseBatches(r) \/ Finish(r)
      PROVE  /\ pc[s] \in Ended => pc'[s] = pc[s] /\ vectors'[s] = vectors[s]
             /\ pc'[s] = "new" => pc[s] = "new" /\ pending'[s] = pending[s]
  <2>1. /\ pc[r] \in {"new", "run", "await"} /\ UNCHANGED <<conf, vectors, pending>>
        /\ \E C \in {"run", "await", "failed", "done"} : pc' = [pc EXCEPT ![r] = C]
    BY <1>5 DEF Reject, SendBatch, ReceiveBatch, LoseBatches, Finish
  <2>2. QED
    BY <1>2, <2>1
<1>6. CASE Crash
  BY <1>1, <1>6 DEF Crash, Live
<1>7. CASE Clear \/ UNCHANGED vars
  BY <1>7 DEF Clear, vars, runVars
<1>8. QED
  BY <1>3, <1>4, <1>5, <1>6, <1>7 DEF Next, Step

\* The property, over a step that leaves every choice of what to send alone.
LEMMA QuietStepResumes ==
    ASSUME IndexInv, ResumeInv, [Next]_vars, UNCHANGED <<pending, before>>
    PROVE  /\ \A r \in Run : \A s \in before'[r] : pc'[s] \in Ended
           /\ badAppends' = 0 /\ clears' = 0 => ResumeRepeatsNothing'
<1>1. \A r \in Run : \A s \in before[r] : s \in Run /\ pc[s] \in Ended
  BY DEF IndexInv, ResumeInv
<1>2. \A r \in Run : \A s \in before[r] : pc'[s] = pc[s] /\ vectors'[s] = vectors[s]
  BY <1>1, EndedStays
<1>3. conf' = conf
  BY ConfStays
<1>4. ASSUME badAppends' = 0, clears' = 0
      PROVE  ResumeRepeatsNothing'
  <2>1. badAppends = 0 /\ clears = 0
    BY <1>4, FileGrows
  <2>2. ASSUME NEW r \in Run, NEW s \in before[r], conf[r].resume, conf[s].resume,
               NEW i \in DOMAIN vectors'[s], vectors'[s][i] # NoVector,
               NEW j \in DOMAIN pending[r]
        PROVE  Id(r, pending[r][j]) # Id(s, i)
    <3>1. i \in WithVector(s)
      BY <1>2, <2>2 DEF WithVector
    <3>2. QED
      BY <2>1, <2>2, <3>1 DEF ResumeInv, ResumeRepeatsNothing
  <2>3. QED
    BY <1>3, <2>2 DEF ResumeRepeatsNothing, WithVector, Id
<1>5. QED
  BY <1>1, <1>2, <1>4

\* What a run takes from the file was in it, and what it sends was not.
LEMMA StartResumes ==
    ASSUME IndexInv, ResumeInv, NEW r \in Run, Start(r)
    PROVE  /\ \A s \in Run : \A t \in before'[s] : pc'[t] \in Ended
           /\ badAppends' = 0 /\ clears' = 0 => SavedInv'
           /\ badAppends' = 0 /\ clears' = 0 => ResumeRepeatsNothing'
<1> DEFINE reused == [i \in DOMAIN conf[r].records |->
                        IF conf[r].resume THEN Cached(r, i) ELSE {}]
           open == {i \in DOMAIN reused : conf[r].func /\ reused[i] = {}}
<1>1. PICK v \in [DOMAIN reused -> Record \cup {NoVector}] :
          /\ \A i \in DOMAIN v : IF reused[i] = {} THEN v[i] = NoVector
                                                 ELSE v[i] \in reused[i]
          /\ vectors' = [vectors EXCEPT ![r] = v]
  BY DEF Start
<1>2. PICK p \in Ascending(open) : pending' = [pending EXCEPT ![r] = p]
  BY DEF Start
<1>3. /\ pc[r] = "new" /\ pc' = [pc EXCEPT ![r] = "run"]
      /\ before' = [before EXCEPT ![r] = {s \in Run : pc[s] \in Ended}]
      /\ UNCHANGED <<fileVars, conf, got, kept, withVector>>
  BY DEF Start
<1>4. /\ DOMAIN pc = Run /\ DOMAIN vectors = Run /\ DOMAIN pending = Run
      /\ before \in [Run -> SUBSET Run]
      /\ conf \in [Run -> Configs]
  BY DEF IndexInv
<1>5. UNCHANGED <<lines, legible, badAppends, clears>>
  BY <1>3 DEF fileVars
<1>6. \A k : HasKey(k)' <=> HasKey(k)
  BY <1>5 DEF HasKey
<1>7. \A s, i : Id(s, i)' = Id(s, i)
  BY <1>3 DEF Id
<1>8. \A s \in Run \ {r} : pc'[s] = pc[s] /\ vectors'[s] = vectors[s]
                           /\ pending'[s] = pending[s] /\ before'[s] = before[s]
  BY <1>1, <1>2, <1>3, <1>4
<1>9. /\ vectors'[r] = v /\ pending'[r] = p /\ before'[r] = {s \in Run : pc[s] \in Ended}
      /\ r \notin before'[r]
  BY <1>1, <1>2, <1>3, <1>4 DEF Ended
<1>10. \A s \in Run : \A t \in before[s] : t \in Run /\ pc[t] \in Ended /\ t # r
  BY <1>3, <1>4 DEF ResumeInv, Ended
<1>11. \A s \in Run : \A t \in before'[s] : t \in Run \ {r} /\ pc[t] \in Ended
  <2> SUFFICES ASSUME NEW s \in Run, NEW t \in before'[s]
               PROVE  t \in Run \ {r} /\ pc[t] \in Ended
    OBVIOUS
  <2>1. CASE s = r
    BY <1>9, <2>1
  <2>2. CASE s # r
    BY <1>8, <1>10, <2>2
  <2>3. QED
    BY <2>1, <2>2
<1>12. ASSUME conf[r].resume, NEW i \in DOMAIN v, v[i] # NoVector
       PROVE  HasKey(Id(r, i))
  <2>1. reused[i] # {} /\ i \in DOMAIN conf[r].records
    BY <1>1, <1>12
  <2>2. Cached(r, i) # {}
    BY <1>12, <2>1
  <2>3. QED
    BY <2>2, CachedHasKey
<1>13. ASSUME badAppends' = 0, clears' = 0
       PROVE  SavedInv'
  <2> SUFFICES ASSUME NEW s \in Run, conf[s].resume, NEW i \in DOMAIN vectors'[s],
                      vectors'[s][i] # NoVector
               PROVE  HasKey(Id(s, i))
    BY <1>3, <1>6, <1>7 DEF SavedInv
  <2>1. CASE s = r
    BY <1>9, <1>12, <2>1
  <2>2. CASE s # r
    BY <1>5, <1>8, <1>13, <2>2 DEF ResumeInv, SavedInv
  <2>3. QED
    BY <2>1, <2>2
<1>14. \A j \in DOMAIN p : p[j] \in open
  <2> HIDE DEF open
  <2> QED
    BY <1>2 DEF Ascending
<1>15. ASSUME badAppends' = 0, clears' = 0
       PROVE  ResumeRepeatsNothing'
  <2>1. ASSUME NEW s \in Run, NEW t \in before'[s], conf[s].resume, conf[t].resume,
               NEW i \in DOMAIN vectors'[t], vectors'[t][i] # NoVector,
               NEW j \in DOMAIN pending'[s]
        PROVE  Id(s, pending'[s][j]) # Id(t, i)
    <3>1. t \in Run \ {r} /\ vectors'[t] = vectors[t] /\ i \in WithVector(t)
      BY <1>8, <1>11, <2>1 DEF WithVector
    <3>2. CASE s = r
      <4>1. /\ p[j] \in open /\ pending'[s][j] = p[j]
        BY <1>9, <1>14, <2>1, <3>2
      <4>2. Cached(r, p[j]) = {}
        BY <2>1, <3>2, <4>1
      <4>3. HasKey(Id(t, i)) /\ legible
        BY <1>5, <1>15, <2>1, <3>1 DEF ResumeInv, SavedInv, WithVector
      <4>4. ~HasKey(Id(r, p[j]))
        BY <4>2, <4>3, WholeFileHasCached
      <4>5. QED
        BY <3>2, <4>1, <4>3, <4>4
    <3>3. CASE s # r
      <4>1. t \in before[s] /\ pending'[s] = pending[s]
        BY <1>8, <3>3
      <4>2. QED
        BY <1>5, <1>15, <2>1, <3>1, <4>1 DEF ResumeInv, ResumeRepeatsNothing
    <3>4. QED
      BY <3>2, <3>3
  <2>2. QED
    BY <1>3, <1>7, <2>1 DEF ResumeRepeatsNothing, WithVector
<1>16. \A s \in Run : \A t \in before'[s] : pc'[t] \in Ended
  BY <1>8, <1>11
<1>17. QED
  BY <1>13, <1>15, <1>16

LEMMA RejectResumes ==
    ASSUME IndexInv, ResumeInv, NEW r \in Run, Reject(r)
    PROVE  /\ \A s \in Run : \A t \in before'[s] : pc'[t] \in Ended
           /\ ResumeRepeatsNothing'
<1>1. /\ pc[r] = "new" /\ pc' = [pc EXCEPT ![r] = "failed"]
      /\ before' = [before EXCEPT ![r] = {s \in Run : pc[s] \in Ended}]
      /\ UNCHANGED <<fileVars, conf, vectors, pending>>
  BY DEF Reject
<1>2. /\ DOMAIN pc = Run /\ before \in [Run -> SUBSET Run]
  BY DEF IndexInv
<1>3. UNCHANGED <<badAppends, clears>>
  BY <1>1 DEF fileVars
<1>4. pending[r] = <<>>
  BY <1>1 DEF ResumeInv
<1>5. \A s \in Run : \A t \in before'[s] : pc'[t] \in Ended
  BY <1>1, <1>2 DEF ResumeInv, Ended
<1>6. ASSUME badAppends = 0, clears = 0,
             NEW s \in Run, NEW t \in before'[s], conf[s].resume, conf[t].resume,
             NEW i \in WithVector(t), NEW j \in DOMAIN pending[s]
      PROVE  Id(s, pending[s][j]) # Id(t, i)
  <2>1. s # r
    BY <1>4, <1>6
  <2>2. t \in before[s]
    BY <1>1, <1>2, <2>1
  <2>3. QED
    BY <1>6, <2>2 DEF ResumeInv, ResumeRepeatsNothing
<1>7. ResumeRepeatsNothing'
  BY <1>1, <1>3, <1>6 DEF ResumeRepeatsNothing, WithVector, Id
<1>8. QED
  BY <1>5, <1>7

\* A vector that is given to a record is saved with it.
LEMMA StepSaves ==
    ASSUME IndexInv, ResumeInv, [Next]_vars, badAppends' = 0, clears' = 0,
           \A r \in Run : ~Start(r)
    PROVE  SavedInv'
<1>1. badAppends = 0 /\ clears = 0 /\ SavedInv /\ \A k : HasKey(k) => HasKey(k)'
  BY FileGrows DEF ResumeInv
<1>2. conf' = conf /\ \A s, i : Id(s, i)' = Id(s, i)
  BY ConfStays DEF Id
<1>3. ASSUME vectors' = vectors
      PROVE  SavedInv'
  BY <1>1, <1>2, <1>3 DEF SavedInv
<1>4. ASSUME NEW r \in Run, Keep(r), vectors' # vectors
      PROVE  SavedInv'
  <2> DEFINE n == Target(r)
             v == got[r][kept[r] + 1]
  <2>1. v # NoVector /\ vectors' = [vectors EXCEPT ![r][n] = v]
    BY <1>4 DEF Keep
  <2>2. DOMAIN vectors = Run
    BY DEF IndexInv
  <2> HIDE DEF n, v
  <2>3. /\ vectors' = [vectors EXCEPT ![r] = [vectors[r] EXCEPT ![n] = v]]
        /\ \A s \in Run \ {r} : vectors'[s] = vectors[s]
        /\ DOMAIN vectors'[r] = DOMAIN vectors[r]
        /\ \A i \in DOMAIN vectors[r] : i # n => vectors'[r][i] = vectors[r][i]
    BY <2>1, <2>2
  <2>4. conf[r].resume => \A k : k = Id(r, n) => HasKey(k)'
    BY <1>4, FileGrows DEF n
  <2>5. \A s \in Run : conf[s].resume => \A i \in DOMAIN vectors'[s] :
          vectors'[s][i] # NoVector => \A k : k = Id(s, i) => HasKey(k)'
    BY <1>1, <2>3, <2>4 DEF SavedInv
  <2>6. QED
    BY <1>2, <2>5 DEF SavedInv
<1>5. (\A r \in Run : ~Keep(r)) => vectors' = vectors
  BY DEF Next, Step, Reject, SendBatch, ReceiveBatch, LoseBatches, Finish, Clear, Crash, vars,
     runVars
<1>6. QED
  BY <1>3, <1>4, <1>5

LEMMA ResumeInvHolds == Spec => []ResumeInv
<1>1. Init => ResumeInv
  <2> SUFFICES ASSUME Init
               PROVE  ResumeInv
    OBVIOUS
  <2>1. /\ before = [r \in Run |-> {}] /\ pending = [r \in Run |-> <<>>]
        /\ vectors = [r \in Run |-> [i \in DOMAIN conf[r].records |-> NoVector]]
        /\ ending = "clean" /\ legible = TRUE
    BY DEF Init, FileInit
  <2>2. SavedInv
    BY <2>1 DEF SavedInv
  <2>3. ResumeRepeatsNothing
    BY <2>1 DEF ResumeRepeatsNothing
  <2>4. QED
    BY <2>1, <2>2, <2>3 DEF ResumeInv
<1>2. IndexInv /\ ResumeInv /\ [Next]_vars => ResumeInv'
  <2> SUFFICES ASSUME IndexInv, ResumeInv, [Next]_vars
               PROVE  ResumeInv'
    OBVIOUS
  <2>1. badAppends' = 0 => ending' = "clean" /\ legible'
    BY FileGrows
  <2>2. \A r \in Run : pc'[r] = "new" => pending'[r] = <<>>
    BY EndedStays DEF ResumeInv
  <2>3. badAppends' = 0 /\ clears' = 0 => SavedInv'
    BY StepSaves, StartResumes
  <2>4. /\ \A r \in Run : \A s \in before'[r] : pc'[s] \in Ended
        /\ badAppends' = 0 /\ clears' = 0 => ResumeRepeatsNothing'
    <3>1. CASE \E r \in Run : Start(r)
      BY <3>1, StartResumes
    <3>2. CASE \E r \in Run : Reject(r)
      BY <3>2, RejectResumes
    <3>3. CASE ~ \E r \in Run : Start(r) \/ Reject(r)
      <4>1. UNCHANGED <<pending, before>>
        BY <3>3 DEF Next, Step, SendBatch, ReceiveBatch, Keep, LoseBatches, Finish, Clear, Crash,
           vars, runVars
      <4>2. QED
        BY <4>1, QuietStepResumes
    <3>4. QED
      BY <3>1, <3>2, <3>3
  <2>5. ResumeRepeatsNothing'
    BY <2>4 DEF ResumeRepeatsNothing
  <2>6. QED
    BY <2>1, <2>2, <2>3, <2>4, <2>5 DEF ResumeInv
<1>3. QED
  BY <1>1, <1>2, IndexInvHolds, PTL DEF Spec

\* What a run was given a vector for, and had time to save, no later run sends to
\* the embedding function again, for any number of runs, records and batches,
\* unless an append failed or the cache was cleared.
THEOREM ResumeSendsNothingTwice == Spec => []ResumeRepeatsNothing
<1>1. ResumeInv => ResumeRepeatsNothing
  BY DEF ResumeInv
<1>2. QED
  BY <1>1, ResumeInvHolds, PTL

=============================================================================
