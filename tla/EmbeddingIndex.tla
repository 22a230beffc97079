--------------------------- MODULE EmbeddingIndex ---------------------------
(***************************************************************************)
(* embedding.index: the vectors of a list of records, and their checkpoint *)
(* across runs with one cache key.  The texts without a vector are sent to *)
(* the embedding function in batches, one after the other; only when the   *)
(* last batch is back are the vectors assigned and saved.  As in           *)
(* MultimodalProcess the runs are tasks of one event loop, suspended while *)
(* a batch is away.  A vector is the record it was computed for.           *)
(***************************************************************************)
EXTENDS CheckpointFile

CONSTANTS
    Run,            \* the runs of the node with this cache key
    Record,         \* the records: what is embedded
    IdOf,           \* [Record -> ...]: record_id
    Configs         \* the inputs considered: records, embedding_func or none,
                    \* resume_from_cache, allow_without_vector, batch_size

ASSUME IndexAssumption ==
    Configs \subseteq [records : Seq(Record), func : BOOLEAN, resume : BOOLEAN,
                       allow : BOOLEAN, batch : Nat \ {0}]

VARIABLES
    conf,       \* the input of each run
    pc,         \* "new", "run" (it has the event loop), "await" (a batch is
                \* away), "done", "failed", "dead" (with the process)
    vectors,    \* the vector of each record, or NoVector
    pending,    \* pending_indices
    got,        \* what the batches have brought, in the order of pending
    kept,       \* how many of those are assigned and saved
    withVector, \* with_vector of the summary
    before      \* history: the runs that were over when each run started

runVars == <<conf, pc, vectors, pending, got, kept, withVector, before>>
vars == <<fileVars, runVars>>

NoVector == "none"
Live == {"run", "await"}
Ended == {"done", "failed", "dead"}

Init ==
    /\ FileInit
    /\ conf \in [Run -> Configs]
    /\ pc = [r \in Run |-> "new"]
    /\ vectors = [r \in Run |-> [i \in DOMAIN conf[r].records |-> NoVector]]
    /\ pending = [r \in Run |-> <<>>]
    /\ got = [r \in Run |-> <<>>]
    /\ kept = [r \in Run |-> 0]
    /\ withVector = [r \in Run |-> 0]
    /\ before = [r \in Run |-> {}]

-----------------------------------------------------------------------------

LoopIsFree == \A r \in Run : pc[r] # "run"

Id(r, i) == IdOf[conf[r].records[i]]

\* The cached vectors for record i of run r: one or none.
Cached(r, i) == {line.vector : line \in {line \in Loaded : line.key = Id(r, i)}}

\* The listing of a set of positions in their order, as a set of one.
Ascending(S) ==
    {p \in [1 .. Cardinality(S) -> S] : \A j, k \in DOMAIN p : j < k => p[j] < p[k]}

\* Neither an embedding function nor permission to go without.
Reject(r) ==
    /\ pc[r] = "new"
    /\ LoopIsFree
    /\ ~conf[r].func /\ ~conf[r].allow
    /\ pc' = [pc EXCEPT ![r] = "failed"]
    /\ before' = [before EXCEPT ![r] = {s \in Run : pc[s] \in Ended}]
    /\ UNCHANGED <<fileVars, conf, vectors, pending, got, kept, withVector>>

\* Reuse what there is; the rest is pending, in its order.
Start(r) ==
    /\ pc[r] = "new"
    /\ LoopIsFree
    /\ conf[r].func \/ conf[r].allow
    /\ pc' = [pc EXCEPT ![r] = "run"]
    /\ before' = [before EXCEPT ![r] = {s \in Run : pc[s] \in Ended}]
    /\ LET reused == [i \in DOMAIN conf[r].records |->
                        IF conf[r].resume THEN Cached(r, i) ELSE {}]
       IN  /\ \E v \in [DOMAIN reused -> Record \cup {NoVector}] :
                /\ \A i \in DOMAIN v : IF reused[i] = {} THEN v[i] = NoVector
                                                       ELSE v[i] \in reused[i]
                /\ vectors' = [vectors EXCEPT ![r] = v]
           /\ \E p \in Ascending({i \in DOMAIN reused : conf[r].func /\ reused[i] = {}}) :
                pending' = [pending EXCEPT ![r] = p]
    /\ UNCHANGED <<fileVars, conf, got, kept, withVector>>

AllBack(r) == Len(got[r]) = Len(pending[r])

SendFullBatch(r) ==                   \* mutant: the last texts make no batch
    /\ pc[r] = "run"
    /\ Len(pending[r]) - Len(got[r]) >= conf[r].batch
    /\ pc' = [pc EXCEPT ![r] = "await"]
    /\ UNCHANGED <<fileVars, conf, vectors, pending, got, kept, withVector, before>>
SendBatch(r) ==
    /\ pc[r] = "run"
    /\ ~AllBack(r)
    /\ pc' = [pc EXCEPT ![r] = "await"]
    /\ UNCHANGED <<fileVars, conf, vectors, pending, got, kept, withVector, before>>

\* The batch is back: any of its texts may be without a vector.
BatchSize(r) ==
    LET rest == Len(pending[r]) - Len(got[r])
    IN  IF conf[r].batch < rest THEN conf[r].batch ELSE rest
ReceiveBatch(r) ==
    /\ pc[r] = "await"
    /\ LoopIsFree
    /\ \E missing \in SUBSET (1 .. BatchSize(r)) :
         got' = [got EXCEPT ![r] = @ \o
                   [k \in 1 .. BatchSize(r) |->
                      IF k \in missing THEN NoVector
                      ELSE conf[r].records[pending[r][Len(got[r]) + k]]]]
    /\ pc' = [pc EXCEPT ![r] = "run"]
    /\ UNCHANGED <<fileVars, conf, vectors, pending, kept, withVector, before>>

\* The embedding function raises, or the request is cancelled: nothing that
\* the batches before it have brought is saved.
LoseBatches(r) ==
    /\ pc[r] = "await"
    /\ LoopIsFree
    /\ pc' = [pc EXCEPT ![r] = "failed"]
    /\ UNCHANGED <<fileVars, conf, vectors, pending, got, kept, withVector, before>>

SaveNothing(r, line) == UNCHANGED fileVars  \* mutant: vectors are not saved
Save(r, line) ==
    IF conf[r].resume THEN AppendLine(line) \/ BadAppend(line) ELSE UNCHANGED fileVars

\* The record that the next vector is for.
ByPosition(r) == kept[r] + 1          \* mutant: as if no record were reused
Target(r) == pending[r][kept[r] + 1]

Keep(r) ==
    /\ pc[r] = "run"
    /\ AllBack(r)
    /\ kept[r] < Len(got[r])
    /\ LET i == Target(r)
           v == got[r][kept[r] + 1]
       IN  IF v = NoVector
             THEN UNCHANGED <<fileVars, vectors>>
             ELSE /\ vectors' = [vectors EXCEPT ![r][i] = v]
                  /\ Save(r, [key |-> Id(r, i), vector |-> v])
    /\ kept' = [kept EXCEPT ![r] = @ + 1]
    /\ UNCHANGED <<conf, pc, pending, got, withVector, before>>

\* The summary counts vectors only when there is an embedding function.
WithVector(r) == {i \in DOMAIN vectors[r] : vectors[r][i] # NoVector}
Finish(r) ==
    /\ pc[r] = "run"
    /\ AllBack(r) /\ kept[r] = Len(got[r])
    /\ withVector' = [withVector EXCEPT ![r] = IF conf[r].func
                                                 THEN Cardinality(WithVector(r)) ELSE 0]
    /\ pc' = [pc EXCEPT ![r] =
                IF conf[r].allow \/ WithVector(r) = DOMAIN vectors[r] THEN "done"
                                                                      ELSE "failed"]
    /\ UNCHANGED <<fileVars, conf, vectors, pending, got, kept, before>>

Clear ==
    /\ ClearFile
    /\ UNCHANGED runVars

Crash ==
    /\ \E r \in Run : pc[r] \in Live
    /\ pc' = [r \in Run |-> IF pc[r] \in Live THEN "dead" ELSE pc[r]]
    /\ UNCHANGED <<fileVars, conf, vectors, pending, got, kept, withVector, before>>

Step(r) == Reject(r) \/ Start(r) \/ SendBatch(r) \/ ReceiveBatch(r) \/ Keep(r) \/ Finish(r)

Next == (\E r \in Run : Step(r) \/ LoseBatches(r)) \/ Clear \/ Crash

Spec == Init /\ [][Next]_vars

\* A run that has the event loop goes on, and a batch is assumed to come back.
FairSpec == Spec /\ \A r \in Run : WF_vars(Step(r))

-----------------------------------------------------------------------------

TypeOK ==
    /\ FileTypeOK
    /\ conf \in [Run -> Configs]
    /\ pc \in [Run -> {"new"} \cup Live \cup Ended]
    /\ \A r \in Run :
         /\ vectors[r] \in [DOMAIN conf[r].records -> Record \cup {NoVector}]
         /\ pending[r] \in Seq(DOMAIN conf[r].records)
         /\ got[r] \in Seq(Record \cup {NoVector})
         /\ kept[r] \in 0 .. Len(got[r])
         /\ withVector[r] \in 0 .. Len(conf[r].records)
         /\ \A s \in Run \ {r} : ~(pc[r] = "run" /\ pc[s] = "run")
    /\ before \in [Run -> SUBSET Run]

\* Whichever run computed it, a record's vector is that of a record with its
\* id; without permission to go without one, every record of a run that is
\* done has one.
VectorsFit ==
    \A r \in Run :
        /\ \A i \in WithVector(r) : IdOf[vectors[r][i]] = Id(r, i)
        /\ pc[r] = "done" /\ ~conf[r].allow => WithVector(r) = DOMAIN vectors[r]

\* What a run was given a vector for, and had time to save, no later run sends
\* to the embedding function again, unless an append failed or the cache was
\* cleared.
ResumeRepeatsNothing ==
    badAppends = 0 /\ clears = 0 =>
      \A r \in Run : \A s \in before[r] : conf[r].resume /\ conf[s].resume =>
        \A i \in WithVector(s) : \A j \in DOMAIN pending[r] :
            Id(r, pending[r][j]) # Id(s, i)

\* Every run that starts ends.
RunsEnd == \A r \in Run : (pc[r] # "new") ~> (pc[r] \in Ended)

=============================================================================
