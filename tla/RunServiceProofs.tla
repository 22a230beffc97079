-------------------------- MODULE RunServiceProofs --------------------------
(***************************************************************************)
(* What holds of run_workflow for every workflow, every number of clients  *)
(* and every queue size.  It adds nothing to the runner's behaviour, so    *)
(* that the runner's theorems are theorems of the service; no record it    *)
(* ever leaves on disk says anything that is not so; no stream has a gap;  *)
(* run_end comes last, after the final record; record, events and runner   *)
(* agree; and what a reader has been shown is taken back by a cancellation *)
(* only.  Except for the second of these, the node list may repeat ids.    *)
(***************************************************************************)
EXTENDS RunService, WorkflowRunnerProofs, WellFoundedInduction

-----------------------------------------------------------------------------
\* The runner inside the service.

LEMMA ServiceStepIsRunnerStep ==
    ASSUME [ServiceNext]_serviceVars
    PROVE  [Next]_vars
<1>1. CASE QuietStep
  BY <1>1 DEF QuietStep, Next, Advance
<1>2. CASE RaiseRun
  BY <1>2 DEF RaiseRun, Next, Advance
<1>3. CASE BeginNode
  BY <1>3 DEF BeginNode, Next, Advance
<1>4. CASE EndNode
  BY <1>4 DEF EndNode, Next, NodeReturns
<1>5. CASE FailNode
  BY <1>5 DEF FailNode, Next, NodeReturns, Advance
<1>6. CASE SucceedRun
  BY <1>6 DEF SucceedRun, Next, Advance
<1>7. CASE AdaptersReady \/ AdaptersFail \/ CancelAdapters
  BY <1>7 DEF AdaptersReady, AdaptersFail, CancelAdapters
<1>8. CASE Effect \/ PoolThread \/ Crash
  BY <1>8 DEF Effect, PublishNext, BeginSave, EndSave, FailSave, PoolThread, Crash
<1>9. ASSUME NEW c \in Client, StreamNext(c) \/ ClientNext(c)
      PROVE  UNCHANGED vars
  BY <1>9 DEF StreamNext, ClientNext
<1>10. CASE UNCHANGED serviceVars
  BY <1>10 DEF serviceVars
<1>11. QED
  BY <1>1, <1>2, <1>3, <1>4, <1>5, <1>6, <1>7, <1>8, <1>9, <1>10
     DEF ServiceNext, ServiceAdvance

\* Every behaviour of the service is one of the runner: callbacks, saves,
\* streams, readers and crashes change nothing of the run itself.
THEOREM ServiceRuns == ServiceSpec => Spec
<1>1. ServiceInit => Init
  BY DEF ServiceInit
<1>2. QED
  BY <1>1, ServiceStepIsRunnerStep, PTL DEF ServiceSpec, Spec

-----------------------------------------------------------------------------
\* Types.

\* The shapes the lists of effects have.
LEMMA EffectLists ==
    ASSUME NEW S, NEW a \in S, NEW b \in S, NEW t \in Seq(S)
    PROVE  /\ <<a>> \in Seq(S)
           /\ <<a, b>> \in Seq(S)
           /\ <<a>> \o t \in Seq(S)
           /\ <<a, b>> \o t \in Seq(S)
<1>1. <<a>> \in Seq(S) /\ <<a, b>> \in Seq(S)
  OBVIOUS
<1>2. QED
  BY <1>1, ConcatProperties

LEMMA ProgressIsEffect ==
    ASSUME results' \in [Node -> {"none", "ok", "bad"}],
           traceNodes' \in [Node -> Statuses],
           NEW current \in SUBSET Node, NEW failed \in SUBSET Node
    PROVE  Progress(current, failed) \in Effects
BY DEF Progress, ToSave, Effects, Records

LEMMA EventIsEffect ==
    ASSUME NEW type \in EventTypes, NEW nodes \in SUBSET Node, NEW status \in Statuses
    PROVE  ToPublish(type, nodes, status) \in Effects
BY DEF ToPublish, Effects

LEMMA FinallyIsEffects ==
    ASSUME traceNodes' \in [Node -> Statuses],
           NEW success \in BOOLEAN, NEW failed \in SUBSET Node,
           NEW res \in [Node -> {"none", "ok", "bad"}]
    PROVE  Finally(success, failed, res) \in Seq(Effects)
<1>1. ToSave([kind |-> "record", running |-> FALSE, success |-> success,
              current |-> {}, failed |-> failed,
              results |-> res, nodes |-> traceNodes']) \in Effects
  BY DEF ToSave, Effects, Records
<1>2. ToPublish("run_end", {}, IF success THEN "success" ELSE "error") \in Effects
  BY EventIsEffect DEF EventTypes, Statuses
<1>3. QED
  BY <1>1, <1>2, EffectLists, EmptySeq DEF Finally

LEMMA RunErrorIsEffects ==
    ASSUME traceNodes' \in [Node -> Statuses]
    PROVE  RunError \in Seq(Effects)
<1>1. ToPublish("run_error", {}, "error") \in Effects
  BY EventIsEffect DEF EventTypes, Statuses
<1>2. [n \in Node |-> "none"] \in [Node -> {"none", "ok", "bad"}]
  OBVIOUS
<1>3. Finally(FALSE, {}, [n \in Node |-> "none"]) \in Seq(Effects)
  BY <1>2, FinallyIsEffects
<1>4. QED
  BY <1>1, <1>3, EffectLists DEF RunError

\* Publishing keeps the history and the queues in their types and bounds.
LEMMA PublishKeepsBusTypes ==
    ASSUME BusTypeOK, NEW type \in EventTypes, NEW nodes \in SUBSET Node,
           NEW status \in Statuses, Publish(type, nodes, status)
    PROVE  BusTypeOK'
<1>1. Len(log) \in Nat
  BY LenProperties DEF BusTypeOK
<1>2. Event(type, nodes, status) \in Events
  BY <1>1 DEF Event, Events
<1>3. log' \in Seq(Events)
  BY <1>2, AppendProperties DEF Publish, BusTypeOK
<1>4. ASSUME NEW c \in Client
      PROVE  queue'[c] \in Seq(Events) /\ Len(queue'[c]) <= QueueMax
  <2>1. queue[c] \in Seq(Events) /\ Len(queue[c]) \in Nat /\ Len(queue[c]) <= QueueMax
    BY <1>4, LenProperties DEF BusTypeOK
  <2>2. /\ Append(queue[c], Event(type, nodes, status)) \in Seq(Events)
        /\ Len(Append(queue[c], Event(type, nodes, status))) = Len(queue[c]) + 1
    BY <1>2, <2>1, AppendProperties
  <2>3. queue'[c] = IF c \in subs /\ Len(queue[c]) < QueueMax
                      THEN Append(queue[c], Event(type, nodes, status)) ELSE queue[c]
    BY <1>4 DEF Publish, Fanout
  <2>4. QED
    BY <2>1, <2>2, <2>3, BusAssumption
<1>5. queue' \in [Client -> Seq(Events)]
  BY <1>4 DEF Publish, Fanout
<1>6. subs' \subseteq Client
  BY DEF Publish, Fanout, BusTypeOK
<1>7. QED
  BY <1>3, <1>4, <1>5, <1>6 DEF Publish, BusTypeOK

LEMMA HistoryIsBounded ==
    ASSUME BusTypeOK
    PROVE  History \in Seq(Events) /\ Len(History) <= HistoryMax
<1>1. Len(log) \in Nat /\ log \in Seq(Events) /\ HistoryMax \in Nat \ {0}
  BY LenProperties, BusAssumption DEF BusTypeOK
<1>2. CASE Len(log) <= HistoryMax
  BY <1>1, <1>2 DEF History
<1>3. CASE ~(Len(log) <= HistoryMax)
  <2> DEFINE m == Len(log) - HistoryMax + 1
  <2>1. m \in Int /\ m \in 1 .. Len(log) /\ Len(log) - m + 1 = HistoryMax
    BY <1>1, <1>3
  <2>2. \A i \in m .. Len(log) : log[i] \in Events
    BY <1>1, <2>1, ElementOfSeq
  <2>3. /\ SubSeq(log, m, Len(log)) \in Seq(Events)
        /\ Len(SubSeq(log, m, Len(log))) = Len(log) - m + 1
    <3> HIDE DEF m
    <3> QED BY <1>1, <2>1, <2>2, SubSeqProperties
  <2>4. QED
    BY <1>1, <1>3, <2>1, <2>3 DEF History
<1>4. QED
  BY <1>2, <1>3

LEMMA StreamKeepsBusTypes ==
    ASSUME BusTypeOK, NEW c \in Client, StreamStep(c) \/ OpenStream(c) \/ Disconnect(c)
    PROVE  BusTypeOK'
<1>1. ASSUME NEW s \in Seq(Events), NEW t \in Seq(Events), s # <<>>
      PROVE  /\ Append(t, Head(s)) \in Seq(Events)
             /\ Tail(s) \in Seq(Events)
             /\ \A k \in Nat : Len(s) <= k => Len(Tail(s)) <= k
  BY <1>1, HeadTailProperties, AppendProperties, LenProperties
<1>2. CASE OpenStream(c)
  <2>1. /\ backlog' = [backlog EXCEPT ![c] = History]
        /\ subs' = subs \cup {c}
        /\ stream' = [stream EXCEPT ![c] = "history"]
        /\ UNCHANGED <<log, queue, sent>>
    BY <1>2 DEF OpenStream
  <2>2. QED
    BY <2>1, HistoryIsBounded DEF BusTypeOK
<1>3. CASE SendHistory(c)
  <2>1. /\ backlog[c] # <<>>
        /\ sent' = [sent EXCEPT ![c] = Append(sent[c], Head(backlog[c]))]
        /\ backlog' = [backlog EXCEPT ![c] = Tail(backlog[c])]
        /\ UNCHANGED <<log, subs, queue, stream>>
    BY <1>3 DEF SendHistory
  <2>2. /\ Append(sent[c], Head(backlog[c])) \in Seq(Events)
        /\ Tail(backlog[c]) \in Seq(Events)
        /\ Len(Tail(backlog[c])) <= HistoryMax
    BY <1>1, <2>1, BusAssumption DEF BusTypeOK
  <2>3. QED
    BY <2>1, <2>2 DEF BusTypeOK
<1>4. CASE SendEvent(c)
  <2>1. /\ queue[c] # <<>>
        /\ sent' = [sent EXCEPT ![c] = Append(sent[c], Head(queue[c]))]
        /\ queue' = [queue EXCEPT ![c] = Tail(queue[c])]
        /\ UNCHANGED <<log, subs, backlog, stream>>
    BY <1>4 DEF SendEvent
  <2>2. /\ Append(sent[c], Head(queue[c])) \in Seq(Events)
        /\ Tail(queue[c]) \in Seq(Events)
        /\ Len(Tail(queue[c])) <= QueueMax
    BY <1>1, <2>1, BusAssumption DEF BusTypeOK
  <2>3. QED
    BY <2>1, <2>2 DEF BusTypeOK
<1>5. CASE SendSnapshot(c) \/ Heartbeat(c) \/ CheckRunning(c) \/ Disconnect(c)
  BY <1>5 DEF SendSnapshot, Heartbeat, CheckRunning, Disconnect, BusTypeOK
<1>6. QED
  BY <1>2, <1>3, <1>4, <1>5 DEF StreamStep

\* What a step of the run queues, and what carrying it out leaves queued.
LEMMA StepKeepsTaskTypes ==
    ASSUME TypeInv, TypeInv', TaskTypeOK, ServiceNext
    PROVE  TaskTypeOK'
<1>0. /\ traceNodes \in [Node -> Statuses]
      /\ todo \in Seq(Effects)
      /\ results' \in [Node -> {"none", "ok", "bad"}]
      /\ failedNode' \in SUBSET Node
      /\ step \in {"pick", "await"} /\ cursor <= Len(order) => Current \in Node
      /\ step = "await" => cursor <= Len(order)
  BY OrderElements DEF TypeInv, TypeOK, TaskTypeOK
<1>1. ASSUME NEW status \in Statuses, traceNodes' = [traceNodes EXCEPT ![Current] = status]
      PROVE  traceNodes' \in [Node -> Statuses]
  BY <1>0, <1>1
<1>2. CASE AdaptersReady
  <2>1. traceNodes' \in [Node -> Statuses]
    BY <1>0, <1>2 DEF AdaptersReady
  <2>2. /\ Progress({}, {}) \in Effects
        /\ ToPublish("run_start", {}, "none") \in Effects
    BY <1>0, <2>1, ProgressIsEffect, EventIsEffect DEF EventTypes, Statuses
  <2>3. todo' \in Seq(Effects)
    BY <1>2, <2>2, EffectLists, EmptySeq DEF AdaptersReady
  <2>4. QED
    BY <1>2, <2>1, <2>3 DEF AdaptersReady, TaskTypeOK
<1>3. CASE AdaptersFail \/ CancelAdapters \/ RaiseRun
  <2>1. traceNodes' \in [Node -> Statuses]
    BY <1>0, <1>3 DEF AdaptersFail, CancelAdapters, RaiseRun
  <2>2. todo' \in Seq(Effects)
    BY <1>3, <2>1, RunErrorIsEffects DEF AdaptersFail, CancelAdapters, RaiseRun
  <2>3. QED
    BY <1>3, <2>1, <2>2 DEF AdaptersFail, CancelAdapters, RaiseRun, TaskTypeOK
<1>4. CASE BeginNode
  <2>1. Current \in Node
    BY <1>0, <1>4 DEF BeginNode, StartNode
  <2>2. traceNodes' \in [Node -> Statuses]
    BY <1>1, <1>4 DEF BeginNode, Statuses
  <2>3. /\ Progress({Current}, {}) \in Effects
        /\ ToPublish("node_start", {Current}, "running") \in Effects
    BY <1>0, <2>1, <2>2, ProgressIsEffect, EventIsEffect DEF EventTypes, Statuses
  <2>4. todo' \in Seq(Effects)
    BY <1>4, <2>3, EffectLists, EmptySeq DEF BeginNode, OnNodeStart
  <2>5. QED
    BY <1>4, <2>2, <2>4 DEF BeginNode, TaskTypeOK
<1>5. CASE EndNode
  <2>1. Current \in Node
    BY <1>0, <1>5 DEF EndNode, NodeSucceeds
  <2>2. traceNodes' \in [Node -> Statuses]
    BY <1>1, <1>5 DEF EndNode, Statuses
  <2>3. /\ Progress({Current}, {}) \in Effects
        /\ ToPublish("node_end", {Current}, "success") \in Effects
    BY <1>0, <2>1, <2>2, ProgressIsEffect, EventIsEffect DEF EventTypes, Statuses
  <2>4. todo' \in Seq(Effects)
    BY <1>5, <2>3, EffectLists, EmptySeq DEF EndNode
  <2>5. QED
    BY <1>5, <2>2, <2>4 DEF EndNode, TaskTypeOK
<1>6. CASE FailNode
  <2>1. PICK type \in {"node_end", "node_error"} : OnFailure(type)
    BY <1>6 DEF FailNode
  <2>2. Current \in Node
    BY <1>0, <1>6 DEF FailNode, NodeReportsFailure, NodeRaises, RejectNodeType
  <2>3. traceNodes' \in [Node -> Statuses]
    BY <1>1, <2>1 DEF OnFailure, Statuses
  <2>4. /\ Progress({Current}, {Current}) \in Effects
        /\ ToPublish(type, {Current}, "error") \in Effects
    BY <1>0, <2>2, <2>3, ProgressIsEffect, EventIsEffect DEF EventTypes, Statuses
  <2>5. Finally(FALSE, failedNode', results') \in Seq(Effects)
    BY <1>0, <2>3, FinallyIsEffects
  <2>6. todo' \in Seq(Effects)
    BY <2>1, <2>4, <2>5, EffectLists DEF OnFailure
  <2>7. QED
    BY <2>1, <2>3, <2>6 DEF OnFailure, TaskTypeOK
<1>7. CASE SucceedRun
  <2>1. traceNodes' \in [Node -> Statuses]
    BY <1>0, <1>7 DEF SucceedRun
  <2>2. todo' \in Seq(Effects)
    BY <1>0, <1>7, <2>1, FinallyIsEffects DEF SucceedRun
  <2>3. QED
    BY <1>7, <2>1, <2>2 DEF SucceedRun, TaskTypeOK
<1>8. CASE PublishNext \/ EndSave \/ FailSave
  <2>1. todo # <<>> /\ todo' = Tail(todo) /\ UNCHANGED <<service, traceNodes>>
    BY <1>8 DEF PublishNext, EndSave, FailSave, Pending
  <2>2. Tail(todo) \in Seq(Effects)
    BY <1>0, <2>1, HeadTailProperties
  <2>3. QED
    BY <2>1, <2>2 DEF TaskTypeOK
<1>9. CASE BeginSave
  <2>1. /\ todo # <<>>
        /\ Head(todo).op = "save"
        /\ todo' = << [Head(todo) EXCEPT !.op = "write"] >> \o Tail(todo)
        /\ UNCHANGED <<service, traceNodes>>
    BY <1>9 DEF BeginSave, Pending
  <2>2. Head(todo) \in Effects /\ Tail(todo) \in Seq(Effects)
    BY <1>0, <2>1, HeadTailProperties
  <2>3. [Head(todo) EXCEPT !.op = "write"] \in Effects
    BY <2>1, <2>2 DEF Effects
  <2>4. << [Head(todo) EXCEPT !.op = "write"] >> \o Tail(todo) \in Seq(Effects)
    BY <2>2, <2>3, EffectLists
  <2>5. QED
    BY <2>1, <2>4 DEF TaskTypeOK
<1>10. CASE Crash
  BY <1>10 DEF Crash, TaskTypeOK
<1>11. CASE QuietStep \/ PoolThread
  BY <1>11 DEF QuietStep, PoolThread, TaskTypeOK
<1>12. ASSUME NEW c \in Client, StreamNext(c) \/ ClientNext(c)
       PROVE  TaskTypeOK'
  BY <1>12 DEF StreamNext, ClientNext, TaskTypeOK
<1>13. QED
  BY <1>2, <1>3, <1>4, <1>5, <1>6, <1>7, <1>8, <1>9, <1>10, <1>11, <1>12
     DEF ServiceNext, ServiceAdvance, Effect

\* Who changes the file, and to what.
LEMMA StepKeepsStoreTypes ==
    ASSUME TaskTypeOK, StoreTypeOK, ServiceNext
    PROVE  StoreTypeOK'
<1>1. CASE EndSave
  <2>1. /\ todo # <<>>
        /\ Head(todo).op = "write"
        /\ WriteRecord(Head(todo).record)
    BY <1>1 DEF EndSave, Pending
  <2>2. Head(todo) \in Effects
    BY <2>1, HeadTailProperties DEF TaskTypeOK
  <2>3. Head(todo).record \in Records
    BY <2>1, <2>2 DEF Effects
  <2>4. file' \in {NoFile, TornFile} \cup Records
    BY <2>1, <2>3 DEF WriteRecord
  <2>5. QED
    BY <2>1, <2>4 DEF WriteRecord, StoreTypeOK
<1>2. CASE BeginSave
  BY <1>2 DEF BeginSave, OpenRecord, StoreTypeOK
<1>3. CASE FailSave
  BY <1>3, StoreAssumption DEF FailSave, LoseSave, StoreTypeOK
<1>4. CASE PoolThread
  <2>1. CASE DeleteRecord
    BY <2>1, StoreAssumption DEF DeleteRecord, StoreTypeOK
  <2>2. CASE ReadRecord(WithResult(file))
    <3>1. WithResult(file) \in SUBSET Node
      BY DEF WithResult
    <3>2. reader' \in [answer : {"none", "found", "404"}, shown : SUBSET Node]
      BY <2>2, <3>1 DEF ReadRecord, StoreTypeOK
    <3>3. QED
      BY <2>2, <3>2 DEF ReadRecord, StoreTypeOK
  <2>3. QED
    BY <1>4, <2>1, <2>2 DEF PoolThread
<1>5. CASE UNCHANGED storeVars
  BY <1>5 DEF storeVars, StoreTypeOK
<1>6. ASSUME NEW c \in Client, StreamNext(c) \/ ClientNext(c)
      PROVE  UNCHANGED storeVars
  BY <1>6 DEF StreamNext, ClientNext
<1>7. CASE AdaptersReady \/ QuietStep \/ RaiseRun \/ BeginNode \/ EndNode \/ FailNode
           \/ SucceedRun \/ PublishNext \/ AdaptersFail \/ CancelAdapters \/ Crash
  BY <1>5, <1>7 DEF AdaptersReady, QuietStep, RaiseRun, BeginNode, EndNode, FailNode,
     OnFailure, SucceedRun, PublishNext, AdaptersFail, CancelAdapters, Crash
<1>8. QED
  BY <1>1, <1>2, <1>3, <1>4, <1>5, <1>6, <1>7 DEF ServiceNext, ServiceAdvance, Effect

LEMMA StepKeepsBusTypes ==
    ASSUME TaskTypeOK, BusTypeOK, ServiceNext
    PROVE  BusTypeOK'
<1>1. CASE PublishNext
  <2>1. /\ todo # <<>>
        /\ Head(todo).op = "publish"
        /\ Publish(Head(todo).type, Head(todo).nodes, Head(todo).status)
    BY <1>1 DEF PublishNext, Pending
  <2>2. Head(todo) \in Effects
    BY <2>1, HeadTailProperties DEF TaskTypeOK
  <2>3. /\ Head(todo).type \in EventTypes
        /\ Head(todo).nodes \in SUBSET Node
        /\ Head(todo).status \in Statuses
    BY <2>1, <2>2 DEF Effects
  <2>4. QED
    BY <2>1, <2>3, PublishKeepsBusTypes
<1>2. ASSUME NEW c \in Client, StreamNext(c) \/ ClientNext(c)
      PROVE  BusTypeOK'
  BY <1>2, StreamKeepsBusTypes DEF StreamNext, ClientNext
<1>3. CASE Crash
  BY <1>3, EmptySeq DEF Crash, ForgetTrace, BusTypeOK
<1>4. CASE AdaptersReady \/ QuietStep \/ RaiseRun \/ BeginNode \/ EndNode \/ FailNode
           \/ SucceedRun \/ BeginSave \/ EndSave \/ FailSave \/ AdaptersFail
           \/ CancelAdapters \/ PoolThread
  <2>1. UNCHANGED busVars
    BY <1>4 DEF AdaptersReady, QuietStep, RaiseRun, BeginNode, EndNode, FailNode,
       OnFailure, SucceedRun, BeginSave, EndSave, FailSave, AdaptersFail,
       CancelAdapters, PoolThread
  <2>2. QED
    BY <2>1 DEF busVars, BusTypeOK
<1>5. QED
  BY <1>1, <1>2, <1>3, <1>4 DEF ServiceNext, ServiceAdvance, Effect

\* run_workflow, its record and its trace keep to their types, and no queue and
\* no backlog grows beyond its limit.
THEOREM ServiceTyping == ServiceSpec => []ServiceTypeOK
<1>1. ServiceInit => ServiceTypeOK
  <2> SUFFICES ASSUME ServiceInit
               PROVE  ServiceTypeOK
    OBVIOUS
  <2>1. TaskTypeOK
    BY EmptySeq DEF ServiceInit, TaskTypeOK, Statuses
  <2>2. StoreTypeOK
    BY StoreAssumption DEF ServiceInit, StoreInit, StoreTypeOK
  <2>3. BusTypeOK
    BY EmptySeq, BusAssumption DEF ServiceInit, BusInit, BusTypeOK
  <2>4. QED
    BY <2>1, <2>2, <2>3 DEF ServiceTypeOK
<1>2. TypeInv /\ TypeInv' /\ ServiceTypeOK /\ [ServiceNext]_serviceVars => ServiceTypeOK'
  <2>1. CASE UNCHANGED serviceVars
    BY <2>1 DEF serviceVars, storeVars, busVars, ServiceTypeOK, TaskTypeOK, StoreTypeOK,
                BusTypeOK
  <2>2. CASE ServiceNext
    BY <2>2, StepKeepsTaskTypes, StepKeepsStoreTypes, StepKeepsBusTypes DEF ServiceTypeOK
  <2>3. QED
    BY <2>1, <2>2
<1>3. QED
  BY <1>1, <1>2, ServiceRuns, TypeInvHolds, PTL DEF ServiceSpec

-----------------------------------------------------------------------------
\* Honest records, for node lists without repetition.  Records that wait to be
\* saved are honest too, so that it does not matter when a save happens or
\* which of them fail; and honest records stay honest, because verdicts are
\* final and a run that is over does not start again.

TraceAgrees ==
    \A n \in Node : /\ traceNodes[n] = "success" => phase[n] = "SUCCESS"
                    /\ traceNodes[n] = "error" => phase[n] = "FAILED"

NothingBeforeTheRun ==
    service = "adapters" => step = "idle" /\ file = NoFile /\ todo = <<>>

EffectsAreHonest ==
    \A i \in 1 .. Len(todo) : todo[i].op # "publish" => Honest(todo[i].record)

HonestInv ==
    /\ TraceAgrees
    /\ NothingBeforeTheRun
    /\ EffectsAreHonest
    /\ RecordIsHonest

\* A record that is honest after the step.
HonestNext(record) ==
    /\ record.success => ~record.running /\ outcome' = "success"
    /\ \A n \in Node : /\ record.results[n] = "ok" => phase'[n] = "SUCCESS"
                       /\ record.nodes[n] = "success" => phase'[n] = "SUCCESS"
                       /\ record.nodes[n] = "error" => phase'[n] = "FAILED"
    /\ ~record.running => service' # "running" /\ step' # "await"

HonestEffects == {e \in Effects : e.op # "publish" => HonestNext(e.record)}

LEMMA HonestEffectsSuffice ==
    ASSUME todo' \in Seq(HonestEffects)
    PROVE  EffectsAreHonest'
<1>1. \A i \in 1 .. Len(todo') : todo'[i] \in HonestEffects
  BY ElementOfSeq
<1>2. QED
  BY <1>1 DEF EffectsAreHonest, HonestEffects, HonestNext, Honest

LEMMA OutcomeIsFinal ==
    ASSUME RunnerInv, [Next]_vars, outcome # "none"
    PROVE  outcome' = outcome /\ step' = step
<1>1. step = "returned"
  BY DEF RunnerInv, RunInv, EndInv
<1>2. CASE Sort
  BY <1>2 DEF Sort, runVars
<1>3. CASE ~Sort
  BY <1>1, <1>3 DEF Next, Advance, NodeReturns, RaiseRejected, StartRun, RejectNodeType,
     StartNode, FinishRun, NodeSucceeds, NodeReportsFailure, NodeRaises, Cancel,
     vars, runVars
<1>4. QED
  BY <1>2, <1>3

\* An honest record stays honest.
LEMMA HonestStays ==
    ASSUME RunnerInv, service # "adapters", [ServiceNext]_serviceVars,
           NEW record, Honest(record)
    PROVE  HonestNext(record)
<1>1. [Next]_vars
  BY ServiceStepIsRunnerStep
<1>2. record.success => ~record.running /\ outcome' = "success"
  BY <1>1, OutcomeIsFinal DEF Honest
<1>3. \A n \in Node : phase[n] \in {"SUCCESS", "FAILED"} => phase'[n] = phase[n]
  BY <1>1, StepKeepsVerdicts DEF vars, runVars
<1>4. ASSUME service # "running", step # "await"
      PROVE  service' # "running" /\ step' # "await"
  <2>1. CASE QuietStep \/ RaiseRun \/ BeginNode \/ EndNode \/ FailNode \/ SucceedRun
             \/ AdaptersReady \/ AdaptersFail \/ CancelAdapters
    BY <1>4, <2>1 DEF QuietStep, RaiseRun, BeginNode, EndNode, FailNode, SucceedRun,
       AdaptersReady, AdaptersFail, CancelAdapters, Running
  <2>2. CASE Effect \/ PoolThread \/ Crash \/ UNCHANGED serviceVars
    BY <1>4, <2>2 DEF Effect, PublishNext, BeginSave, EndSave, FailSave, PoolThread,
       Crash, serviceVars, vars, runVars
  <2>3. ASSUME NEW c \in Client, StreamNext(c) \/ ClientNext(c)
        PROVE  UNCHANGED <<service, step>>
    BY <2>3 DEF StreamNext, ClientNext, vars, runVars
  <2>4. QED
    BY <1>4, <2>1, <2>2, <2>3 DEF ServiceNext, ServiceAdvance
<1>5. QED
  BY <1>2, <1>3, <1>4 DEF Honest, HonestNext

\* What the run queues in a step is honest after it.
LEMMA ProgressIsHonest ==
    ASSUME RunnerInv', TraceAgrees', NEW current \in SUBSET Node,
           NEW failed \in SUBSET Node, Progress(current, failed) \in Effects
    PROVE  Progress(current, failed) \in HonestEffects
<1>1. \A n \in Node : results'[n] = "ok" => phase'[n] = "SUCCESS"
  BY DEF RunnerInv, RunInv, BooksInv
<1>2. QED
  BY <1>1 DEF Progress, ToSave, HonestEffects, HonestNext, TraceAgrees

LEMMA FinallyIsHonest ==
    ASSUME TraceAgrees', traceNodes' \in [Node -> Statuses],
           service' = "ended", step' # "await",
           NEW success \in BOOLEAN, NEW failed \in SUBSET Node,
           NEW res \in [Node -> {"none", "ok", "bad"}],
           success => outcome' = "success",
           \A n \in Node : res[n] = "ok" => phase'[n] = "SUCCESS"
    PROVE  Finally(success, failed, res) \in Seq(HonestEffects)
<1> DEFINE record == [kind |-> "record", running |-> FALSE, success |-> success,
                      current |-> {}, failed |-> failed,
                      results |-> res, nodes |-> traceNodes']
<1>1. ToSave(record) \in Effects
  BY DEF ToSave, Effects, Records
<1>2. HonestNext(record)
  BY DEF HonestNext, TraceAgrees
<1>3. ToSave(record) \in HonestEffects
  BY <1>1, <1>2 DEF ToSave, HonestEffects
<1>4. ToPublish("run_end", {}, IF success THEN "success" ELSE "error") \in HonestEffects
  BY EventIsEffect DEF EventTypes, Statuses, ToPublish, HonestEffects
<1>5. QED
  BY <1>3, <1>4, EffectLists, EmptySeq DEF Finally

LEMMA RunErrorIsHonest ==
    ASSUME TraceAgrees', traceNodes' \in [Node -> Statuses],
           service' = "ended", step' # "await"
    PROVE  RunError \in Seq(HonestEffects)
<1>1. ToPublish("run_error", {}, "error") \in HonestEffects
  BY EventIsEffect DEF EventTypes, Statuses, ToPublish, HonestEffects
<1>2. [n \in Node |-> "none"] \in [Node -> {"none", "ok", "bad"}]
  OBVIOUS
<1>3. Finally(FALSE, {}, [n \in Node |-> "none"]) \in Seq(HonestEffects)
  BY <1>2, FinallyIsHonest
<1>4. QED
  BY <1>1, <1>3, EffectLists DEF RunError

\* The verdict a step puts into trace_nodes is the one the runner comes to.
LEMMA StepKeepsTraceAgrees ==
    ASSUME RunnerInv, TypeInv, TaskTypeOK, TraceAgrees, ServiceNext
    PROVE  TraceAgrees'
<1>0. /\ traceNodes \in [Node -> Statuses]
      /\ phase \in [Node -> NodePhases]
      /\ step \in {"pick", "await"} /\ cursor <= Len(order) => Current \in Node
      /\ step = "await" => cursor <= Len(order)
  BY OrderElements DEF TypeInv, TypeOK, TaskTypeOK
<1>1. \A n \in Node : phase[n] \in {"SUCCESS", "FAILED"} => phase'[n] = phase[n]
  BY ServiceStepIsRunnerStep, StepKeepsVerdicts DEF vars, runVars
<1>2. CASE traceNodes' = traceNodes
  BY <1>1, <1>2 DEF TraceAgrees
<1>3. CASE BeginNode
  <2>1. traceNodes' = [traceNodes EXCEPT ![Current] = "running"]
    BY <1>3 DEF BeginNode
  <2>2. QED
    BY <1>0, <1>1, <2>1 DEF TraceAgrees
<1>4. CASE EndNode
  <2>1. /\ traceNodes' = [traceNodes EXCEPT ![Current] = "success"]
        /\ phase' = [phase EXCEPT ![Current] = "SUCCESS"]
    BY <1>4 DEF EndNode, NodeSucceeds
  <2>2. QED
    BY <1>0, <1>1, <2>1 DEF TraceAgrees
<1>5. CASE FailNode
  <2>1. /\ traceNodes' = [traceNodes EXCEPT ![Current] = "error"]
        /\ phase' = [phase EXCEPT ![Current] = "FAILED"]
    BY <1>5 DEF FailNode, OnFailure, NodeReportsFailure, NodeRaises, RejectNodeType,
                ReturnFailed
  <2>2. QED
    BY <1>0, <1>1, <2>1 DEF TraceAgrees
<1>6. CASE QuietStep \/ RaiseRun \/ SucceedRun \/ AdaptersReady \/ AdaptersFail
           \/ CancelAdapters \/ Effect \/ PoolThread \/ Crash
  BY <1>2, <1>6 DEF QuietStep, RaiseRun, SucceedRun, AdaptersReady, AdaptersFail,
     CancelAdapters, Effect, PublishNext, BeginSave, EndSave, FailSave, PoolThread, Crash
<1>7. ASSUME NEW c \in Client, StreamNext(c) \/ ClientNext(c)
      PROVE  TraceAgrees'
  BY <1>2, <1>7 DEF StreamNext, ClientNext
<1>8. QED
  BY <1>3, <1>4, <1>5, <1>6, <1>7 DEF ServiceNext, ServiceAdvance

LEMMA StepKeepsNothingBefore ==
    ASSUME NothingBeforeTheRun, ServiceNext
    PROVE  NothingBeforeTheRun'
<1>1. CASE service # "adapters"
  <2>1. ASSUME NEW c \in Client, StreamNext(c) \/ ClientNext(c)
        PROVE  service' = service
    BY <2>1 DEF StreamNext, ClientNext
  <2>2. service' # "adapters"
    BY <1>1, <2>1 DEF ServiceNext, ServiceAdvance, QuietStep, RaiseRun, BeginNode,
       EndNode, FailNode, OnFailure, SucceedRun, AdaptersReady, AdaptersFail,
       CancelAdapters, Effect, PublishNext, BeginSave, EndSave, FailSave, PoolThread,
       Crash
  <2>3. QED
    BY <2>2 DEF NothingBeforeTheRun
<1>2. CASE service = "adapters"
  <2>0. step = "idle" /\ file = NoFile /\ todo = <<>>
    BY <1>2 DEF NothingBeforeTheRun
  <2>1. CASE AdaptersReady \/ AdaptersFail \/ CancelAdapters \/ Crash
    BY <2>1 DEF AdaptersReady, AdaptersFail, CancelAdapters, Crash, NothingBeforeTheRun
  <2>2. CASE PoolThread
    BY <2>0, <2>2 DEF PoolThread, ReadRecord, DeleteRecord, vars, runVars,
       NothingBeforeTheRun
  <2>3. ASSUME NEW c \in Client, StreamNext(c) \/ ClientNext(c)
        PROVE  NothingBeforeTheRun'
    BY <2>0, <2>3 DEF StreamNext, ClientNext, vars, runVars, storeVars,
       NothingBeforeTheRun
  <2>4. ~Effect
    BY <2>0 DEF Effect, PublishNext, BeginSave, EndSave, FailSave, Pending
  <2>5. ~(QuietStep \/ RaiseRun \/ BeginNode \/ EndNode \/ FailNode \/ SucceedRun)
    BY <1>2 DEF QuietStep, RaiseRun, BeginNode, EndNode, FailNode, SucceedRun, Running
  <2>6. QED
    BY <2>1, <2>2, <2>3, <2>4, <2>5 DEF ServiceNext, ServiceAdvance
<1>3. QED
  BY <1>1, <1>2

\* Effects that are honest before a step are so after it.
LEMMA WaitingEffectsStayHonest ==
    ASSUME RunnerInv, TaskTypeOK, NothingBeforeTheRun, EffectsAreHonest,
           [ServiceNext]_serviceVars
    PROVE  todo \in Seq(HonestEffects)
<1>1. ASSUME NEW i \in 1 .. Len(todo)
      PROVE  todo[i] \in HonestEffects
  <2>1. todo[i] \in Effects /\ todo # <<>>
    BY <1>1, ElementOfSeq, EmptySeq DEF TaskTypeOK
  <2>2. service # "adapters"
    BY <2>1 DEF NothingBeforeTheRun
  <2>3. ASSUME todo[i].op # "publish"
        PROVE  HonestNext(todo[i].record)
    BY <1>1, <2>2, <2>3, HonestStays DEF EffectsAreHonest
  <2>4. QED
    BY <2>1, <2>3 DEF HonestEffects
<1>2. Len(todo) \in Nat /\ todo \in [1 .. Len(todo) -> Effects]
  BY LenProperties DEF TaskTypeOK
<1>3. todo \in [1 .. Len(todo) -> HonestEffects]
  BY <1>1, <1>2
<1>4. QED
  BY <1>2, <1>3, SeqDef

LEMMA StepKeepsEffectsHonest ==
    ASSUME RunnerInv, RunnerInv', TypeInv, TaskTypeOK, TaskTypeOK', HonestInv,
           TraceAgrees', ServiceNext
    PROVE  EffectsAreHonest'
<1>0. /\ todo \in Seq(HonestEffects)
      /\ traceNodes' \in [Node -> Statuses]
      /\ results' \in [Node -> {"none", "ok", "bad"}]
      /\ failedNode' \in SUBSET Node
      /\ \A n \in Node : results'[n] = "ok" => phase'[n] = "SUCCESS"
      /\ step \in {"pick", "await"} /\ cursor <= Len(order) => Current \in Node
      /\ step = "await" => cursor <= Len(order)
  BY WaitingEffectsStayHonest, OrderElements
     DEF HonestInv, RunnerInv, RunInv, BooksInv, TypeInv, TypeOK, TaskTypeOK
<1>1. SUFFICES todo' \in Seq(HonestEffects)
  BY HonestEffectsSuffice
<1>2. ASSUME NEW type \in EventTypes, NEW nodes \in SUBSET Node, NEW status \in Statuses
      PROVE  ToPublish(type, nodes, status) \in HonestEffects
  BY EventIsEffect DEF ToPublish, HonestEffects
<1>3. ASSUME NEW current \in SUBSET Node, NEW failed \in SUBSET Node
      PROVE  Progress(current, failed) \in HonestEffects
  BY <1>0, ProgressIsEffect, ProgressIsHonest
<1>4. CASE AdaptersReady
  <2>1. /\ Progress({}, {}) \in HonestEffects
        /\ ToPublish("run_start", {}, "none") \in HonestEffects
    BY <1>2, <1>3 DEF EventTypes, Statuses
  <2>2. QED
    BY <1>4, <2>1, EffectLists, EmptySeq DEF AdaptersReady
<1>5. CASE AdaptersFail \/ CancelAdapters
  <2>1. service' = "ended" /\ step' # "await"
    BY <1>5 DEF AdaptersFail, CancelAdapters, HonestInv, NothingBeforeTheRun, vars, runVars
  <2>2. QED
    BY <1>0, <1>5, <2>1, RunErrorIsHonest DEF AdaptersFail, CancelAdapters, HonestInv
<1>6. CASE RaiseRun
  <2>1. service' = "ended" /\ step' # "await"
    BY <1>6 DEF RaiseRun, RaiseRejected, Cancel
  <2>2. QED
    BY <1>0, <1>6, <2>1, RunErrorIsHonest DEF RaiseRun
<1>7. CASE BeginNode
  <2>1. Current \in Node
    BY <1>0, <1>7 DEF BeginNode, StartNode
  <2>2. /\ Progress({Current}, {}) \in HonestEffects
        /\ ToPublish("node_start", {Current}, "running") \in HonestEffects
    BY <1>2, <1>3, <2>1 DEF EventTypes, Statuses
  <2>3. QED
    BY <1>7, <2>2, EffectLists, EmptySeq DEF BeginNode, OnNodeStart
<1>8. CASE EndNode
  <2>1. Current \in Node
    BY <1>0, <1>8 DEF EndNode, NodeSucceeds
  <2>2. /\ Progress({Current}, {}) \in HonestEffects
        /\ ToPublish("node_end", {Current}, "success") \in HonestEffects
    BY <1>2, <1>3, <2>1 DEF EventTypes, Statuses
  <2>3. QED
    BY <1>8, <2>2, EffectLists, EmptySeq DEF EndNode
<1>9. CASE FailNode
  <2>1. PICK type \in {"node_end", "node_error"} : OnFailure(type)
    BY <1>9 DEF FailNode
  <2>2. Current \in Node /\ step' # "await"
    BY <1>0, <1>9 DEF FailNode, NodeReportsFailure, NodeRaises, RejectNodeType,
                      ReturnFailed
  <2>3. /\ Progress({Current}, {Current}) \in HonestEffects
        /\ ToPublish(type, {Current}, "error") \in HonestEffects
    BY <1>2, <1>3, <2>2 DEF EventTypes, Statuses
  <2>4. service' = "ended"
    BY <2>1 DEF OnFailure
  <2>5. Finally(FALSE, failedNode', results') \in Seq(HonestEffects)
    BY <1>0, <2>2, <2>4, FinallyIsHonest
  <2>6. QED
    BY <2>1, <2>3, <2>5, EffectLists DEF OnFailure
<1>10. CASE SucceedRun
  <2>1. service' = "ended" /\ step' # "await" /\ outcome' = "success"
    BY <1>10 DEF SucceedRun, FinishRun
  <2>2. Finally(TRUE, {}, results') \in Seq(HonestEffects)
    BY <1>0, <2>1, FinallyIsHonest
  <2>3. QED
    BY <1>10, <2>2 DEF SucceedRun
<1>11. CASE PublishNext \/ EndSave \/ FailSave
  <2>1. todo # <<>> /\ todo' = Tail(todo)
    BY <1>11 DEF PublishNext, EndSave, FailSave, Pending
  <2>2. QED
    BY <1>0, <2>1, HeadTailProperties
<1>12. CASE BeginSave
  <2>1. /\ todo # <<>>
        /\ Head(todo).op = "save"
        /\ todo' = << [Head(todo) EXCEPT !.op = "write"] >> \o Tail(todo)
    BY <1>12 DEF BeginSave, Pending
  <2>2. Head(todo) \in HonestEffects /\ Tail(todo) \in Seq(HonestEffects)
    BY <1>0, <2>1, HeadTailProperties
  <2>3. [Head(todo) EXCEPT !.op = "write"] \in HonestEffects
    <3>1. Head(todo) \in Effects /\ HonestNext(Head(todo).record)
      BY <2>1, <2>2 DEF HonestEffects
    <3>2. /\ [Head(todo) EXCEPT !.op = "write"] \in Effects
          /\ [Head(todo) EXCEPT !.op = "write"].record = Head(todo).record
      BY <2>1, <3>1 DEF Effects
    <3>3. QED
      BY <3>1, <3>2 DEF HonestEffects
  <2>4. QED
    BY <2>1, <2>2, <2>3, EffectLists
<1>13. CASE Crash
  BY <1>13, EmptySeq DEF Crash
<1>14. CASE QuietStep \/ PoolThread
  BY <1>0, <1>14 DEF QuietStep, PoolThread
<1>15. ASSUME NEW c \in Client, StreamNext(c) \/ ClientNext(c)
       PROVE  todo' \in Seq(HonestEffects)
  BY <1>0, <1>15 DEF StreamNext, ClientNext
<1>16. QED
  BY <1>4, <1>5, <1>6, <1>7, <1>8, <1>9, <1>10, <1>11, <1>12, <1>13, <1>14, <1>15
     DEF ServiceNext, ServiceAdvance, Effect

\* What comes into the file is an effect that was honest.
LEMMA StepKeepsFileHonest ==
    ASSUME RunnerInv, TaskTypeOK, HonestInv, ServiceNext
    PROVE  RecordIsHonest'
<1>1. CASE EndSave
  <2>1. /\ todo # <<>>
        /\ Head(todo).op = "write"
        /\ file' = IF file = NoFile THEN NoFile ELSE Head(todo).record
    BY <1>1 DEF EndSave, Pending, WriteRecord
  <2>2. Head(todo) \in HonestEffects
    BY <2>1, WaitingEffectsStayHonest, HeadTailProperties DEF HonestInv
  <2>3. HonestNext(Head(todo).record)
    BY <2>1, <2>2 DEF HonestEffects
  <2>4. NoFile.kind # "record"
    BY DEF NoFile
  <2>5. QED
    BY <2>1, <2>3, <2>4 DEF RecordIsHonest, Loads, Honest, HonestNext
<1>2. CASE BeginSave
  BY <1>2 DEF BeginSave, OpenRecord, TornFile, RecordIsHonest, Loads
<1>3. CASE DeleteRecord
  BY <1>3 DEF DeleteRecord, NoFile, RecordIsHonest, Loads
<1>4. CASE UNCHANGED file
  <2> SUFFICES ASSUME Loads
               PROVE  HonestNext(file)
    BY <1>4 DEF RecordIsHonest, Loads, Honest, HonestNext
  <2>1. service # "adapters"
    BY DEF HonestInv, NothingBeforeTheRun, Loads, NoFile
  <2>2. QED
    BY <2>1, HonestStays DEF HonestInv, RecordIsHonest
<1>5. ASSUME NEW c \in Client, StreamNext(c) \/ ClientNext(c)
      PROVE  UNCHANGED file
  BY <1>5 DEF StreamNext, ClientNext, storeVars
<1>6. QED
  BY <1>1, <1>2, <1>3, <1>4, <1>5
     DEF ServiceNext, ServiceAdvance, Effect, AdaptersReady, QuietStep, RaiseRun,
         BeginNode, EndNode, FailNode, OnFailure, SucceedRun, PublishNext, FailSave,
         LoseSave, AdaptersFail, CancelAdapters, PoolThread, ReadRecord, Crash, storeVars

LEMMA HonestInvHolds ==
    ASSUME UniqueIdLists
    PROVE  ServiceSpec => []HonestInv
<1>1. ServiceInit => HonestInv
  BY EmptySeq DEF ServiceInit, Init, RunnerInit, StoreInit, HonestInv, TraceAgrees,
     NothingBeforeTheRun, EffectsAreHonest, RecordIsHonest, Loads, NoFile
<1>2. /\ RunnerInv /\ RunnerInv' /\ TypeInv /\ ServiceTypeOK /\ ServiceTypeOK'
      /\ HonestInv /\ [ServiceNext]_serviceVars
      => HonestInv'
  <2>1. CASE UNCHANGED serviceVars
    BY <2>1 DEF serviceVars, vars, runVars, storeVars, HonestInv, TraceAgrees,
       NothingBeforeTheRun, EffectsAreHonest, RecordIsHonest, Loads, Honest
  <2>2. CASE ServiceNext
    BY <2>2, StepKeepsTraceAgrees, StepKeepsNothingBefore, StepKeepsEffectsHonest,
       StepKeepsFileHonest DEF HonestInv, ServiceTypeOK
  <2>3. QED
    BY <2>1, <2>2
<1>3. QED
  BY <1>1, <1>2, ServiceRuns, RunnerInvHolds, TypeInvHolds, ServiceTyping, PTL
     DEF ServiceSpec

\* No record says what is not so, whatever is lost, deleted, interrupted or
\* killed, and whenever it is read.
THEOREM RecordsAreHonest ==
    ASSUME UniqueIdLists
    PROVE  ServiceSpec => []RecordIsHonest
<1>1. HonestInv => RecordIsHonest
  BY DEF HonestInv
<1>2. QED
  BY <1>1, HonestInvHolds, PTL

-----------------------------------------------------------------------------
\* The invariants of the remaining promises.  They need no assumption on the
\* node list.

\* What the runner keeps besides its types.
RunnerKeeps ==
    /\ step # "returned" => outcome = "none"
    /\ outcome # "failed" => failedNode = {}
    /\ \A n \in Node : phase[n] = "ABSENT" => results[n] = "none"
    /\ step = "idle" => \A n \in Node : results[n] = "none"

\* Events are numbered from 1; a stream that was never opened holds nothing,
\* and one that is live has sent all of its history.
StreamInv ==
    /\ \A i \in DOMAIN log : log[i].seq = i
    /\ \A c \in Client :
         /\ stream[c] = "off" =>
              c \notin subs /\ sent[c] = <<>> /\ backlog[c] = <<>> /\ queue[c] = <<>>
         /\ stream[c] \in {"live", "beat"} => backlog[c] = <<>>
    /\ StreamHasNoGap

\* run_end is the last effect of a run that is over, and the last event.
RunEndInv ==
    /\ \A i \in 1 .. Len(todo) :
         todo[i].op = "publish" /\ todo[i].type = "run_end" =>
           i = Len(todo) /\ service = "ended"
    /\ \A i \in DOMAIN log :
         log[i].type = "run_end" =>
           i = Len(log) /\ service = "ended" /\ todo = <<>>

\* The event about a node is the first effect of its step, and only the first
\* effect can be half of a save; the file is then there.
TodoInv ==
    /\ \A i \in 2 .. Len(todo) : todo[i].op # "write"
    /\ \A i \in 2 .. Len(todo) : todo[i].op = "publish" => todo[i].nodes = {}
    /\ Pending("write") /\ Undisturbed => file # NoFile

\* trace_nodes and the events follow the runner node by node.
TraceInv ==
    \A n \in Node :
        traceNodes[n] = IF phase[n] = "ABSENT" THEN "none" ELSE PhaseStatus[phase[n]]

EventInv ==
    service # "crashed" =>
      \A n \in Node :
        IF Pending("publish") /\ Head(todo).nodes = {n}
          THEN Head(todo).status = PhaseStatus[phase[n]]
          ELSE EventStatus(n) = PhaseStatus[phase[n]]

\* What the last record of a run that is over, or awaits a node, says.
IsResult(record) ==
    /\ ~record.running
    /\ record.success <=> outcome = "success"
    /\ outcome \in {"success", "failed"} =>
         record.results = results /\ record.failed = failedNode

Concludes(record) ==
    /\ record \in Records
    /\ service = "ended" => IsResult(record)
    /\ (service = "running" => step = "await") =>
         \A n \in Node : SnapshotStatus(record, n) = PhaseStatus[phase[n]]

\* The record of the last save among the effects, or the file when no save is
\* left.
IsLastSave(i) ==
    /\ todo[i].op # "publish"
    /\ \A j \in i + 1 .. Len(todo) : todo[j].op = "publish"

LastRecord ==
    {todo[i].record : i \in {k \in 1 .. Len(todo) : IsLastSave(k)}}
    \cup IF \A j \in 1 .. Len(todo) : todo[j].op = "publish" THEN {file} ELSE {}

LastSaveInv ==
    Undisturbed /\ service \in {"running", "ended"} =>
      \E r \in LastRecord : Concludes(r)

\* Records show more and more results, up to those the runner has.
Have == {n \in Node : results[n] # "none"}

GrowInv ==
    outcome # "cancelled" =>
      /\ reader.shown \subseteq Have
      /\ \A i \in 1 .. Len(todo) :
           todo[i].op # "publish" => WithResult(todo[i].record) = Have
      /\ Loads => reader.shown \subseteq WithResult(file) /\ WithResult(file) \subseteq Have

\* Sending the first event of the backlog or of the queue changes nothing of
\* what a client has and will get.
LEMMA MoveHead ==
    ASSUME NEW S, NEW s \in Seq(S), NEW t \in Seq(S), t # <<>>
    PROVE  Append(s, Head(t)) \o Tail(t) = s \o t
<1>1. Head(t) \in S /\ Tail(t) \in Seq(S) /\ <<Head(t)>> \in Seq(S)
  BY HeadTailProperties, EffectLists, EmptySeq
<1>2. <<Head(t)>> \o Tail(t) = t
  <2>1. SubSeq(t, 1, Len(t)) = <<t[1]>> \o SubSeq(t, 2, Len(t))
    <3>1. 1 \in 1 .. Len(t) /\ Len(t) \in 1 .. Len(t) /\ 1 + 1 = 2
      BY EmptySeq
    <3>2. QED
      BY <3>1, SubSeqRecursiveFirst
  <2>2. SubSeq(t, 1, Len(t)) = t /\ Tail(t) = SubSeq(t, 2, Len(t)) /\ Head(t) = t[1]
    BY SubSeqFull, TailIsSubSeq
  <2>3. QED
    BY <2>1, <2>2
<1>3. Append(s, Head(t)) = s \o <<Head(t)>>
  BY <1>1, AppendIsConcat
<1>4. QED
  BY <1>1, <1>2, <1>3, ConcatAssociative

LEMMA ConcatAppend ==
    ASSUME NEW S, NEW s \in Seq(S), NEW t \in Seq(S), NEW e \in S
    PROVE  s \o Append(t, e) = Append(s \o t, e)
<1>1. <<e>> \in Seq(S) /\ s \o t \in Seq(S)
  BY ConcatProperties, EffectLists, EmptySeq
<1>2. Append(t, e) = t \o <<e>> /\ Append(s \o t, e) = (s \o t) \o <<e>>
  BY <1>1, AppendIsConcat
<1>3. QED
  BY <1>1, <1>2, ConcatAssociative

\* What a client has been sent and still has to be sent.
Pieces(c) == sent[c] \o backlog[c] \o queue[c]

NoGap(s) == \A i \in DOMAIN s : s[i].seq = s[1].seq + i - 1

UpToDate(c) ==
    /\ NoGap(Pieces(c))
    /\ c \in subs /\ Pieces(c) # <<>> => Pieces(c)[Len(Pieces(c))].seq = Len(log)
    /\ c \in subs /\ log # <<>> => Pieces(c) # <<>>

LEMMA NoGapByClient == StreamHasNoGap <=> \A c \in Client : UpToDate(c)
  BY DEF StreamHasNoGap, UpToDate, NoGap, Pieces

LEMMA NoGapAppend ==
    ASSUME NEW s \in Seq(Events), NEW e \in Events, NEW n \in Nat, NoGap(s),
           e.seq = n + 1, s # <<>> => s[Len(s)].seq = n
    PROVE  NoGap(Append(s, e))
<1>1. /\ Append(s, e) \in Seq(Events)
      /\ Len(Append(s, e)) = Len(s) + 1
      /\ \A i \in 1 .. Len(s) : Append(s, e)[i] = s[i]
      /\ Append(s, e)[Len(s) + 1] = e
      /\ Len(s) \in Nat
      /\ DOMAIN s = 1 .. Len(s)
      /\ DOMAIN Append(s, e) = 1 .. Len(s) + 1
  BY AppendProperties, LenProperties
<1>2. CASE s = <<>>
  <2>1. Len(s) = 0
    BY <1>2
  <2>2. QED
    BY <1>1, <2>1 DEF NoGap
<1>3. CASE s # <<>>
  <2>1. Len(s) \in 1 .. Len(s) /\ 1 \in 1 .. Len(s)
    BY <1>1, <1>3, EmptySeq
  <2>2. s[1] \in Events /\ s[1].seq \in Nat
    <3>1. s[1] \in Events
      BY <2>1, ElementOfSeq
    <3>2. QED
      BY <3>1 DEF Events
  <2>3. n = s[1].seq + Len(s) - 1
    BY <1>1, <1>3, <2>1 DEF NoGap
  <2>4. ASSUME NEW i \in 1 .. Len(s) + 1
        PROVE  Append(s, e)[i].seq = s[1].seq + i - 1
    <3>1. CASE i \in 1 .. Len(s)
      BY <1>1, <3>1 DEF NoGap
    <3>2. CASE i = Len(s) + 1
      BY <1>1, <2>2, <2>3, <3>2
    <3>3. QED
      BY <1>1, <3>1, <3>2
  <2>5. Append(s, e)[1] = s[1]
    BY <1>1, <2>1
  <2>6. QED
    BY <1>1, <2>4, <2>5 DEF NoGap
<1>4. QED
  BY <1>2, <1>3

\* The history is the end of the log.
LEMMA HistoryIsTheEnd ==
    ASSUME BusTypeOK, \A i \in DOMAIN log : log[i].seq = i
    PROVE  /\ NoGap(History)
           /\ History # <<>> => History[Len(History)].seq = Len(log)
           /\ log # <<>> => History # <<>>
<1>1. /\ log \in Seq(Events)
      /\ Len(log) \in Nat
      /\ DOMAIN log = 1 .. Len(log)
      /\ HistoryMax \in Nat \ {0}
  BY LenProperties, BusAssumption DEF BusTypeOK
<1>2. CASE Len(log) <= HistoryMax
  <2>1. History = log
    BY <1>2 DEF History
  <2>2. log # <<>> => Len(log) \in 1 .. Len(log) /\ 1 \in 1 .. Len(log)
    BY <1>1, EmptySeq
  <2>3. log = <<>> => Len(log) = 0
    OBVIOUS
  <2>4. NoGap(log)
    BY <1>1, <2>2, <2>3 DEF NoGap
  <2>5. QED
    BY <1>1, <2>1, <2>2, <2>4
<1>3. CASE ~(Len(log) <= HistoryMax)
  <2> DEFINE m == Len(log) - HistoryMax + 1
             h == SubSeq(log, m, Len(log))
  <2>1. /\ m \in Int
        /\ m \in 1 .. Len(log)
        /\ m <= Len(log)
        /\ Len(log) - m + 1 = HistoryMax
    BY <1>1, <1>3
  <2>2. \A i \in m .. Len(log) : log[i] \in Events
    BY <1>1, <2>1, ElementOfSeq
  <2>3. History = h
    BY <1>1, <1>3 DEF History
  <2> HIDE DEF m
  <2>4. /\ h \in Seq(Events)
        /\ Len(h) = HistoryMax
        /\ \A i \in 1 .. HistoryMax : h[i] = log[m + i - 1]
        /\ DOMAIN h = 1 .. HistoryMax
    BY <1>1, <2>1, <2>2, SubSeqProperties, LenProperties
  <2> HIDE DEF h
  <2>5. \A i \in 1 .. HistoryMax : m + i - 1 \in 1 .. Len(log)
    BY <1>1, <2>1
  <2>6. \A i \in 1 .. HistoryMax : h[i].seq = m + i - 1
    BY <1>1, <2>4, <2>5
  <2>7. 1 \in 1 .. HistoryMax /\ HistoryMax \in 1 .. HistoryMax
    BY <1>1
  <2>8. h[1].seq = m /\ h[HistoryMax].seq = Len(log)
    BY <1>1, <2>1, <2>6, <2>7
  <2>9. NoGap(h)
    BY <2>1, <2>4, <2>6, <2>8 DEF NoGap
  <2>10. h # <<>>
    BY <1>1, <2>4, EmptySeq
  <2>11. QED
    BY <2>3, <2>4, <2>8, <2>9, <2>10
<1>4. QED
  BY <1>2, <1>3

LEMMA PublishKeepsStreams ==
    ASSUME BusTypeOK, BusTypeOK', StreamInv, NEW type \in EventTypes,
           NEW nodes \in SUBSET Node, NEW status \in Statuses,
           Publish(type, nodes, status)
    PROVE  StreamInv'
<1> DEFINE e == Event(type, nodes, status)
<1>0. /\ log \in Seq(Events)
      /\ Len(log) \in Nat
      /\ DOMAIN log = 1 .. Len(log)
      /\ log' = Append(log, e)
      /\ UNCHANGED <<backlog, sent, stream>>
  BY LenProperties DEF Publish, BusTypeOK
<1>1. e \in Events /\ e.seq = Len(log) + 1
  BY <1>0 DEF Event, Events
<1> HIDE DEF e
<1>2. /\ Len(log') = Len(log) + 1
      /\ log' # <<>>
      /\ \A i \in 1 .. Len(log) : log'[i] = log[i]
      /\ log'[Len(log) + 1] = e
      /\ DOMAIN log' = 1 .. Len(log) + 1
  BY <1>0, <1>1, AppendProperties, LenProperties DEF BusTypeOK
<1>3. \A i \in DOMAIN log' : log'[i].seq = i
  BY <1>0, <1>1, <1>2 DEF StreamInv
<1>4. ASSUME NEW c \in Client
      PROVE  /\ UpToDate(c)'
             /\ stream[c] = "off" => c \notin subs' /\ queue'[c] = queue[c]
  <2>1. /\ queue'[c] = IF c \in subs /\ Len(queue[c]) < QueueMax
                         THEN Append(queue[c], e) ELSE queue[c]
        /\ c \in subs' <=> c \in subs /\ Len(queue[c]) < QueueMax
    BY DEF Publish, Fanout, BusTypeOK, e
  <2>2. /\ sent[c] \in Seq(Events)
        /\ backlog[c] \in Seq(Events)
        /\ queue[c] \in Seq(Events)
        /\ sent[c] \o backlog[c] \in Seq(Events)
        /\ Pieces(c) \in Seq(Events)
    BY ConcatProperties DEF BusTypeOK, Pieces
  <2>3. UpToDate(c)
    BY NoGapByClient DEF StreamInv
  <2>4. CASE c \in subs /\ Len(queue[c]) < QueueMax
    <3>1. Pieces(c)' = Append(Pieces(c), e)
      <4>1. (sent[c] \o backlog[c]) \o Append(queue[c], e)
              = Append((sent[c] \o backlog[c]) \o queue[c], e)
        <5>1. \A s, t \in Seq(Events) : s \o Append(t, e) = Append(s \o t, e)
          BY <1>1, ConcatAppend
        <5>2. QED
          BY <2>2, <5>1, Zenon
      <4>2. /\ sent'[c] = sent[c]
            /\ backlog'[c] = backlog[c]
            /\ queue'[c] = Append(queue[c], e)
        BY <1>0, <2>1, <2>4
      <4>3. QED
        BY <4>1, <4>2, Zenon DEF Pieces
    <3>2. NoGap(Append(Pieces(c), e))
      BY <1>0, <1>1, <2>2, <2>3, <2>4, NoGapAppend DEF UpToDate
    <3>3. /\ Pieces(c)' # <<>>
          /\ Len(Pieces(c)') = Len(Pieces(c)) + 1
          /\ Pieces(c)'[Len(Pieces(c)')] = e
      BY <1>1, <2>2, <3>1, AppendProperties
    <3>4. UpToDate(c)'
      BY <1>1, <1>2, <3>1, <3>2, <3>3 DEF UpToDate, NoGap
    <3>5. QED
      BY <2>4, <3>4 DEF StreamInv
  <2>5. CASE ~(c \in subs /\ Len(queue[c]) < QueueMax)
    <3>1. Pieces(c)' = Pieces(c)
      BY <1>0, <2>1, <2>5 DEF Pieces
    <3>2. UpToDate(c)'
      BY <2>1, <2>3, <2>5, <3>1 DEF UpToDate, NoGap
    <3>3. QED
      BY <2>1, <2>5, <3>2
  <2>6. QED
    BY <2>4, <2>5
<1>5. StreamHasNoGap'
  BY <1>4 DEF StreamHasNoGap, UpToDate, NoGap, Pieces
<1>6. QED
  BY <1>0, <1>3, <1>4, <1>5 DEF StreamInv

LEMMA StreamStepKeepsStreams ==
    ASSUME BusTypeOK, StreamInv, NEW c \in Client,
           StreamStep(c) \/ OpenStream(c) \/ Disconnect(c)
    PROVE  StreamInv'
<1>1. /\ log' = log
      /\ \A d \in Client \ {c} :
           /\ stream'[d] = stream[d]
           /\ sent'[d] = sent[d]
           /\ backlog'[d] = backlog[d]
           /\ queue'[d] = queue[d]
           /\ d \in subs' <=> d \in subs
  BY DEF StreamStep, SendHistory, SendSnapshot, SendEvent, Heartbeat, CheckRunning,
         OpenStream, Disconnect, BusTypeOK
<1>2. /\ sent[c] \in Seq(Events)
      /\ backlog[c] \in Seq(Events)
      /\ queue[c] \in Seq(Events)
  BY DEF BusTypeOK
<1>3. ASSUME NEW d \in Client, Pieces(d)' = Pieces(d), d \in subs' => d \in subs
      PROVE  UpToDate(d)'
  <2>1. UpToDate(d)
    BY NoGapByClient DEF StreamInv
  <2>2. QED
    BY <1>1, <1>3, <2>1 DEF UpToDate, NoGap
<1>4. /\ UpToDate(c)'
      /\ stream'[c] # "off"
      /\ stream'[c] \in {"live", "beat"} => backlog'[c] = <<>>
  <2>1. CASE SendHistory(c)
    <3>1. /\ backlog[c] # <<>>
          /\ sent'[c] = Append(sent[c], Head(backlog[c]))
          /\ backlog'[c] = Tail(backlog[c])
          /\ UNCHANGED <<log, subs, queue, stream>>
          /\ stream[c] = "history"
      BY <2>1 DEF SendHistory, BusTypeOK
    <3>2. Pieces(c)' = Pieces(c)
      <4>1. Append(sent[c], Head(backlog[c])) \o Tail(backlog[c]) = sent[c] \o backlog[c]
        BY <1>2, <3>1, MoveHead
      <4>2. queue'[c] = queue[c]
        BY <3>1
      <4>3. QED
        BY <3>1, <4>1, <4>2 DEF Pieces
    <3>3. QED
      BY <1>3, <3>1, <3>2
  <2>2. CASE SendEvent(c)
    <3>1. /\ queue[c] # <<>>
          /\ sent'[c] = Append(sent[c], Head(queue[c]))
          /\ queue'[c] = Tail(queue[c])
          /\ UNCHANGED <<log, subs, backlog, stream>>
          /\ stream[c] = "live"
          /\ backlog[c] = <<>>
      BY <2>2 DEF SendEvent, BusTypeOK, StreamInv
    <3>2. /\ sent[c] \o <<>> = sent[c]
          /\ Append(sent[c], Head(queue[c])) \o <<>> = Append(sent[c], Head(queue[c]))
      <4>1. Append(sent[c], Head(queue[c])) \in Seq(Events)
        BY <1>2, <3>1, HeadTailProperties, AppendProperties
      <4>2. QED
        BY <1>2, <4>1, ConcatEmptySeq
    <3>3. Pieces(c)' = Pieces(c)
      <4>1. Append(sent[c], Head(queue[c])) \o Tail(queue[c]) = sent[c] \o queue[c]
        BY <1>2, <3>1, MoveHead
      <4>2. backlog'[c] = <<>>
        BY <3>1
      <4>3. QED
        BY <3>1, <3>2, <4>1, <4>2 DEF Pieces
    <3>4. QED
      BY <1>3, <3>1, <3>3
  <2>3. CASE OpenStream(c)
    <3>1. /\ backlog'[c] = History
          /\ stream'[c] = "history"
          /\ sent'[c] = <<>>
          /\ queue'[c] = <<>>
      BY <2>3 DEF OpenStream, BusTypeOK, StreamInv
    <3>2. Pieces(c)' = History
      <4>1. History \in Seq(Events)
        BY HistoryIsBounded
      <4>2. QED
        BY <3>1, <4>1, ConcatEmptySeq DEF Pieces
    <3>3. QED
      BY <1>1, <3>1, <3>2, HistoryIsTheEnd DEF UpToDate, NoGap, StreamInv
  <2>4. CASE SendSnapshot(c) \/ Heartbeat(c) \/ CheckRunning(c) \/ Disconnect(c)
    <3>1. /\ UNCHANGED <<sent, backlog, queue>>
          /\ c \in subs' => c \in subs
          /\ stream'[c] # "off"
          /\ stream'[c] \in {"live", "beat"} =>
               backlog[c] = <<>> \/ stream[c] \in {"live", "beat"}
      BY <2>4 DEF SendSnapshot, Heartbeat, CheckRunning, Disconnect, BusTypeOK
    <3>2. Pieces(c)' = Pieces(c)
      BY <3>1 DEF Pieces
    <3>3. QED
      BY <1>3, <3>1, <3>2 DEF StreamInv
  <2>5. QED
    BY <2>1, <2>2, <2>3, <2>4 DEF StreamStep
<1>5. ASSUME NEW d \in Client \ {c}
      PROVE  UpToDate(d)'
  BY <1>1, <1>3 DEF Pieces
<1>6. StreamHasNoGap'
  BY <1>4, <1>5 DEF StreamHasNoGap, UpToDate, NoGap, Pieces
<1>7. \A d \in Client :
        /\ stream'[d] = "off" =>
             d \notin subs' /\ sent'[d] = <<>> /\ backlog'[d] = <<>> /\ queue'[d] = <<>>
        /\ stream'[d] \in {"live", "beat"} => backlog'[d] = <<>>
  BY <1>1, <1>4 DEF StreamInv
<1>8. QED
  BY <1>1, <1>6, <1>7 DEF StreamInv

LEMMA StreamInvHolds == ServiceSpec => []StreamInv
<1>1. ServiceInit => StreamInv
  <2> SUFFICES ASSUME ServiceInit
               PROVE  StreamInv
    OBVIOUS
  <2>1. ASSUME NEW c \in Client
        PROVE  Pieces(c) = <<>>
    <3>1. Pieces(c) = <<>> \o <<>> \o <<>>
      BY DEF ServiceInit, BusInit, Pieces
    <3>2. QED
      BY <3>1, EmptySeq, ConcatEmptySeq
  <2>2. log = <<>> /\ subs = {}
    BY DEF ServiceInit, BusInit
  <2>3. StreamHasNoGap
    BY <2>1, <2>2, NoGapByClient DEF UpToDate, NoGap
  <2>4. QED
    BY <2>2, <2>3 DEF ServiceInit, BusInit, StreamInv
<1>2. ServiceTypeOK /\ ServiceTypeOK' /\ StreamInv /\ [ServiceNext]_serviceVars
      => StreamInv'
  <2> SUFFICES ASSUME ServiceTypeOK, ServiceTypeOK', StreamInv, [ServiceNext]_serviceVars
               PROVE  StreamInv'
    OBVIOUS
  <2>1. CASE PublishNext
    <3>1. /\ todo # <<>>
          /\ Head(todo).op = "publish"
          /\ Publish(Head(todo).type, Head(todo).nodes, Head(todo).status)
      BY <2>1 DEF PublishNext, Pending
    <3>2. Head(todo) \in Effects
      BY <3>1, HeadTailProperties DEF TaskTypeOK, ServiceTypeOK
    <3>3. /\ Head(todo).type \in EventTypes
          /\ Head(todo).nodes \in SUBSET Node
          /\ Head(todo).status \in Statuses
      BY <3>1, <3>2 DEF Effects
    <3>4. QED
      BY <3>1, <3>3, PublishKeepsStreams DEF ServiceTypeOK
  <2>2. ASSUME NEW c \in Client, StreamNext(c) \/ ClientNext(c)
        PROVE  StreamInv'
    BY <2>2, StreamStepKeepsStreams DEF StreamNext, ClientNext, ServiceTypeOK
  <2>3. CASE Crash
    <3>1. /\ log' = <<>>
          /\ subs' = {}
          /\ UNCHANGED <<queue, backlog, sent>>
          /\ \A c \in Client :
               /\ stream'[c] \in {"off", "ended", "gone"}
               /\ stream'[c] = "off" => stream[c] = "off"
      BY <2>3 DEF Crash, ForgetTrace, Open, ServiceTypeOK, BusTypeOK
    <3>2. ASSUME NEW c \in Client
          PROVE  UpToDate(c)'
      <4>1. Pieces(c)' = Pieces(c)
        BY <3>1 DEF Pieces
      <4>2. UpToDate(c)
        BY NoGapByClient DEF StreamInv
      <4>3. QED
        BY <3>1, <4>1, <4>2 DEF UpToDate, NoGap
    <3>3. StreamHasNoGap'
      BY <3>2 DEF StreamHasNoGap, UpToDate, NoGap, Pieces
    <3>4. QED
      BY <3>1, <3>3 DEF StreamInv
  <2>4. CASE UNCHANGED busVars
    BY <2>4 DEF busVars, StreamInv, StreamHasNoGap
  <2>5. CASE AdaptersReady \/ QuietStep \/ RaiseRun \/ BeginNode \/ EndNode \/ FailNode
             \/ SucceedRun \/ BeginSave \/ EndSave \/ FailSave \/ AdaptersFail
             \/ CancelAdapters \/ PoolThread \/ UNCHANGED serviceVars
    BY <2>4, <2>5 DEF AdaptersReady, QuietStep, RaiseRun, BeginNode, EndNode, FailNode,
       OnFailure, SucceedRun, BeginSave, EndSave, FailSave, AdaptersFail,
       CancelAdapters, PoolThread, serviceVars
  <2>6. QED
    BY <2>1, <2>2, <2>3, <2>5 DEF ServiceNext, ServiceAdvance, Effect
<1>3. QED
  BY <1>1, <1>2, ServiceTyping, PTL DEF ServiceSpec

\* What a client has been sent and still has to be sent is a piece of the
\* published events without a gap or a repetition: with any number of clients
\* that connect, leave and fall behind at any time, and any limits.
THEOREM StreamsHaveNoGap == ServiceSpec => []StreamHasNoGap
<1>1. StreamInv => StreamHasNoGap
  BY DEF StreamInv
<1>2. QED
  BY <1>1, StreamInvHolds, PTL

-----------------------------------------------------------------------------
\* What a step of the run queues.

LEMMA RunnerKeepsHolds == ServiceSpec => []RunnerKeeps
<1>1. Init => RunnerKeeps
  BY DEF Init, RunnerInit, RunnerKeeps
<1>2. TypeInv /\ RunnerKeeps /\ [Next]_vars => RunnerKeeps'
  <2> SUFFICES ASSUME TypeInv, RunnerKeeps, [Next]_vars
               PROVE  RunnerKeeps'
    OBVIOUS
  <2>1. /\ phase \in [Node -> NodePhases]
        /\ results \in [Node -> {"none", "ok", "bad"}]
    BY DEF TypeInv, TypeOK
  <2>2. CASE Sort \/ UNCHANGED vars
    BY <2>2 DEF Sort, vars, runVars, RunnerKeeps
  <2>3. CASE RaiseRejected \/ StartRun \/ FinishRun \/ Cancel
    BY <2>3 DEF RaiseRejected, StartRun, FinishRun, Cancel, RunnerKeeps
  <2>4. CASE RejectNodeType \/ StartNode
    BY <2>1, <2>4 DEF RejectNodeType, StartNode, ReturnFailed, RunnerKeeps
  <2>5. CASE NodeSucceeds \/ NodeReportsFailure \/ NodeRaises
    BY <2>1, <2>5
       DEF NodeSucceeds, NodeReportsFailure, NodeRaises, ReturnFailed, RunnerKeeps
  <2>6. QED
    BY <2>2, <2>3, <2>4, <2>5 DEF Next, Advance, NodeReturns
<1>3. QED
  BY <1>1, <1>2, ServiceRuns, TypeInvHolds, PTL DEF Spec

\* A list of effects as a step queues it: at most its first event is about a
\* node, the last save is that of r, and a run_end closes it
\* when the service is then at "ended".
Queued(s, r, after) ==
    /\ \A i \in 1 .. Len(s) : s[i].op \in {"publish", "save"}
    /\ \A i \in 2 .. Len(s) : s[i].op = "publish" => s[i].nodes = {}
    /\ \A i \in 1 .. Len(s) : s[i].op = "publish" /\ s[i].type = "run_end" =>
                                i = Len(s) /\ after = "ended"
    /\ \A i \in 1 .. Len(s) : s[i].op = "save" => s[i].record.results = r.results
    /\ \E i \in 1 .. Len(s) : /\ s[i].op = "save"
                              /\ s[i].record = r
                              /\ \A j \in i + 1 .. Len(s) : s[j].op = "publish"

LEMMA EventThenSave ==
    ASSUME NEW a, NEW b, NEW after,
           a.op = "publish", a.type # "run_end", b.op = "save"
    PROVE  Queued(<<a, b>>, b.record, after)
<1>1. Len(<<a, b>>) = 2 /\ <<a, b>>[1] = a /\ <<a, b>>[2] = b
  OBVIOUS
<1>2. \A i \in 1 .. 2 : i = 1 \/ i = 2
  OBVIOUS
<1>3. \A i \in 2 .. 2 : i = 2
  OBVIOUS
<1>4. \A j \in 2 + 1 .. 2 : FALSE
  OBVIOUS
<1> DEFINE s == <<a, b>>
<1> HIDE DEF s
<1>5. QED
  BY <1>1, <1>2, <1>3, <1>4 DEF Queued, s

LEMMA SaveThenEvent ==
    ASSUME NEW a, NEW b, NEW after,
           a.op = "save", b.op = "publish", b.nodes = {},
           b.type = "run_end" => after = "ended"
    PROVE  Queued(<<a, b>>, a.record, after)
<1> DEFINE s == <<a, b>>
<1>1. Len(s) = 2 /\ s[1] = a /\ s[2] = b
  OBVIOUS
<1>2. \A i \in 1 .. 2 : i = 1 \/ i = 2
  OBVIOUS
<1>3. \A i \in 2 .. 2 : i = 2
  OBVIOUS
<1>4. \A j \in 1 + 1 .. 2 : j = 2
  OBVIOUS
<1> HIDE DEF s
<1>5. Queued(s, a.record, after)
  BY <1>1, <1>2, <1>3, <1>4 DEF Queued
<1>6. QED
  BY <1>5 DEF s

LEMMA EventSaveEnd ==
    ASSUME NEW a, NEW b, NEW c, NEW after, after = "ended",
           a.op = "publish", a.type # "run_end", b.op = "save",
           c.op = "publish", c.nodes = {}
    PROVE  Queued(<<a>> \o <<b, c>>, b.record, after)
<1> DEFINE s == <<a>> \o <<b, c>>
<1>1. Len(s) = 3 /\ s[1] = a /\ s[2] = b /\ s[3] = c
  OBVIOUS
<1>2. \A i \in 1 .. 3 : i = 1 \/ i = 2 \/ i = 3
  OBVIOUS
<1>3. \A i \in 2 .. 3 : i = 2 \/ i = 3
  OBVIOUS
<1>4. \A j \in 2 + 1 .. 3 : j = 3
  OBVIOUS
<1> HIDE DEF s
<1>5. Queued(s, b.record, after)
  BY <1>1, <1>2, <1>3, <1>4 DEF Queued
<1>6. QED
  BY <1>5 DEF s

LEMMA EventSaveSaveEnd ==
    ASSUME NEW a, NEW b, NEW c, NEW d, NEW after, after = "ended",
           a.op = "publish", a.type # "run_end", b.op = "save", c.op = "save",
           b.record.results = c.record.results, d.op = "publish", d.nodes = {}
    PROVE  Queued(<<a, b>> \o <<c, d>>, c.record, after)
<1> DEFINE s == <<a, b>> \o <<c, d>>
<1>1. Len(s) = 4 /\ s[1] = a /\ s[2] = b /\ s[3] = c /\ s[4] = d
  OBVIOUS
<1>2. \A i \in 1 .. 4 : i = 1 \/ i = 2 \/ i = 3 \/ i = 4
  OBVIOUS
<1>3. \A i \in 2 .. 4 : i = 2 \/ i = 3 \/ i = 4
  OBVIOUS
<1>4. \A j \in 3 + 1 .. 4 : j = 4
  OBVIOUS
<1> HIDE DEF s
<1>5. Queued(s, c.record, after)
  BY <1>1, <1>2, <1>3, <1>4 DEF Queued
<1>6. QED
  BY <1>5 DEF s

\* The steps of the run that queue effects.
QueueingStep ==
    \/ AdaptersReady
    \/ AdaptersFail
    \/ CancelAdapters
    \/ RaiseRun
    \/ BeginNode
    \/ EndNode
    \/ FailNode
    \/ SucceedRun

\* What the last record of a step says, given the state after it.
SaysTheState(r) ==
    /\ r \in Records
    /\ r.nodes = traceNodes'
    /\ r.running <=> service' # "ended"
    /\ r.success <=> outcome' = "success"
    /\ service' = "ended" /\ outcome' \in {"success", "failed"} =>
         r.results = results' /\ r.failed = failedNode'
    /\ \A n \in r.failed : phase'[n] = "FAILED"
    /\ (service' = "running" => step' = "await") =>
         \A n \in r.current : phase'[n] = "RUNNING"
    /\ \/ r.results = results'
       \/ /\ \A n \in Node : r.results[n] = "none"
          /\ outcome' = "cancelled" \/ \A n \in Node : results'[n] = "none"

\* How the first effect tells what happened to the nodes.
TellsTheStep ==
    \/ /\ phase' = phase
       /\ traceNodes' = traceNodes
       /\ todo'[1].op = "publish" => todo'[1].nodes = {}
    \/ /\ Current \in Node
       /\ \E s \in {"RUNNING", "SUCCESS", "FAILED"} :
            /\ phase' = [phase EXCEPT ![Current] = s]
            /\ traceNodes' = [traceNodes EXCEPT ![Current] = PhaseStatus[s]]
            /\ todo'[1].op = "publish"
            /\ todo'[1].nodes = {Current}
            /\ todo'[1].status = PhaseStatus[s]

\* The save of the finally clause.
FinalSave(success, failed, res) ==
    ToSave([kind |-> "record", running |-> FALSE, success |-> success,
            current |-> {}, failed |-> failed,
            results |-> res, nodes |-> traceNodes'])

LEMMA FinallyLists ==
    ASSUME NEW failed, NEW res
    PROVE  /\ Finally(TRUE, failed, res)
                = <<FinalSave(TRUE, failed, res), ToPublish("run_end", {}, "success")>>
           /\ Finally(FALSE, failed, res)
                = <<FinalSave(FALSE, failed, res), ToPublish("run_end", {}, "error")>>
BY Zenon DEF Finally, FinalSave

LEMMA EventFields ==
    ASSUME NEW type, NEW nodes, NEW status
    PROVE  /\ ToPublish(type, nodes, status).op = "publish"
           /\ ToPublish(type, nodes, status).type = type
           /\ ToPublish(type, nodes, status).nodes = nodes
           /\ ToPublish(type, nodes, status).status = status
BY DEF ToPublish

\* What run_error queues, in a run that has no results to show.
LEMMA RunErrorQueues ==
    ASSUME traceNodes' \in [Node -> Statuses], results' \in [Node -> {"none", "ok", "bad"}],
           service' = "ended", outcome' \notin {"success", "failed"},
           outcome' = "cancelled" \/ \A n \in Node : results'[n] = "none",
           todo' = RunError, UNCHANGED <<phase, traceNodes>>
    PROVE  /\ \E r : SaysTheState(r) /\ Queued(todo', r, service')
           /\ TellsTheStep
<1> DEFINE none == [n \in Node |-> "none"]
           a == ToPublish("run_error", {}, "error")
           b == FinalSave(FALSE, {}, none)
           c == ToPublish("run_end", {}, "error")
<1>0. none \in [Node -> {"none", "ok", "bad"}] /\ {} \in SUBSET Node
  OBVIOUS
<1>1. /\ b.op = "save"
      /\ b.record \in Records
      /\ b.record.running = FALSE
      /\ b.record.success = FALSE
      /\ b.record.current = {}
      /\ b.record.failed = {}
      /\ b.record.results = none
      /\ b.record.nodes = traceNodes'
  BY <1>0 DEF FinalSave, ToSave, Records
<1>2. a.op = "publish" /\ a.type = "run_error" /\ a.nodes = {} /\ c.op = "publish"
      /\ c.nodes = {}
  BY EventFields
<1>3. todo' = <<a>> \o <<b, c>>
  BY FinallyLists, Zenon DEF RunError
<1> HIDE DEF a, b, c
<1>4. SaysTheState(b.record)
  BY <1>1 DEF SaysTheState
<1>5. Queued(todo', b.record, service')
  BY <1>1, <1>2, <1>3, EventSaveEnd
<1>6. todo'[1] = a
  BY <1>3
<1>7. TellsTheStep
  BY <1>2, <1>6 DEF TellsTheStep
<1>8. QED
  BY <1>4, <1>5, <1>7

LEMMA StepQueues ==
    ASSUME TypeInv, TypeInv', TaskTypeOK, TaskTypeOK', NothingBeforeTheRun, RunnerKeeps,
           RunnerKeeps', QueueingStep
    PROVE  /\ todo = <<>>
           /\ service \in {"adapters", "running"}
           /\ service' \in {"running", "ended"}
           /\ UNCHANGED <<storeVars, busVars>>
           /\ \E r : SaysTheState(r) /\ Queued(todo', r, service')
           /\ TellsTheStep
<1>0. /\ phase \in [Node -> NodePhases]
      /\ traceNodes \in [Node -> Statuses]
      /\ traceNodes' \in [Node -> Statuses]
      /\ results' \in [Node -> {"none", "ok", "bad"}]
      /\ failedNode' \in SUBSET Node
      /\ {} \in SUBSET Node
      /\ step \in {"pick", "await"} /\ cursor <= Len(order) => Current \in Node
      /\ step = "await" => cursor <= Len(order)
      /\ PhaseStatus["RUNNING"] = "running"
      /\ PhaseStatus["SUCCESS"] = "success"
      /\ PhaseStatus["FAILED"] = "error"
  BY OrderElements DEF TypeInv, TypeOK, TaskTypeOK, PhaseStatus
<1>a. /\ todo = <<>>
      /\ service \in {"adapters", "running"}
      /\ service' \in {"running", "ended"}
      /\ UNCHANGED <<storeVars, busVars>>
  BY DEF QueueingStep, AdaptersReady, AdaptersFail, CancelAdapters, RaiseRun, BeginNode,
         EndNode, FailNode, OnFailure, SucceedRun, Running, NothingBeforeTheRun
<1> SUFFICES /\ \E r : SaysTheState(r) /\ Queued(todo', r, service')
             /\ TellsTheStep
  BY <1>a
<1>1. CASE AdaptersReady
  <2> DEFINE a == Progress({}, {})
             b == ToPublish("run_start", {}, "none")
  <2>1. /\ todo' = <<a, b>>
        /\ service' = "running"
        /\ UNCHANGED <<vars, traceNodes>>
        /\ step' = "idle"
        /\ outcome' = "none"
    BY <1>1, <1>a DEF AdaptersReady, vars, runVars, NothingBeforeTheRun, RunnerKeeps
  <2>p. /\ a.op = "save"
        /\ a.record \in Records
        /\ a.record.running = TRUE
        /\ a.record.success = FALSE
        /\ a.record.current = {}
        /\ a.record.failed = {}
        /\ a.record.results = results'
        /\ a.record.nodes = traceNodes'
    BY <1>0 DEF Progress, ToSave, Records
  <2>3. b.op = "publish" /\ b.nodes = {} /\ b.type # "run_end"
    BY EventFields
  <2> HIDE DEF a, b
  <2>2. a.op = "save" /\ SaysTheState(a.record)
    BY <2>p, <2>1 DEF SaysTheState
  <2>4. Queued(todo', a.record, service')
    BY <2>1, <2>2, <2>3, SaveThenEvent
  <2>5. TellsTheStep
    BY <2>1, <2>2 DEF TellsTheStep, vars, runVars
  <2>6. QED
    BY <2>2, <2>4, <2>5
<1>2. CASE AdaptersFail \/ CancelAdapters
  <2>1. /\ todo' = RunError
        /\ service' = "ended"
        /\ UNCHANGED <<phase, traceNodes>>
        /\ step' = "idle"
    BY <1>2 DEF AdaptersFail, CancelAdapters, vars, runVars, NothingBeforeTheRun
  <2>2. outcome' = "none" /\ \A n \in Node : results'[n] = "none"
    BY <2>1 DEF RunnerKeeps
  <2>3. QED
    BY <1>0, <2>1, <2>2, RunErrorQueues
<1>3. CASE RaiseRun
  <2>1. /\ todo' = RunError
        /\ service' = "ended"
        /\ UNCHANGED <<phase, traceNodes, results>>
        /\ \/ outcome' = "cancelled"
           \/ outcome' = "raised" /\ step = "idle"
    BY <1>3 DEF RaiseRun, RaiseRejected, Cancel
  <2>2. outcome' = "cancelled" \/ \A n \in Node : results'[n] = "none"
    BY <2>1 DEF RunnerKeeps
  <2>3. QED
    BY <1>0, <2>1, <2>2, RunErrorQueues
<1>4. CASE BeginNode
  <2> DEFINE a == ToPublish("node_start", {Current}, "running")
             b == Progress({Current}, {})
  <2>1. /\ todo' = <<a, b>>
        /\ service' = "running"
        /\ step' = "await"
        /\ phase' = [phase EXCEPT ![Current] = "RUNNING"]
        /\ traceNodes' = [traceNodes EXCEPT ![Current] = "running"]
        /\ Current \in Node
    BY <1>0, <1>4 DEF BeginNode, Running, StartNode, OnNodeStart
  <2>2. outcome' = "none"
    BY <2>1 DEF RunnerKeeps
  <2>3. phase'[Current] = "RUNNING"
    BY <1>0, <2>1
  <2>p. /\ b.op = "save"
        /\ b.record \in Records
        /\ b.record.running = TRUE
        /\ b.record.success = FALSE
        /\ b.record.current = {Current}
        /\ b.record.failed = {}
        /\ b.record.results = results'
        /\ b.record.nodes = traceNodes'
    BY <1>0, <2>1 DEF Progress, ToSave, Records
  <2>5. a.op = "publish" /\ a.type # "run_end" /\ a.nodes = {Current} /\ a.status = "running"
    BY EventFields
  <2> HIDE DEF a, b
  <2>4. b.op = "save" /\ SaysTheState(b.record)
    BY <2>p, <2>1, <2>2, <2>3 DEF SaysTheState
  <2>6. Queued(todo', b.record, service')
    BY <2>1, <2>4, <2>5, EventThenSave
  <2>7. todo'[1] = a
    BY <2>1
  <2>8. TellsTheStep
    BY <1>0, <2>1, <2>5, <2>7 DEF TellsTheStep
  <2>9. QED
    BY <2>4, <2>6, <2>8
<1>5. CASE EndNode
  <2> DEFINE a == ToPublish("node_end", {Current}, "success")
             b == Progress({Current}, {})
  <2>1. /\ todo' = <<a, b>>
        /\ service' = "running"
        /\ step' = "pick"
        /\ phase' = [phase EXCEPT ![Current] = "SUCCESS"]
        /\ traceNodes' = [traceNodes EXCEPT ![Current] = "success"]
        /\ Current \in Node
    BY <1>0, <1>5 DEF EndNode, Running, NodeSucceeds
  <2>2. outcome' = "none"
    BY <2>1 DEF RunnerKeeps
  <2>p. /\ b.op = "save"
        /\ b.record \in Records
        /\ b.record.running = TRUE
        /\ b.record.success = FALSE
        /\ b.record.current = {Current}
        /\ b.record.failed = {}
        /\ b.record.results = results'
        /\ b.record.nodes = traceNodes'
    BY <1>0, <2>1 DEF Progress, ToSave, Records
  <2>4. a.op = "publish" /\ a.type # "run_end" /\ a.nodes = {Current} /\ a.status = "success"
    BY EventFields
  <2> HIDE DEF a, b
  <2>3. b.op = "save" /\ SaysTheState(b.record)
    BY <2>p, <2>1, <2>2 DEF SaysTheState
  <2>5. Queued(todo', b.record, service')
    BY <2>1, <2>3, <2>4, EventThenSave
  <2>6. todo'[1] = a
    BY <2>1
  <2>7. TellsTheStep
    BY <1>0, <2>1, <2>4, <2>6 DEF TellsTheStep
  <2>8. QED
    BY <2>3, <2>5, <2>7
<1>6. CASE FailNode
  <2>1. PICK type \in {"node_end", "node_error"} : OnFailure(type)
    BY <1>6 DEF FailNode
  <2> DEFINE a == ToPublish(type, {Current}, "error")
             b == Progress({Current}, {Current})
             c == FinalSave(FALSE, failedNode', results')
             d == ToPublish("run_end", {}, "error")
  <2>2. /\ service' = "ended"
        /\ traceNodes' = [traceNodes EXCEPT ![Current] = "error"]
        /\ todo' = <<a, b>> \o <<c, d>>
    BY <2>1, FinallyLists, Zenon DEF OnFailure
  <2>3. /\ ReturnFailed(Current)
        /\ Current \in Node
    BY <1>0, <1>6 DEF FailNode, NodeReportsFailure, NodeRaises, RejectNodeType
  <2>4. /\ phase' = [phase EXCEPT ![Current] = "FAILED"]
        /\ outcome' = "failed"
        /\ failedNode' = {Current}
        /\ phase'[Current] = "FAILED"
    BY <1>0, <2>3 DEF ReturnFailed
  <2>5. b.op = "save" /\ b.record.results = results'
    BY DEF Progress, ToSave
  <2>6. /\ c.op = "save"
        /\ c.record \in Records
        /\ c.record.running = FALSE
        /\ c.record.success = FALSE
        /\ c.record.current = {}
        /\ c.record.failed = failedNode'
        /\ c.record.results = results'
        /\ c.record.nodes = traceNodes'
    BY <1>0 DEF FinalSave, ToSave, Records
  <2>7. /\ a.op = "publish"
        /\ a.type # "run_end"
        /\ a.nodes = {Current}
        /\ a.status = "error"
        /\ d.op = "publish"
        /\ d.nodes = {}
    BY EventFields
  <2> HIDE DEF a, b, c, d
  <2>8. SaysTheState(c.record)
    BY <2>2, <2>4, <2>6 DEF SaysTheState
  <2>9. Queued(todo', c.record, service')
    BY <2>2, <2>5, <2>6, <2>7, EventSaveSaveEnd
  <2>10. todo'[1] = a
    BY <2>2
  <2>11. TellsTheStep
    BY <1>0, <2>2, <2>3, <2>4, <2>7, <2>10 DEF TellsTheStep
  <2>12. QED
    BY <2>8, <2>9, <2>11
<1>7. CASE SucceedRun
  <2> DEFINE a == FinalSave(TRUE, {}, results')
             b == ToPublish("run_end", {}, "success")
  <2>1. /\ todo' = <<a, b>>
        /\ service' = "ended"
        /\ outcome' = "success"
        /\ UNCHANGED <<phase, traceNodes>>
    BY <1>7, FinallyLists, Zenon DEF SucceedRun, FinishRun
  <2>2. failedNode' = {}
    BY <2>1 DEF RunnerKeeps
  <2>3. /\ a.op = "save"
        /\ a.record \in Records
        /\ a.record.running = FALSE
        /\ a.record.success = TRUE
        /\ a.record.current = {}
        /\ a.record.failed = {}
        /\ a.record.results = results'
        /\ a.record.nodes = traceNodes'
    BY <1>0 DEF FinalSave, ToSave, Records
  <2>4. b.op = "publish" /\ b.nodes = {}
    BY EventFields
  <2> HIDE DEF a, b
  <2>5. SaysTheState(a.record)
    BY <2>1, <2>2, <2>3 DEF SaysTheState
  <2>6. Queued(todo', a.record, service')
    BY <2>1, <2>3, <2>4, SaveThenEvent
  <2>7. todo'[1] = a
    BY <2>1
  <2>8. TellsTheStep
    BY <2>1, <2>3, <2>7 DEF TellsTheStep
  <2>9. QED
    BY <2>5, <2>6, <2>8
<1>8. QED
  BY <1>1, <1>2, <1>3, <1>4, <1>5, <1>6, <1>7 DEF QueueingStep

-----------------------------------------------------------------------------
\* The effects are carried out from the first to the last.

OtherTask == log' = log /\ UNCHANGED <<vars, storeVars, service, traceNodes, todo>>

LEMMA StepKinds ==
    ASSUME [ServiceNext]_serviceVars
    PROVE  \/ QueueingStep
           \/ QuietStep
           \/ PublishNext
           \/ BeginSave
           \/ EndSave
           \/ FailSave
           \/ OtherTask
           \/ PoolThread
           \/ Crash
<1>1. ASSUME NEW c \in Client, StreamNext(c) \/ ClientNext(c)
      PROVE  OtherTask
  BY <1>1 DEF StreamNext, ClientNext, StreamStep, SendHistory, SendSnapshot, SendEvent,
     Heartbeat, CheckRunning, OpenStream, Disconnect, OtherTask
<1>2. CASE UNCHANGED serviceVars
  BY <1>2 DEF serviceVars, busVars, OtherTask
<1>3. CASE ServiceNext
  BY <1>1, <1>3 DEF ServiceNext, ServiceAdvance, Effect, QueueingStep
<1>4. QED
  BY <1>2, <1>3

LEMMA EffectsShift ==
    ASSUME TaskTypeOK, todo # <<>>, todo' = Tail(todo)
    PROVE  /\ Len(todo) \in Nat \ {0}
           /\ Len(todo') = Len(todo) - 1
           /\ \A i \in 1 .. Len(todo') : todo'[i] = todo[i + 1]
           /\ Head(todo) = todo[1]
           /\ Len(todo) = 1 => todo' = <<>>
<1>1. todo \in Seq(Effects)
  BY DEF TaskTypeOK
<1>2. \A s \in Seq(Effects) : s # <<>> =>
         /\ Len(s) \in Nat \ {0}
         /\ Tail(s) \in Seq(Effects)
         /\ Len(Tail(s)) = Len(s) - 1
         /\ \A i \in 1 .. Len(Tail(s)) : Tail(s)[i] = s[i + 1]
         /\ Head(s) = s[1]
  BY HeadTailProperties, LenProperties, EmptySeq
<1>3. QED
  BY <1>1, <1>2, EmptySeq

LEMMA SaveOpens ==
    ASSUME TaskTypeOK, TaskTypeOK', todo # <<>>,
           todo' = << [Head(todo) EXCEPT !.op = "write"] >> \o Tail(todo)
    PROVE  /\ Len(todo) \in Nat \ {0}
           /\ Len(todo') = Len(todo)
           /\ todo'[1] = [todo[1] EXCEPT !.op = "write"]
           /\ \A i \in 2 .. Len(todo) : todo'[i] = todo[i]
           /\ Head(todo) = todo[1]
<1>1. todo \in Seq(Effects)
  BY DEF TaskTypeOK
<1>2. \A s \in Seq(Effects) : s # <<>> =>
         /\ Len(s) \in Nat \ {0}
         /\ Tail(s) \in Seq(Effects)
         /\ Len(Tail(s)) = Len(s) - 1
         /\ \A i \in 1 .. Len(Tail(s)) : Tail(s)[i] = s[i + 1]
         /\ Head(s) = s[1]
  BY HeadTailProperties, LenProperties, EmptySeq
<1>3. PICK t : t = Tail(todo)
  OBVIOUS
<1>4. PICK e : e = [Head(todo) EXCEPT !.op = "write"]
  OBVIOUS
<1>5. todo' = <<e>> \o t
  BY <1>3, <1>4
<1>6. /\ Len(todo) \in Nat \ {0}
      /\ Len(t) = Len(todo) - 1
      /\ \A i \in 1 .. Len(t) : t[i] = todo[i + 1]
      /\ Head(todo) = todo[1]
      /\ t \in Seq(Effects)
  BY <1>1, <1>2, <1>3
<1>7. /\ Len(<<e>> \o t) = 1 + Len(t)
      /\ (<<e>> \o t)[1] = e
      /\ \A i \in 1 .. Len(t) : (<<e>> \o t)[i + 1] = t[i]
  BY <1>6
<1>8. \A i \in 2 .. Len(todo) : i - 1 \in 1 .. Len(t) /\ i = (i - 1) + 1
  BY <1>6
<1>9. \A i \in 2 .. Len(todo) : todo'[i] = todo[i]
  BY <1>5, <1>6, <1>7, <1>8
<1>10. QED
  BY <1>4, <1>5, <1>6, <1>7, <1>9

LEMMA WriteKeepsRecord ==
    ASSUME NEW e \in Effects, e.op = "save"
    PROVE  /\ [e EXCEPT !.op = "write"].op = "write"
           /\ [e EXCEPT !.op = "write"].record = e.record
BY DEF Effects

\* run_end is queued last, and nothing is published after it.
LEMMA StepKeepsRunEnd ==
    ASSUME TypeInv, TypeInv', ServiceTypeOK, ServiceTypeOK', NothingBeforeTheRun,
           RunnerKeeps, RunnerKeeps', RunEndInv, [ServiceNext]_serviceVars
    PROVE  RunEndInv'
<1>0. /\ TaskTypeOK
      /\ TaskTypeOK'
      /\ log \in Seq(Events)
      /\ DOMAIN log = 1 .. Len(log)
      /\ Len(log) \in Nat
  BY LenProperties DEF ServiceTypeOK, BusTypeOK
<1>1. CASE QueueingStep
  <2>1. PICK r : Queued(todo', r, service')
    BY <1>0, <1>1, StepQueues, Zenon
  <2>2. service \in {"adapters", "running"} /\ log' = log
    BY <1>0, <1>1, StepQueues DEF busVars
  <2>3. \A i \in DOMAIN log : log[i].type # "run_end"
    BY <2>2 DEF RunEndInv
  <2>4. QED
    BY <2>1, <2>2, <2>3 DEF RunEndInv, Queued
<1>2. CASE QuietStep \/ OtherTask \/ PoolThread
  <2>1. UNCHANGED <<log, todo, service>>
    BY <1>2 DEF QuietStep, OtherTask, PoolThread, busVars
  <2>2. QED
    BY <2>1 DEF RunEndInv
<1>3. CASE PublishNext
  <2> DEFINE e == Event(todo[1].type, todo[1].nodes, todo[1].status)
  <2>1. /\ todo # <<>>
        /\ todo' = Tail(todo)
        /\ Head(todo).op = "publish"
        /\ log' = Append(log, Event(Head(todo).type, Head(todo).nodes, Head(todo).status))
        /\ service' = service
    BY <1>3 DEF PublishNext, Pending, Publish
  <2>2. /\ Len(todo) \in Nat \ {0}
        /\ Len(todo') = Len(todo) - 1
        /\ \A i \in 1 .. Len(todo') : todo'[i] = todo[i + 1]
        /\ Head(todo) = todo[1]
        /\ Len(todo) = 1 => todo' = <<>>
    BY <1>0, <2>1, EffectsShift
  <2>3. log' = Append(log, e) /\ e.type = todo[1].type /\ todo[1].op = "publish"
    BY <2>1, <2>2 DEF Event
  <2> HIDE DEF e
  <2>4. /\ Len(log') = Len(log) + 1
        /\ DOMAIN log' = 1 .. Len(log) + 1
        /\ \A i \in 1 .. Len(log) : log'[i] = log[i]
        /\ log'[Len(log) + 1] = e
    BY <1>0, <2>3
  <2>5. \A i \in 1 .. Len(log) : log[i].type # "run_end"
    BY <1>0, <2>1 DEF RunEndInv
  <2>6. todo[1].type = "run_end" => Len(todo) = 1 /\ service = "ended"
    BY <2>2, <2>3 DEF RunEndInv
  <2>7. \A i \in DOMAIN log' : log'[i].type = "run_end" =>
           i = Len(log') /\ service' = "ended" /\ todo' = <<>>
    BY <1>0, <2>1, <2>2, <2>3, <2>4, <2>5, <2>6
  <2>8. \A i \in 1 .. Len(todo') :
          todo'[i].op = "publish" /\ todo'[i].type = "run_end" =>
            i = Len(todo') /\ service' = "ended"
    <3> SUFFICES ASSUME NEW i \in 1 .. Len(todo'), todo'[i].op = "publish",
                        todo'[i].type = "run_end"
                 PROVE  i = Len(todo') /\ service' = "ended"
      OBVIOUS
    <3>1. i + 1 \in 1 .. Len(todo) /\ todo'[i] = todo[i + 1]
      BY <2>2
    <3>2. i + 1 = Len(todo) /\ service = "ended"
      BY <3>1 DEF RunEndInv
    <3>3. i = Len(todo')
      BY <2>2, <3>2
    <3>4. QED
      BY <2>1, <3>2, <3>3
  <2>9. QED
    BY <2>7, <2>8 DEF RunEndInv
<1>4. CASE BeginSave
  <2>1. /\ todo # <<>>
        /\ Head(todo).op = "save"
        /\ todo' = << [Head(todo) EXCEPT !.op = "write"] >> \o Tail(todo)
        /\ log' = log
        /\ service' = service
    BY <1>4 DEF BeginSave, Pending, busVars
  <2>2. /\ Len(todo) \in Nat \ {0}
        /\ Len(todo') = Len(todo)
        /\ todo'[1] = [todo[1] EXCEPT !.op = "write"]
        /\ \A i \in 2 .. Len(todo) : todo'[i] = todo[i]
        /\ Head(todo) = todo[1]
    BY <1>0, <2>1, SaveOpens
  <2>3. todo[1] \in Effects /\ todo[1].op = "save"
    BY <1>0, <2>1, <2>2, ElementOfSeq DEF TaskTypeOK
  <2>4. todo'[1].op = "write"
    BY <2>2, <2>3, WriteKeepsRecord
  <2>5. \A i \in 1 .. Len(todo) : i = 1 \/ i \in 2 .. Len(todo)
    BY <2>2
  <2>6. QED
    BY <2>1, <2>2, <2>4, <2>5 DEF RunEndInv
<1>5. CASE EndSave \/ FailSave
  <2>1. /\ todo # <<>>
        /\ todo' = Tail(todo)
        /\ log' = log
        /\ service' = service
    BY <1>5 DEF EndSave, FailSave, Pending, busVars
  <2>2. /\ Len(todo) \in Nat \ {0}
        /\ Len(todo') = Len(todo) - 1
        /\ \A i \in 1 .. Len(todo') : todo'[i] = todo[i + 1]
    BY <1>0, <2>1, EffectsShift
  <2>3. \A i \in 1 .. Len(todo') :
          todo'[i].op = "publish" /\ todo'[i].type = "run_end" =>
            i = Len(todo') /\ service' = "ended"
    <3> SUFFICES ASSUME NEW i \in 1 .. Len(todo'), todo'[i].op = "publish",
                        todo'[i].type = "run_end"
                 PROVE  i = Len(todo') /\ service' = "ended"
      OBVIOUS
    <3>1. i + 1 \in 1 .. Len(todo) /\ todo'[i] = todo[i + 1]
      BY <2>2
    <3>2. i + 1 = Len(todo) /\ service = "ended"
      BY <3>1 DEF RunEndInv
    <3>3. i = Len(todo')
      BY <2>2, <3>2
    <3>4. QED
      BY <2>1, <3>2, <3>3
  <2>4. QED
    BY <2>1, <2>3 DEF RunEndInv
<1>6. CASE Crash
  <2>1. log' = <<>> /\ todo' = <<>>
    BY <1>6 DEF Crash, ForgetTrace
  <2>2. QED
    BY <2>1 DEF RunEndInv
<1>7. QED
  BY <1>1, <1>2, <1>3, <1>4, <1>5, <1>6, StepKinds

LEMMA StepKeepsTodo ==
    ASSUME TypeInv, TypeInv', ServiceTypeOK, ServiceTypeOK', NothingBeforeTheRun,
           RunnerKeeps, RunnerKeeps', TodoInv, [ServiceNext]_serviceVars
    PROVE  TodoInv'
<1>0. TaskTypeOK /\ TaskTypeOK' /\ deletes \in Nat
  BY StoreAssumption DEF ServiceTypeOK, StoreTypeOK
<1>1. CASE QueueingStep
  <2>1. PICK r : Queued(todo', r, service')
    BY <1>0, <1>1, StepQueues, Zenon
  <2>2. Len(todo') \in Nat
    BY <1>0, LenProperties DEF TaskTypeOK
  <2>3. \A i \in 2 .. Len(todo') : i \in 1 .. Len(todo')
    BY <2>2
  <2>4. ~Pending("write")'
    <3>1. SUFFICES ASSUME todo' # <<>>, Head(todo').op = "write"
                   PROVE  FALSE
      BY DEF Pending
    <3>2. 1 \in 1 .. Len(todo') /\ Head(todo') = todo'[1]
      BY <1>0, <3>1, HeadTailProperties, EmptySeq, LenProperties DEF TaskTypeOK
    <3>3. QED
      BY <2>1, <3>1, <3>2 DEF Queued
  <2>5. QED
    BY <2>1, <2>3, <2>4 DEF TodoInv, Queued
<1>2. CASE QuietStep \/ OtherTask
  <2>1. UNCHANGED <<file, lost, deletes, todo>>
    BY <1>2 DEF QuietStep, OtherTask, storeVars
  <2>2. QED
    BY <2>1 DEF TodoInv, Pending, Undisturbed
<1>3. CASE PublishNext \/ EndSave \/ FailSave
  <2>1. todo # <<>> /\ todo' = Tail(todo)
    BY <1>3 DEF PublishNext, EndSave, FailSave, Pending
  <2>2. /\ Len(todo) \in Nat \ {0}
        /\ Len(todo') = Len(todo) - 1
        /\ \A i \in 1 .. Len(todo') : todo'[i] = todo[i + 1]
    BY <1>0, <2>1, EffectsShift
  <2>3. \A i \in 1 .. Len(todo') : i + 1 \in 2 .. Len(todo)
    BY <2>2
  <2>4. \A i \in 2 .. Len(todo') : i \in 1 .. Len(todo')
    BY <2>2
  <2>5. \A i \in 1 .. Len(todo') :
          /\ todo'[i].op # "write"
          /\ todo'[i].op = "publish" => todo'[i].nodes = {}
    BY <2>2, <2>3 DEF TodoInv
  <2>6. ~Pending("write")'
    <3>1. SUFFICES ASSUME todo' # <<>>, Head(todo').op = "write"
                   PROVE  FALSE
      BY DEF Pending
    <3>2. 1 \in 1 .. Len(todo') /\ Head(todo') = todo'[1]
      BY <1>0, <3>1, HeadTailProperties, EmptySeq, LenProperties DEF TaskTypeOK
    <3>3. QED
      BY <2>5, <3>1, <3>2
  <2>7. QED
    BY <2>4, <2>5, <2>6 DEF TodoInv
<1>4. CASE BeginSave
  <2>1. /\ todo # <<>>
        /\ todo' = << [Head(todo) EXCEPT !.op = "write"] >> \o Tail(todo)
        /\ file' # NoFile
    BY <1>4 DEF BeginSave, Pending, OpenRecord, TornFile, NoFile
  <2>2. /\ Len(todo') = Len(todo)
        /\ \A i \in 2 .. Len(todo) : todo'[i] = todo[i]
    BY <1>0, <2>1, SaveOpens
  <2>3. QED
    BY <2>1, <2>2 DEF TodoInv
<1>5. CASE PoolThread
  <2>1. todo' = todo /\ lost' = lost
    BY <1>5 DEF PoolThread, ReadRecord, DeleteRecord
  <2>2. (file' = file /\ deletes' = deletes) \/ deletes' = deletes + 1
    BY <1>5 DEF PoolThread, ReadRecord, DeleteRecord
  <2>3. Undisturbed' => Undisturbed /\ file' = file
    BY <1>0, <2>1, <2>2 DEF Undisturbed
  <2>4. QED
    BY <2>1, <2>3 DEF TodoInv, Pending
<1>6. CASE Crash
  <2>1. todo' = <<>>
    BY <1>6 DEF Crash
  <2>2. QED
    BY <2>1 DEF TodoInv, Pending
<1>7. QED
  BY <1>1, <1>2, <1>3, <1>4, <1>5, <1>6, StepKinds

\* The table the service keeps of the nodes follows the runner.
LEMMA StepKeepsTrace ==
    ASSUME TypeInv, TypeInv', ServiceTypeOK, ServiceTypeOK', NothingBeforeTheRun,
           RunnerKeeps, RunnerKeeps', TraceInv, [ServiceNext]_serviceVars
    PROVE  TraceInv'
<1>0. /\ TaskTypeOK
      /\ TaskTypeOK'
      /\ phase \in [Node -> NodePhases]
      /\ traceNodes \in [Node -> Statuses]
  BY DEF ServiceTypeOK, TaskTypeOK, TypeInv, TypeOK
<1>1. CASE UNCHANGED <<phase, traceNodes>>
  BY <1>1 DEF TraceInv
<1>2. CASE QueueingStep
  <2>1. TellsTheStep
    BY <1>0, <1>2, StepQueues
  <2>2. CASE UNCHANGED <<phase, traceNodes>>
    BY <1>1, <2>2
  <2>3. CASE ~UNCHANGED <<phase, traceNodes>>
    <3>1. PICK s \in {"RUNNING", "SUCCESS", "FAILED"} :
             /\ phase' = [phase EXCEPT ![Current] = s]
             /\ traceNodes' = [traceNodes EXCEPT ![Current] = PhaseStatus[s]]
      BY <2>1, <2>3 DEF TellsTheStep
    <3>2. ASSUME NEW n \in Node
          PROVE  traceNodes'[n] = IF phase'[n] = "ABSENT" THEN "none"
                                  ELSE PhaseStatus[phase'[n]]
      <4>1. CASE n = Current
        <5>1. phase'[n] = s /\ traceNodes'[n] = PhaseStatus[s]
          BY <1>0, <3>1, <4>1
        <5>2. QED
          BY <5>1
      <4>2. CASE n # Current
        <5>1. phase'[n] = phase[n] /\ traceNodes'[n] = traceNodes[n]
          BY <1>0, <3>1, <4>2
        <5>2. QED
          BY <5>1 DEF TraceInv
      <4>3. QED
        BY <4>1, <4>2
    <3>3. QED
      BY <3>2 DEF TraceInv
  <2>4. QED
    BY <2>2, <2>3
<1>3. CASE QuietStep \/ PublishNext \/ BeginSave \/ EndSave \/ FailSave \/ OtherTask
           \/ PoolThread \/ Crash
  BY <1>1, <1>3 DEF QuietStep, Sort, StartRun, PublishNext, BeginSave, EndSave, FailSave,
     OtherTask, PoolThread, Crash, vars, runVars
<1>4. QED
  BY <1>2, <1>3, StepKinds

\* Every non-empty set of numbers has a least one, and a greatest one below a
\* bound.
LEMMA LeastElement ==
    ASSUME NEW T \in SUBSET Nat, T # {}
    PROVE  \E x \in T : \A y \in T : x <= y
<1> DEFINE R == {p \in Nat \X Nat : p[1] < p[2]}
<1>1. IsWellFoundedOn(R, Nat)
  BY NatLessThanWellFounded, Zenon DEF OpToRel
<1>2. \E x \in T : \A y \in T : <<y, x>> \notin R
  <2> HIDE DEF R
  <2> QED
    BY <1>1, WFMin, Zenon
<1>3. \A x, y \in Nat : <<y, x>> \notin R => x <= y
  OBVIOUS
<1> HIDE DEF R
<1>4. QED
  BY <1>2, <1>3

LEMMA GreatestElement ==
    ASSUME NEW k \in Nat, NEW T \in SUBSET (1 .. k), T # {}
    PROVE  \E x \in T : \A y \in T : y <= x
<1> DEFINE U == {k - y : y \in T}
<1>0. \A y \in T : k - y \in Nat
  OBVIOUS
<1>1. U \in SUBSET Nat /\ U # {}
  BY <1>0
<1>2. PICK u \in U : \A v \in U : u <= v
  <2> HIDE DEF U
  <2> QED
    BY <1>1, LeastElement
<1>3. PICK x \in T : u = k - x
  OBVIOUS
<1>4. \A y \in T : u <= k - y
  BY <1>2
<1>5. \A y \in T : y \in Int
  OBVIOUS
<1> HIDE DEF U
<1>6. \A y \in T : y <= x
  BY <1>3, <1>4, <1>5
<1>7. QED
  BY <1>6

LEMMA EventStatusKept ==
    ASSUME log' = log, NEW n \in Node
    PROVE  EventStatus(n)' = EventStatus(n)
BY DEF EventStatus

LEMMA EventStatusGrows ==
    ASSUME log \in Seq(Events), NEW e, log' = Append(log, e), NEW n \in Node
    PROVE  EventStatus(n)' = IF e.nodes = {n} THEN e.status ELSE EventStatus(n)
<1> DEFINE About == {i \in DOMAIN log : log[i].nodes = {n}}
           AboutNext == {i \in DOMAIN log' : log'[i].nodes = {n}}
<1>1. /\ Len(log) \in Nat
      /\ DOMAIN log = 1 .. Len(log)
      /\ DOMAIN log' = 1 .. Len(log) + 1
      /\ \A i \in 1 .. Len(log) : log'[i] = log[i]
      /\ log'[Len(log) + 1] = e
  BY LenProperties
<1>2. About \subseteq 1 .. Len(log)
  BY <1>1
<1>3. CASE e.nodes = {n}
  <2>1. Len(log) + 1 \in AboutNext /\ \A j \in AboutNext : j <= Len(log) + 1
    BY <1>1, <1>3
  <2>2. \A i \in AboutNext : (\A j \in AboutNext : j <= i) => i = Len(log) + 1
    BY <1>1, <2>1
  <2>3. (CHOOSE i \in AboutNext : \A j \in AboutNext : j <= i) = Len(log) + 1
    BY <2>1, <2>2
  <2>4. AboutNext # {}
    BY <2>1
  <2> HIDE DEF AboutNext
  <2>5. EventStatus(n)' = log'[CHOOSE i \in AboutNext : \A j \in AboutNext : j <= i].status
    BY <2>4 DEF EventStatus, AboutNext
  <2>6. QED
    BY <1>1, <1>3, <2>3, <2>5
<1>4. CASE e.nodes # {n}
  <2>1. AboutNext = About
    BY <1>1, <1>4
  <2>2. CASE About = {}
    BY <1>4, <2>1, <2>2, Zenon DEF EventStatus
  <2>3. CASE About # {}
    <3>1. PICK last : last = CHOOSE i \in About : \A j \in About : j <= i
      OBVIOUS
    <3>2. About \subseteq Nat /\ \A j \in About : j <= Len(log)
      BY <1>1
    <3>3. \E i \in About : \A j \in About : j <= i
      BY <1>1, <1>2, <2>3, GreatestElement
    <3>4. last \in About
      BY <3>1, <3>3
    <3>5. log'[last] = log[last]
      BY <1>1, <1>2, <3>4
    <3> HIDE DEF About, AboutNext
    <3>6. EventStatus(n) = log[last].status
      BY <2>3, <3>1 DEF EventStatus, About
    <3>7. AboutNext # {} /\ last = CHOOSE i \in AboutNext : \A j \in AboutNext : j <= i
      BY <2>1, <2>3, <3>1
    <3>8. EventStatus(n)' = log'[last].status
      BY <3>7 DEF EventStatus, AboutNext
    <3>9. QED
      BY <1>4, <3>5, <3>6, <3>8
  <2>4. QED
    BY <2>2, <2>3
<1>5. QED
  BY <1>3, <1>4

LEMMA HeadIsFirst ==
    ASSUME NEW S, NEW s \in Seq(S), s # <<>>
    PROVE  Head(s) = s[1] /\ Len(s) \in Nat /\ 1 \in 1 .. Len(s)
BY HeadTailProperties, EmptySeq, LenProperties

\* Once the first effect is done with, no event about a node is waiting.
LEMMA NoNodeWaits ==
    ASSUME TaskTypeOK, TaskTypeOK', TodoInv, todo # <<>>, todo' = Tail(todo), NEW n
    PROVE  ~(Pending("publish") /\ Head(todo).nodes = {n})'
<1>1. SUFFICES ASSUME todo' # <<>>, Head(todo').op = "publish", Head(todo').nodes = {n}
               PROVE  FALSE
  BY DEF Pending
<1>2. Head(todo') = todo'[1] /\ Len(todo') \in Nat /\ 1 \in 1 .. Len(todo')
  BY <1>1, HeadIsFirst DEF TaskTypeOK
<1>3. /\ Len(todo') = Len(todo) - 1
      /\ \A i \in 1 .. Len(todo') : todo'[i] = todo[i + 1]
      /\ Len(todo) \in Nat
  BY EffectsShift
<1>4. todo'[1] = todo[2] /\ 2 \in 2 .. Len(todo)
  BY <1>2, <1>3
<1>5. todo[2].op = "publish" => todo[2].nodes = {}
  BY <1>4 DEF TodoInv
<1>6. QED
  BY <1>1, <1>2, <1>4, <1>5

\* What the events say of a node, the waiting one included, is what the runner
\* has come to.
LEMMA StepKeepsEvents ==
    ASSUME TypeInv, TypeInv', ServiceTypeOK, ServiceTypeOK', NothingBeforeTheRun,
           RunnerKeeps, RunnerKeeps', TodoInv, EventInv, [ServiceNext]_serviceVars
    PROVE  EventInv'
<1>0. /\ TaskTypeOK
      /\ TaskTypeOK'
      /\ phase \in [Node -> NodePhases]
      /\ traceNodes \in [Node -> Statuses]
      /\ log \in Seq(Events)
  BY DEF ServiceTypeOK, TaskTypeOK, BusTypeOK, TypeInv, TypeOK
<1>1. SUFFICES ASSUME service' # "crashed", NEW n \in Node
               PROVE  IF Pending("publish")' /\ Head(todo').nodes = {n}
                        THEN Head(todo').status = PhaseStatus[phase'[n]]
                        ELSE EventStatus(n)' = PhaseStatus[phase'[n]]
  BY DEF EventInv, PhaseStatus
<1>2. CASE QueueingStep
  <2>1. /\ TellsTheStep
        /\ todo = <<>>
        /\ service # "crashed"
        /\ log' = log
    BY <1>0, <1>2, StepQueues DEF busVars
  <2>2. PICK r : Queued(todo', r, service')
    BY <1>0, <1>2, StepQueues, Zenon
  <2>3. EventStatus(n)' = PhaseStatus[phase[n]]
    BY <2>1, EventStatusKept DEF EventInv, Pending
  <2>4. todo' # <<>> /\ Head(todo') = todo'[1]
    <3>1. Len(todo') \in Nat /\ todo' \in Seq(Effects)
      BY <1>0, LenProperties DEF TaskTypeOK
    <3>2. todo' # <<>>
      BY <2>2, <3>1, EmptySeq DEF Queued
    <3>3. QED
      BY <3>1, <3>2, HeadIsFirst
  <2>5. CASE /\ phase' = phase
             /\ todo'[1].op = "publish" => todo'[1].nodes = {}
    BY <2>3, <2>4, <2>5 DEF Pending
  <2>6. ASSUME NEW s \in {"RUNNING", "SUCCESS", "FAILED"},
               phase' = [phase EXCEPT ![Current] = s],
               todo'[1].op = "publish",
               todo'[1].nodes = {Current},
               todo'[1].status = PhaseStatus[s]
        PROVE  IF Pending("publish")' /\ Head(todo').nodes = {n}
                 THEN Head(todo').status = PhaseStatus[phase'[n]]
                 ELSE EventStatus(n)' = PhaseStatus[phase'[n]]
    <3>1. CASE n = Current
      <4>1. phase'[n] = s
        BY <1>0, <2>6, <3>1
      <4>2. QED
        BY <2>4, <2>6, <3>1, <4>1 DEF Pending
    <3>2. CASE n # Current
      <4>1. phase'[n] = phase[n]
        BY <1>0, <2>6, <3>2
      <4>2. Head(todo').nodes # {n}
        BY <2>4, <2>6, <3>2
      <4>3. QED
        BY <2>3, <4>1, <4>2
    <3>3. QED
      BY <3>1, <3>2
  <2>7. QED
    BY <2>1, <2>5, <2>6 DEF TellsTheStep
<1>3. CASE QuietStep \/ OtherTask \/ PoolThread
  <2>1. UNCHANGED <<log, todo, service, phase>>
    BY <1>3 DEF QuietStep, Sort, StartRun, OtherTask, PoolThread, busVars, vars, runVars
  <2>2. EventStatus(n)' = EventStatus(n)
    BY <2>1, EventStatusKept
  <2>3. QED
    BY <1>1, <2>1, <2>2 DEF EventInv, Pending
<1>4. CASE PublishNext
  <2>1. /\ todo # <<>>
        /\ todo' = Tail(todo)
        /\ Head(todo).op = "publish"
        /\ log' = Append(log, Event(Head(todo).type, Head(todo).nodes, Head(todo).status))
        /\ service' = service
        /\ phase' = phase
    BY <1>4 DEF PublishNext, Pending, Publish, vars, runVars
  <2>2. ~(Pending("publish")' /\ Head(todo').nodes = {n})
    BY <1>0, <2>1, NoNodeWaits
  <2>3. PICK e : e = Event(Head(todo).type, Head(todo).nodes, Head(todo).status)
    OBVIOUS
  <2>e. e.nodes = Head(todo).nodes /\ e.status = Head(todo).status
    BY <2>3 DEF Event
  <2>4. EventStatus(n)' = IF e.nodes = {n} THEN e.status ELSE EventStatus(n)
    BY <1>0, <2>1, <2>3, EventStatusGrows
  <2>5. IF Head(todo).nodes = {n}
          THEN Head(todo).status = PhaseStatus[phase[n]]
          ELSE EventStatus(n) = PhaseStatus[phase[n]]
    BY <1>1, <2>1 DEF EventInv, Pending
  <2>6. QED
    BY <2>1, <2>2, <2>e, <2>4, <2>5
<1>5. CASE BeginSave \/ EndSave \/ FailSave
  <2>1. /\ todo # <<>>
        /\ Head(todo).op \in {"save", "write"}
        /\ UNCHANGED <<log, service, phase>>
    BY <1>5 DEF BeginSave, EndSave, FailSave, Pending, busVars, vars, runVars
  <2>2. EventStatus(n)' = PhaseStatus[phase'[n]]
    BY <1>1, <2>1, EventStatusKept DEF EventInv, Pending
  <2>3. ~(Pending("publish")' /\ Head(todo').nodes = {n})
    <3>1. CASE EndSave \/ FailSave
      <4>1. todo' = Tail(todo)
        BY <3>1 DEF EndSave, FailSave
      <4>2. QED
        BY <1>0, <2>1, <4>1, NoNodeWaits
    <3>2. CASE BeginSave
      <4>1. todo' = << [Head(todo) EXCEPT !.op = "write"] >> \o Tail(todo)
            /\ Head(todo).op = "save"
        BY <3>2 DEF BeginSave, Pending
      <4>2. /\ Len(todo) \in Nat \ {0}
            /\ Len(todo') = Len(todo)
            /\ todo'[1] = [todo[1] EXCEPT !.op = "write"]
            /\ Head(todo) = todo[1]
        BY <1>0, <2>1, <4>1, SaveOpens
      <4>3. todo[1] \in Effects
        BY <1>0, <4>2, ElementOfSeq DEF TaskTypeOK
      <4>4. todo'[1].op = "write"
        BY <4>1, <4>2, <4>3, WriteKeepsRecord
      <4>5. todo' # <<>> => Head(todo') = todo'[1]
        BY <1>0, HeadIsFirst DEF TaskTypeOK
      <4>6. QED
        BY <4>4, <4>5 DEF Pending
    <3>3. QED
      BY <1>5, <3>1, <3>2
  <2>4. QED
    BY <2>2, <2>3
<1>6. CASE Crash
  BY <1>1, <1>6 DEF Crash
<1>7. QED
  BY <1>2, <1>3, <1>4, <1>5, <1>6, StepKinds

-----------------------------------------------------------------------------
\* The last record.

\* A record that, after the step, is the result of a run that is over and shows
\* a run that is suspended.
ConcludesNext(r) ==
    /\ r \in Records
    /\ service' = "ended" =>
         /\ ~r.running
         /\ r.success <=> outcome' = "success"
         /\ outcome' \in {"success", "failed"} =>
              r.results = results' /\ r.failed = failedNode'
    /\ (service' = "running" => step' = "await") =>
         \A n \in Node : SnapshotStatus(r, n) = PhaseStatus[phase'[n]]

LEMMA ConcludesThen ==
    ASSUME NEW r, ConcludesNext(r), r \in LastRecord'
    PROVE  LastSaveInv'
<1>1. \A s : ConcludesNext(s) => Concludes(s)'
  BY DEF ConcludesNext, Concludes, IsResult, SnapshotStatus
<1>2. QED
  BY <1>1 DEF LastSaveInv, Concludes, ConcludesNext, IsResult, SnapshotStatus

LEMMA LastRecordCases ==
    ASSUME NEW r
    PROVE  /\ r \in LastRecord <=>
                \/ \E i \in 1 .. Len(todo) : IsLastSave(i) /\ r = todo[i].record
                \/ (\A j \in 1 .. Len(todo) : todo[j].op = "publish") /\ r = file
           /\ r \in LastRecord' <=>
                \/ \E i \in 1 .. Len(todo') : IsLastSave(i)' /\ r = todo'[i].record
                \/ (\A j \in 1 .. Len(todo') : todo'[j].op = "publish") /\ r = file'
BY DEF LastRecord

\* The last record stays the last one while the effects are carried out.
LEMMA LastAfterShift ==
    ASSUME TaskTypeOK, todo # <<>>, todo' = Tail(todo), NEW r \in LastRecord,
           \/ Head(todo).op = "publish" /\ file' = file
           \/ Head(todo).op = "write" /\ file' = Head(todo).record
    PROVE  r \in LastRecord'
<1>1. /\ Len(todo) \in Nat \ {0}
      /\ Len(todo') = Len(todo) - 1
      /\ \A i \in 1 .. Len(todo') : todo'[i] = todo[i + 1]
      /\ Head(todo) = todo[1]
  BY EffectsShift
<1>2. 1 \in 1 .. Len(todo)
  BY <1>1
<1>3. CASE (\A j \in 1 .. Len(todo) : todo[j].op = "publish") /\ r = file
  <2>1. \A j \in 1 .. Len(todo') : j + 1 \in 1 .. Len(todo)
    BY <1>1
  <2>2. \A j \in 1 .. Len(todo') : todo'[j].op = "publish"
    BY <1>1, <1>3, <2>1
  <2>3. file' = file
    BY <1>1, <1>2, <1>3
  <2>4. QED
    BY <1>3, <2>2, <2>3, LastRecordCases
<1>4. ASSUME NEW i \in 1 .. Len(todo), IsLastSave(i), r = todo[i].record, i # 1
      PROVE  r \in LastRecord'
  <2>1. PICK k \in 1 .. Len(todo') : k + 1 = i
    <3>1. i - 1 \in 1 .. Len(todo') /\ (i - 1) + 1 = i
      BY <1>1, <1>4
    <3>2. QED
      BY <3>1
  <2>2. todo'[k] = todo[i]
    BY <1>1, <2>1
  <2>3. \A j \in k + 1 .. Len(todo') : j \in 1 .. Len(todo') /\ j + 1 \in i + 1 .. Len(todo)
    BY <1>1, <2>1
  <2>4. \A j \in k + 1 .. Len(todo') : todo'[j].op = "publish"
    BY <1>1, <1>4, <2>3 DEF IsLastSave
  <2>5. IsLastSave(k)'
    BY <1>4, <2>2, <2>4 DEF IsLastSave
  <2>6. QED
    BY <1>4, <2>2, <2>5, LastRecordCases
<1>5. CASE IsLastSave(1) /\ r = todo[1].record
  <2>1. file' = r
    BY <1>1, <1>5 DEF IsLastSave
  <2>2. \A j \in 1 .. Len(todo') : j + 1 \in 1 + 1 .. Len(todo)
    BY <1>1
  <2>3. \A j \in 1 .. Len(todo') : todo'[j].op = "publish"
    BY <1>1, <1>5, <2>2 DEF IsLastSave
  <2>4. QED
    BY <2>1, <2>3, LastRecordCases
<1>6. \/ \E i \in 1 .. Len(todo) : IsLastSave(i) /\ r = todo[i].record
      \/ (\A j \in 1 .. Len(todo) : todo[j].op = "publish") /\ r = file
  BY LastRecordCases
<1>7. QED
  BY <1>3, <1>4, <1>5, <1>6

LEMMA LastAfterOpening ==
    ASSUME TaskTypeOK, TaskTypeOK', todo # <<>>, Head(todo).op = "save",
           todo' = << [Head(todo) EXCEPT !.op = "write"] >> \o Tail(todo),
           NEW r \in LastRecord
    PROVE  r \in LastRecord'
<1>1. /\ Len(todo) \in Nat \ {0}
      /\ Len(todo') = Len(todo)
      /\ todo'[1] = [todo[1] EXCEPT !.op = "write"]
      /\ \A i \in 2 .. Len(todo) : todo'[i] = todo[i]
      /\ Head(todo) = todo[1]
  BY SaveOpens
<1>2. 1 \in 1 .. Len(todo) /\ todo[1] \in Effects /\ todo[1].op = "save"
  BY <1>1, ElementOfSeq DEF TaskTypeOK
<1>3. todo'[1].op = "write" /\ todo'[1].record = todo[1].record
  BY <1>1, <1>2, WriteKeepsRecord
<1>4. PICK i \in 1 .. Len(todo) : IsLastSave(i) /\ r = todo[i].record
  BY <1>2, LastRecordCases
<1>5. \A j \in i + 1 .. Len(todo) : j \in 2 .. Len(todo)
  BY <1>1
<1>6. \A j \in i + 1 .. Len(todo') : todo'[j].op = "publish"
  BY <1>1, <1>4, <1>5 DEF IsLastSave
<1>7. todo'[i].op # "publish" /\ todo'[i].record = r
  <2>1. CASE i = 1
    BY <1>3, <1>4, <2>1
  <2>2. CASE i # 1
    <3>1. i \in 2 .. Len(todo)
      BY <1>1, <2>2
    <3>2. QED
      BY <1>1, <1>4, <3>1 DEF IsLastSave
  <2>3. QED
    BY <2>1, <2>2
<1>8. IsLastSave(i)' /\ i \in 1 .. Len(todo')
  BY <1>1, <1>6, <1>7 DEF IsLastSave
<1>9. QED
  BY <1>7, <1>8, LastRecordCases

\* The last record a step queues shows every node as the runner has it.
LEMMA SaysItAll ==
    ASSUME TypeInv', TraceInv', RunnerKeeps', TaskTypeOK',
           NEW r, SaysTheState(r)
    PROVE  ConcludesNext(r)
<1>1. ASSUME NEW n \in Node, service' = "running" => step' = "await"
      PROVE  SnapshotStatus(r, n) = PhaseStatus[phase'[n]]
  <2>0. /\ phase'[n] \in NodePhases
        /\ phase'[n] \in {"RUNNING", "SUCCESS", "FAILED"} => PhaseStatus[phase'[n]] # "none"
        /\ PhaseStatus["FAILED"] = "error"
        /\ PhaseStatus["RUNNING"] = "running"
        /\ PhaseStatus["ABSENT"] = "pending"
    BY DEF TypeInv, TypeOK, PhaseStatus
  <2>1. r.nodes[n] = IF phase'[n] = "ABSENT" THEN "none" ELSE PhaseStatus[phase'[n]]
    BY DEF SaysTheState, TraceInv
  <2>2. CASE n \in r.failed
    <3>1. phase'[n] = "FAILED"
      BY <2>2 DEF SaysTheState
    <3>2. QED
      BY <2>0, <2>2, <3>1 DEF SnapshotStatus
  <2>3. CASE n \notin r.failed /\ r.running /\ n \in r.current
    <3>1. phase'[n] = "RUNNING"
      BY <1>1, <2>3 DEF SaysTheState
    <3>2. QED
      BY <2>0, <2>3, <3>1 DEF SnapshotStatus
  <2>4. CASE n \notin r.failed /\ ~(r.running /\ n \in r.current)
    <3>1. CASE phase'[n] # "ABSENT"
      <4>1. r.nodes[n] = PhaseStatus[phase'[n]] /\ r.nodes[n] # "none"
        BY <2>0, <2>1, <3>1 DEF NodePhases
      <4>2. QED
        BY <2>4, <4>1 DEF SnapshotStatus
    <3>2. CASE phase'[n] = "ABSENT"
      <4>1. r.nodes[n] = "none"
        BY <2>1, <3>2
      <4>2. results'[n] = "none"
        BY <3>2 DEF RunnerKeeps
      <4>3. r.results[n] = "none"
        BY <4>2 DEF SaysTheState
      <4>4. QED
        BY <2>0, <2>4, <3>2, <4>1, <4>3 DEF SnapshotStatus
    <3>3. QED
      BY <3>1, <3>2
  <2>5. QED
    BY <2>2, <2>3, <2>4
<1>2. QED
  BY <1>1 DEF SaysTheState, ConcludesNext

LEMMA ConcludesStays ==
    ASSUME UNCHANGED <<vars, service>>, NEW r, Concludes(r)
    PROVE  ConcludesNext(r)
<1>1. UNCHANGED <<phase, step, outcome, results, failedNode, service>>
  BY DEF vars, runVars
<1>2. QED
  BY <1>1 DEF Concludes, ConcludesNext, IsResult

LEMMA StepKeepsLastSave ==
    ASSUME TypeInv, TypeInv', ServiceTypeOK, ServiceTypeOK', NothingBeforeTheRun,
           RunnerKeeps, RunnerKeeps', TodoInv, TraceInv', LastSaveInv,
           [ServiceNext]_serviceVars
    PROVE  LastSaveInv'
<1>0. TaskTypeOK /\ TaskTypeOK' /\ lost \in Nat /\ deletes \in Nat
  BY StoreAssumption DEF ServiceTypeOK, StoreTypeOK
<1>1. CASE QueueingStep
  <2>1. PICK r : SaysTheState(r) /\ Queued(todo', r, service')
    BY <1>0, <1>1, StepQueues, Zenon
  <2>2. ConcludesNext(r)
    BY <1>0, <2>1, SaysItAll
  <2>3. PICK i \in 1 .. Len(todo') :
           /\ todo'[i].op = "save"
           /\ todo'[i].record = r
           /\ \A j \in i + 1 .. Len(todo') : todo'[j].op = "publish"
    BY <2>1 DEF Queued
  <2>4. IsLastSave(i)'
    BY <2>3 DEF IsLastSave
  <2>5. r \in LastRecord'
    BY <2>3, <2>4, LastRecordCases
  <2>6. QED
    BY <2>2, <2>5, ConcludesThen
<1>2. SUFFICES ASSUME ~QueueingStep, Undisturbed', service' \in {"running", "ended"}
               PROVE  LastSaveInv'
  BY <1>1 DEF LastSaveInv
<1>3. CASE QuietStep
  <2>1. /\ service = "running" /\ service' = "running"
        /\ UNCHANGED <<todo, file, lost, deletes, phase>>
        /\ step' = "await" => step = "await"
    BY <1>3 DEF QuietStep, Running, Sort, StartRun, storeVars, runVars
  <2>2. Undisturbed
    BY <1>2, <2>1 DEF Undisturbed
  <2>3. PICK r \in LastRecord : Concludes(r)
    BY <2>1, <2>2 DEF LastSaveInv
  <2>4. r \in LastRecord'
    BY <2>1, <2>3, LastRecordCases DEF IsLastSave
  <2>5. ConcludesNext(r)
    BY <2>1, <2>3 DEF Concludes, ConcludesNext
  <2>6. QED
    BY <2>4, <2>5, ConcludesThen
<1>4. CASE PublishNext \/ BeginSave \/ EndSave \/ FailSave
  <2>1. UNCHANGED <<vars, service>> /\ todo # <<>>
    BY <1>4 DEF PublishNext, BeginSave, EndSave, FailSave, Pending
  <2>2. ~FailSave /\ Undisturbed
    <3>1. (lost' = lost + 1 /\ deletes' = deletes) \/ UNCHANGED <<lost, deletes>>
      BY <1>4 DEF PublishNext, BeginSave, EndSave, FailSave, OpenRecord, WriteRecord,
         LoseSave, storeVars
    <3>2. FailSave => lost' = lost + 1
      BY DEF FailSave, LoseSave
    <3>3. QED
      BY <1>0, <1>2, <3>1, <3>2 DEF Undisturbed
  <2>3. PICK r \in LastRecord : Concludes(r)
    BY <1>2, <2>1, <2>2 DEF LastSaveInv
  <2>4. ConcludesNext(r)
    BY <2>1, <2>3, ConcludesStays
  <2>5. CASE BeginSave
    <3>1. /\ Head(todo).op = "save"
          /\ todo' = << [Head(todo) EXCEPT !.op = "write"] >> \o Tail(todo)
      BY <2>5 DEF BeginSave, Pending
    <3>2. r \in LastRecord'
      BY <1>0, <2>1, <3>1, LastAfterOpening
    <3>3. QED
      BY <2>4, <3>2, ConcludesThen
  <2>6. CASE PublishNext \/ EndSave
    <3>1. todo' = Tail(todo)
      BY <2>6 DEF PublishNext, EndSave
    <3>2. \/ Head(todo).op = "publish" /\ file' = file
          \/ Head(todo).op = "write" /\ file' = Head(todo).record
      <4>1. CASE PublishNext
        BY <4>1 DEF PublishNext, Pending, storeVars
      <4>2. CASE EndSave
        <5>1. file # NoFile
          BY <2>2, <4>2 DEF TodoInv, EndSave
        <5>2. QED
          BY <4>2, <5>1 DEF EndSave, Pending, WriteRecord
      <4>3. QED
        BY <2>6, <4>1, <4>2
    <3>3. r \in LastRecord'
      BY <1>0, <2>1, <3>1, <3>2, LastAfterShift
    <3>4. QED
      BY <2>4, <3>3, ConcludesThen
  <2>7. QED
    BY <1>4, <2>2, <2>5, <2>6
<1>5. CASE OtherTask \/ PoolThread
  <2>1. UNCHANGED <<vars, service, todo>>
    BY <1>5 DEF OtherTask, PoolThread
  <2>2. UNCHANGED <<file, lost, deletes>>
    <3>1. UNCHANGED <<file, lost, deletes>> \/ deletes' = deletes + 1
      BY <1>5 DEF OtherTask, PoolThread, ReadRecord, DeleteRecord, storeVars
    <3>2. QED
      BY <1>0, <1>2, <3>1 DEF Undisturbed
  <2>3. PICK r \in LastRecord : Concludes(r)
    BY <1>2, <2>1, <2>2 DEF LastSaveInv, Undisturbed
  <2>4. ConcludesNext(r)
    BY <2>1, <2>3, ConcludesStays
  <2>5. r \in LastRecord'
    BY <2>1, <2>2, <2>3, LastRecordCases DEF IsLastSave
  <2>6. QED
    BY <2>4, <2>5, ConcludesThen
<1>6. CASE Crash
  BY <1>2, <1>6 DEF Crash
<1>7. QED
  BY <1>2, <1>3, <1>4, <1>5, <1>6, StepKinds

-----------------------------------------------------------------------------
\* What a reader of the record is shown.

LEMMA VerdictIsFinal ==
    ASSUME RunnerKeeps, [Next]_vars, outcome # "none"
    PROVE  outcome' = outcome
<1>1. step = "returned"
  BY DEF RunnerKeeps
<1>2. QED
  BY <1>1 DEF Next, Advance, Sort, NodeReturns, RaiseRejected, StartRun, RejectNodeType,
     StartNode, FinishRun, NodeSucceeds, NodeReportsFailure, NodeRaises, Cancel,
     vars, runVars

LEMMA HaveGrows ==
    ASSUME TypeInv, [Next]_vars
    PROVE  Have \subseteq Have'
<1>1. results \in [Node -> {"none", "ok", "bad"}]
  BY DEF TypeInv, TypeOK
<1>2. \/ results' = results
      \/ results' = [results EXCEPT ![Current] = "ok"]
      \/ results' = [results EXCEPT ![Current] = "bad"]
  BY DEF Next, Advance, Sort, NodeReturns, RaiseRejected, StartRun, RejectNodeType,
     StartNode, FinishRun, NodeSucceeds, NodeReportsFailure, NodeRaises, Cancel,
     vars, runVars
<1>3. \A n \in Node : results[n] # "none" => results'[n] # "none"
  BY <1>1, <1>2
<1>4. QED
  BY <1>3 DEF Have

LEMMA StepKeepsGrow ==
    ASSUME TypeInv, TypeInv', ServiceTypeOK, ServiceTypeOK', NothingBeforeTheRun,
           RunnerKeeps, RunnerKeeps', GrowInv, [ServiceNext]_serviceVars
    PROVE  GrowInv'
<1>0. TaskTypeOK /\ TaskTypeOK' /\ Have \subseteq Have'
  BY ServiceStepIsRunnerStep, HaveGrows DEF ServiceTypeOK
<1>1. SUFFICES ASSUME outcome' # "cancelled"
               PROVE  /\ reader'.shown \subseteq Have'
                      /\ \A i \in 1 .. Len(todo') : todo'[i].op # "publish" =>
                           WithResult(todo'[i].record) = Have'
                      /\ Loads' => /\ reader'.shown \subseteq WithResult(file')
                                   /\ WithResult(file') \subseteq Have'
  BY DEF GrowInv, WithResult
<1>2. /\ reader.shown \subseteq Have
      /\ \A i \in 1 .. Len(todo) : todo[i].op # "publish" =>
           WithResult(todo[i].record) = Have
      /\ Loads => reader.shown \subseteq WithResult(file) /\ WithResult(file) \subseteq Have
  BY <1>1, ServiceStepIsRunnerStep, VerdictIsFinal DEF GrowInv
<1>3. CASE QueueingStep
  <2>1. PICK r : SaysTheState(r) /\ Queued(todo', r, service')
    BY <1>0, <1>3, StepQueues, Zenon
  <2>2. UNCHANGED <<file, reader>>
    BY <1>0, <1>3, StepQueues DEF storeVars
  <2>3. WithResult(r) = Have'
    BY <1>1, <2>1 DEF SaysTheState, WithResult, Have
  <2>4. \A i \in 1 .. Len(todo') : todo'[i].op # "publish" =>
           todo'[i].record.results = r.results
    BY <2>1 DEF Queued
  <2>5. \A i \in 1 .. Len(todo') : todo'[i].op # "publish" =>
           WithResult(todo'[i].record) = Have'
    BY <2>3, <2>4 DEF WithResult
  <2>6. QED
    BY <1>0, <1>2, <2>2, <2>5 DEF Loads
<1>4. CASE QuietStep \/ OtherTask \/ PoolThread \/ Crash
  <2>1. results' = results /\ (todo' = todo \/ todo' = <<>>)
    BY <1>4 DEF QuietStep, Sort, StartRun, OtherTask, PoolThread, Crash, vars, runVars
  <2>2. Have' = Have
    BY <2>1 DEF Have
  <2>3. \/ UNCHANGED <<file, reader>>
        \/ file' = NoFile /\ reader' = reader
        \/ file' = file /\ reader' = IF Loads THEN [answer |-> "found", shown |-> WithResult(file)]
                                             ELSE [reader EXCEPT !.answer = "404"]
    BY <1>4 DEF QuietStep, OtherTask, PoolThread, Crash, ReadRecord, DeleteRecord, storeVars
  <2>4. \/ UNCHANGED <<file>> /\ reader'.shown = reader.shown
        \/ file' = NoFile /\ reader'.shown = reader.shown
        \/ file' = file /\ Loads /\ reader'.shown = WithResult(file)
    BY <2>3 DEF ServiceTypeOK, StoreTypeOK
  <2>5. \A i \in 1 .. Len(todo') : todo'[i].op # "publish" =>
           WithResult(todo'[i].record) = Have'
    BY <1>2, <2>1, <2>2
  <2>6. QED
    BY <1>2, <2>2, <2>4, <2>5 DEF Loads, NoFile
<1>5. CASE PublishNext \/ EndSave \/ FailSave
  <2>1. /\ todo # <<>>
        /\ todo' = Tail(todo)
        /\ results' = results
        /\ reader' = reader
    BY <1>5 DEF PublishNext, EndSave, FailSave, WriteRecord, LoseSave, Pending, storeVars,
       vars, runVars
  <2>2. Have' = Have
    BY <2>1 DEF Have
  <2>3. /\ Len(todo) \in Nat \ {0}
        /\ Len(todo') = Len(todo) - 1
        /\ \A i \in 1 .. Len(todo') : todo'[i] = todo[i + 1]
        /\ Head(todo) = todo[1]
    BY <1>0, <2>1, EffectsShift
  <2>4. \A i \in 1 .. Len(todo') : i + 1 \in 1 .. Len(todo)
    BY <2>3
  <2>5. \A i \in 1 .. Len(todo') : todo'[i].op # "publish" =>
           WithResult(todo'[i].record) = Have'
    BY <1>2, <2>2, <2>3, <2>4
  <2>6. file' = file \/ file' = NoFile \/ WithResult(file') = Have
    <3>1. CASE EndSave
      <4>1. todo[1].op = "write" /\ 1 \in 1 .. Len(todo)
        BY <2>3, <3>1 DEF EndSave, Pending
      <4>2. WithResult(todo[1].record) = Have
        BY <1>2, <4>1
      <4>3. file' = NoFile \/ file' = todo[1].record
        BY <2>3, <3>1 DEF EndSave, WriteRecord
      <4>4. QED
        BY <4>2, <4>3
    <3>2. CASE PublishNext \/ FailSave
      BY <3>2 DEF PublishNext, FailSave, LoseSave, storeVars
    <3>3. QED
      BY <1>5, <3>1, <3>2
  <2>7. QED
    BY <1>2, <2>1, <2>2, <2>5, <2>6 DEF Loads, NoFile
<1>6. CASE BeginSave
  <2>1. /\ todo # <<>>
        /\ Head(todo).op = "save"
        /\ todo' = << [Head(todo) EXCEPT !.op = "write"] >> \o Tail(todo)
        /\ results' = results
        /\ reader' = reader
        /\ ~Loads'
    BY <1>6 DEF BeginSave, OpenRecord, Pending, vars, runVars, Loads, TornFile
  <2>2. Have' = Have
    BY <2>1 DEF Have
  <2>3. /\ Len(todo) \in Nat \ {0}
        /\ Len(todo') = Len(todo)
        /\ todo'[1] = [todo[1] EXCEPT !.op = "write"]
        /\ \A i \in 2 .. Len(todo) : todo'[i] = todo[i]
        /\ Head(todo) = todo[1]
    BY <1>0, <2>1, SaveOpens
  <2>4. 1 \in 1 .. Len(todo) /\ todo[1] \in Effects /\ todo[1].op = "save"
    BY <1>0, <2>1, <2>3, ElementOfSeq DEF TaskTypeOK
  <2>5. todo'[1].record = todo[1].record
    BY <2>3, <2>4, WriteKeepsRecord
  <2>6. WithResult(todo'[1].record) = Have
    BY <1>2, <2>4, <2>5
  <2>7. \A i \in 1 .. Len(todo') : i = 1 \/ i \in 2 .. Len(todo)
    BY <2>3
  <2>8. \A i \in 2 .. Len(todo) : i \in 1 .. Len(todo)
    OBVIOUS
  <2>9. \A i \in 1 .. Len(todo') : todo'[i].op # "publish" =>
           WithResult(todo'[i].record) = Have'
    <3> SUFFICES ASSUME NEW i \in 1 .. Len(todo'), todo'[i].op # "publish"
                 PROVE  WithResult(todo'[i].record) = Have
      BY <2>2
    <3>1. CASE i = 1
      BY <2>6, <3>1
    <3>2. CASE i \in 2 .. Len(todo)
      <4>1. todo'[i] = todo[i] /\ i \in 1 .. Len(todo)
        BY <2>3, <2>8, <3>2
      <4>2. QED
        BY <1>2, <4>1
    <3>3. QED
      BY <2>7, <3>1, <3>2
  <2>10. QED
    BY <1>2, <2>1, <2>2, <2>9
<1>7. QED
  BY <1>3, <1>4, <1>5, <1>6, StepKinds

-----------------------------------------------------------------------------
\* The invariants together, and what follows from them.

FinalInv ==
    /\ NothingBeforeTheRun
    /\ RunEndInv
    /\ TodoInv
    /\ TraceInv
    /\ EventInv
    /\ LastSaveInv
    /\ GrowInv

LEMMA FinalInvHolds == ServiceSpec => []FinalInv
<1>1. ServiceInit => FinalInv
  <2> SUFFICES ASSUME ServiceInit
               PROVE  FinalInv
    OBVIOUS
  <2>1. /\ todo = <<>> /\ log = <<>> /\ service = "adapters" /\ file = NoFile
        /\ step = "idle" /\ reader.shown = {}
        /\ phase = [n \in Node |-> "ABSENT"]
        /\ traceNodes = [n \in Node |-> "none"]
    BY DEF ServiceInit, Init, RunnerInit, StoreInit, BusInit
  <2>2. \A i \in 1 .. Len(todo) : FALSE
    BY <2>1
  <2>3. DOMAIN log = {} /\ \A i \in 2 .. Len(todo) : FALSE
    BY <2>1
  <2>4. NothingBeforeTheRun /\ RunEndInv /\ TodoInv
    BY <2>1, <2>2, <2>3 DEF NothingBeforeTheRun, RunEndInv, TodoInv, Pending
  <2>5. TraceInv
    BY <2>1 DEF TraceInv
  <2>6. EventInv
    BY <2>1, <2>3 DEF EventInv, EventStatus, Pending, PhaseStatus
  <2>7. LastSaveInv
    BY <2>1 DEF LastSaveInv
  <2>8. GrowInv
    BY <2>1, <2>2 DEF GrowInv, Loads, NoFile
  <2>9. QED
    BY <2>4, <2>5, <2>6, <2>7, <2>8 DEF FinalInv
<1>2. /\ TypeInv /\ TypeInv' /\ ServiceTypeOK /\ ServiceTypeOK'
      /\ RunnerKeeps /\ RunnerKeeps' /\ FinalInv /\ [ServiceNext]_serviceVars
      => FinalInv'
  <2> SUFFICES ASSUME TypeInv, TypeInv', ServiceTypeOK, ServiceTypeOK',
                      RunnerKeeps, RunnerKeeps', FinalInv, [ServiceNext]_serviceVars
               PROVE  FinalInv'
    OBVIOUS
  <2>0. NothingBeforeTheRun /\ RunEndInv /\ TodoInv /\ TraceInv /\ EventInv
        /\ LastSaveInv /\ GrowInv
    BY DEF FinalInv
  <2>1. NothingBeforeTheRun'
    <3>1. CASE UNCHANGED serviceVars
      BY <2>0, <3>1 DEF NothingBeforeTheRun, serviceVars, vars, runVars, storeVars
    <3>2. CASE ServiceNext
      BY <2>0, <3>2, StepKeepsNothingBefore
    <3>3. QED
      BY <3>1, <3>2
  <2>2. RunEndInv'
    BY <2>0, StepKeepsRunEnd
  <2>3. TodoInv'
    BY <2>0, StepKeepsTodo
  <2>4. TraceInv'
    BY <2>0, StepKeepsTrace
  <2>5. EventInv'
    BY <2>0, StepKeepsEvents
  <2>6. LastSaveInv'
    BY <2>0, <2>4, StepKeepsLastSave
  <2>7. GrowInv'
    BY <2>0, StepKeepsGrow
  <2>8. QED
    BY <2>1, <2>2, <2>3, <2>4, <2>5, <2>6, <2>7 DEF FinalInv
<1>3. QED
  BY <1>1, <1>2, ServiceRuns, TypeInvHolds, RunnerKeepsHolds, ServiceTyping, PTL
     DEF ServiceSpec

LEMMA FileConcludes ==
    ASSUME FinalInv, todo = <<>>, Undisturbed, service \in {"running", "ended"}
    PROVE  Concludes(file) /\ Loads
<1>1. PICK r \in LastRecord : Concludes(r)
  BY DEF FinalInv, LastSaveInv
<1>2. \A i \in 1 .. Len(todo) : FALSE
  OBVIOUS
<1>3. r = file
  BY <1>2, LastRecordCases
<1>4. QED
  BY <1>1, <1>3 DEF Concludes, Records, Loads

\* Whoever has been told run_end finds the final record: run_end is the last
\* event, nothing is left to do, and the record says the run is over.
THEOREM RunEndIsLast == ServiceSpec => []RunEndComesLast
<1>1. FinalInv => RunEndComesLast
  <2> SUFFICES ASSUME FinalInv, NEW i \in DOMAIN log, log[i].type = "run_end"
               PROVE  /\ i = Len(log)
                      /\ service = "ended" /\ todo = <<>>
                      /\ Undisturbed => Loads /\ ~file.running
    BY DEF RunEndComesLast
  <2>1. i = Len(log) /\ service = "ended" /\ todo = <<>>
    BY DEF FinalInv, RunEndInv
  <2>2. Undisturbed => Loads /\ ~file.running
    BY <2>1, FileConcludes DEF Concludes, IsResult
  <2>3. QED
    BY <2>1, <2>2
<1>2. QED
  BY <1>1, FinalInvHolds, PTL

\* "每次返回前将运行结果写入": once the run is over its record is the result of
\* the run, however it ended, unless a save was lost or the record deleted.
THEOREM FinalRecordTellsTheResult == ServiceSpec => []FinalRecordIsTheResult
<1>1. FinalInv => FinalRecordIsTheResult
  <2> SUFFICES ASSUME FinalInv, service = "ended", todo = <<>>, Undisturbed
               PROVE  /\ Loads /\ ~file.running
                      /\ file.success <=> outcome = "success"
                      /\ outcome \in {"success", "failed"} =>
                           file.results = results /\ file.failed = failedNode
    BY DEF FinalRecordIsTheResult, Over
  <2>1. QED
    BY FileConcludes DEF Concludes, IsResult
<1>2. QED
  BY <1>1, FinalInvHolds, PTL

\* A snapshot, the events and the runner agree on every node whenever a client
\* can look.
THEOREM SnapshotsMatchEvents == ServiceSpec => []SnapshotMatchesEvents
<1>1. FinalInv /\ ServiceTypeOK => SnapshotMatchesEvents
  <2> SUFFICES ASSUME FinalInv, ServiceTypeOK, LoopIsFree, service # "crashed",
                      NEW n \in Node
               PROVE  /\ EventStatus(n) = PhaseStatus[phase[n]]
                      /\ Undisturbed /\ Loads => SnapshotStatus(file, n) = EventStatus(n)
    BY DEF SnapshotMatchesEvents
  <2>1. todo = <<>> /\ (service = "running" => step = "await")
    BY DEF LoopIsFree
  <2>2. EventStatus(n) = PhaseStatus[phase[n]]
    BY <2>1 DEF FinalInv, EventInv, Pending
  <2>3. Loads => service # "adapters"
    BY DEF FinalInv, NothingBeforeTheRun, Loads, NoFile
  <2>4. service \in {"adapters", "running", "ended", "crashed"}
    BY DEF ServiceTypeOK, TaskTypeOK
  <2>5. Undisturbed /\ Loads => SnapshotStatus(file, n) = PhaseStatus[phase[n]]
    BY <2>1, <2>3, <2>4, FileConcludes DEF Concludes
  <2>6. QED
    BY <2>2, <2>5
<1>2. QED
  BY <1>1, FinalInvHolds, ServiceTyping, PTL

\* A reader that polls a run that is not cancelled never loses results it has
\* been shown.
THEOREM ReadersKeepResults == ServiceSpec => ResultsSurvive
<1>1. FinalInv /\ ServiceTypeOK /\ [ServiceNext]_serviceVars
      => [outcome # "cancelled" => reader.shown \subseteq reader'.shown]_serviceVars
  <2> SUFFICES ASSUME FinalInv, ServiceTypeOK, [ServiceNext]_serviceVars,
                      outcome # "cancelled"
               PROVE  reader.shown \subseteq reader'.shown
    OBVIOUS
  <2>1. Loads => reader.shown \subseteq WithResult(file)
    BY DEF FinalInv, GrowInv
  <2>2. CASE PoolThread
    BY <2>1, <2>2 DEF PoolThread, ReadRecord, DeleteRecord, ServiceTypeOK, StoreTypeOK
  <2>3. CASE QueueingStep \/ QuietStep \/ OtherTask \/ Crash
    BY <2>3 DEF QueueingStep, AdaptersReady, AdaptersFail, CancelAdapters, RaiseRun,
       BeginNode, EndNode, FailNode, OnFailure, SucceedRun, QuietStep, OtherTask, Crash,
       storeVars
  <2>4. CASE PublishNext \/ BeginSave \/ EndSave \/ FailSave
    BY <2>4 DEF PublishNext, BeginSave, EndSave, FailSave, OpenRecord, WriteRecord,
       LoseSave, storeVars
  <2>5. QED
    BY <2>2, <2>3, <2>4, StepKinds
<1>2. QED
  BY <1>1, FinalInvHolds, ServiceTyping, PTL DEF ServiceSpec, ResultsSurvive

=============================================================================
