----------------------------- MODULE RunService -----------------------------
(***************************************************************************)
(* run_workflow: one POST /workflows/run from the adapters to the final    *)
(* record.  It runs the WorkflowRunner and hands it three callbacks, which *)
(* publish trace events and save the record.  The callbacks never suspend, *)
(* so that for the other tasks of the event loop everything from one await *)
(* of a node to the next is one step; the threads of the pool and a crash  *)
(* see every publication and both halves of every save.  Those are the     *)
(* effects: each step of the run queues them in todo in their order, and   *)
(* they are carried out one by one before the run goes on.                 *)
(* Time stamps, previews and summaries are left out of the records, and so *)
(* is the timeline, which lists the events that end a node.                *)
(***************************************************************************)
EXTENDS WorkflowRunner, TraceBus

CONSTANT MayCrash       \* whether the process may die

VARIABLES
    service,    \* "adapters", "running", "ended", "crashed"
    traceNodes, \* trace_nodes: the status per node, "none" without an entry
    todo        \* the effects still to be carried out, in order

serviceVars == <<vars, storeVars, busVars, service, traceNodes, todo>>

ServiceInit ==
    /\ Init
    /\ StoreInit
    /\ BusInit
    /\ service = "adapters"
    /\ traceNodes = [n \in Node |-> "none"]
    /\ todo = <<>>

-----------------------------------------------------------------------------
\* The effects.  A record holds what the callback or the finally clause has
\* just computed: the primed values.

ToPublish(type, nodes, status) ==
    [op |-> "publish", type |-> type, nodes |-> nodes, status |-> status]

ToSave(record) == [op |-> "save", record |-> record]

\* _save_progress_record
Progress(current, failed) ==
    ToSave([kind |-> "record", running |-> TRUE, success |-> FALSE,
            current |-> current, failed |-> failed,
            results |-> results', nodes |-> traceNodes'])

\* The finally clause: the record of the response, and run_end after it.
KeepRunning(success, failed, res) ==  \* mutant: the record is still running
    << ToSave([kind |-> "record", running |-> TRUE, success |-> success,
               current |-> {}, failed |-> failed,
               results |-> res, nodes |-> traceNodes']),
       ToPublish("run_end", {}, IF success THEN "success" ELSE "error") >>
EndThenSave(success, failed, res) ==  \* mutant: run_end before the record
    << ToPublish("run_end", {}, IF success THEN "success" ELSE "error"),
       ToSave([kind |-> "record", running |-> FALSE, success |-> success,
               current |-> {}, failed |-> failed,
               results |-> res, nodes |-> traceNodes']) >>
Finally(success, failed, res) ==
    << ToSave([kind |-> "record", running |-> FALSE, success |-> success,
               current |-> {}, failed |-> failed,
               results |-> res, nodes |-> traceNodes']),
       ToPublish("run_end", {}, IF success THEN "success" ELSE "error") >>

\* A response built in an except clause has no node results.
RunError == << ToPublish("run_error", {}, "error") >>
              \o Finally(FALSE, {}, [n \in Node |-> "none"])

-----------------------------------------------------------------------------
\* The run, as long as nothing is left to do.

\* build_adapters_for_request is awaited before the first record is saved.
AdaptersReady ==
    /\ service = "adapters"
    /\ service' = "running"
    /\ UNCHANGED traceNodes
    /\ UNCHANGED vars
    /\ todo' = << Progress({}, {}), ToPublish("run_start", {}, "none") >>
    /\ UNCHANGED <<storeVars, busVars>>

AdaptersFail ==
    /\ service = "adapters"
    /\ service' = "ended"
    /\ UNCHANGED traceNodes
    /\ UNCHANGED vars
    /\ todo' = RunError
    /\ UNCHANGED <<storeVars, busVars>>

Running == service = "running" /\ todo = <<>>

QuietStep ==
    /\ Running
    /\ Sort \/ StartRun
    /\ UNCHANGED <<storeVars, busVars, service, traceNodes, todo>>

RaiseRun ==
    /\ Running
    /\ RaiseRejected \/ Cancel
    /\ UNCHANGED traceNodes
    /\ service' = "ended"
    /\ todo' = RunError
    /\ UNCHANGED <<storeVars, busVars>>

PublishOnly(n) ==                     \* mutant: the start is not saved
    <<ToPublish("node_start", {n}, "running")>>
OnNodeStart(n) == <<ToPublish("node_start", {n}, "running"), Progress({n}, {})>>

BeginNode ==
    /\ Running
    /\ StartNode
    /\ traceNodes' = [traceNodes EXCEPT ![Current] = "running"]
    /\ todo' = OnNodeStart(Current)
    /\ UNCHANGED <<storeVars, busVars, service>>

\* _progress
EndNode ==
    /\ Running
    /\ NodeSucceeds
    /\ traceNodes' = [traceNodes EXCEPT ![Current] = "success"]
    /\ todo' = <<ToPublish("node_end", {Current}, "success"), Progress({Current}, {})>>
    /\ UNCHANGED <<storeVars, busVars, service>>

\* run() returns a failure: _progress or _on_node_error is the last callback.
OnAnyResult(type) ==                  \* mutant: every result is a success
    /\ traceNodes' = [traceNodes EXCEPT ![Current] = "success"]
    /\ service' = "ended"
    /\ todo' = <<ToPublish(type, {Current}, "error"), Progress({Current}, {Current})>>
               \o Finally(FALSE, failedNode', results')
    /\ UNCHANGED <<storeVars, busVars>>
OnFailureWithoutResults(type) ==      \* mutant: the response forgets the results
    /\ traceNodes' = [traceNodes EXCEPT ![Current] = "error"]
    /\ service' = "ended"
    /\ todo' = <<ToPublish(type, {Current}, "error"), Progress({Current}, {Current})>>
               \o Finally(FALSE, failedNode', [n \in Node |-> "none"])
    /\ UNCHANGED <<storeVars, busVars>>
OnFailure(type) ==
    /\ traceNodes' = [traceNodes EXCEPT ![Current] = "error"]
    /\ service' = "ended"
    /\ todo' = <<ToPublish(type, {Current}, "error"), Progress({Current}, {Current})>>
               \o Finally(FALSE, failedNode', results')
    /\ UNCHANGED <<storeVars, busVars>>

FailNode ==
    /\ Running
    /\ \/ NodeReportsFailure /\ OnFailure("node_end")
       \/ NodeRaises /\ OnFailure("node_error")
       \/ RejectNodeType /\ OnFailure("node_error")

SucceedRun ==
    /\ Running
    /\ FinishRun
    /\ UNCHANGED traceNodes
    /\ service' = "ended"
    /\ todo' = Finally(TRUE, {}, results')
    /\ UNCHANGED <<storeVars, busVars>>

\* A node is awaited, or the adapters are: the task may be cancelled there.
CancelAdapters ==
    /\ service = "adapters"
    /\ service' = "ended"
    /\ UNCHANGED traceNodes
    /\ UNCHANGED vars
    /\ todo' = RunError
    /\ UNCHANGED <<storeVars, busVars>>

-----------------------------------------------------------------------------
\* The effects, one by one.

Pending(op) == todo # <<>> /\ Head(todo).op = op

PublishNext ==
    /\ Pending("publish")
    /\ Publish(Head(todo).type, Head(todo).nodes, Head(todo).status)
    /\ todo' = Tail(todo)
    /\ UNCHANGED <<vars, storeVars, service, traceNodes>>

BeginSave ==
    /\ Pending("save")
    /\ OpenRecord
    /\ todo' = << [Head(todo) EXCEPT !.op = "write"] >> \o Tail(todo)
    /\ UNCHANGED <<vars, busVars, service, traceNodes>>

RetryWrite ==                         \* mutant: the save is not done with
    /\ Pending("write")
    /\ WriteRecord(Head(todo).record)
    /\ UNCHANGED <<vars, busVars, service, traceNodes, todo>>
EndSave ==
    /\ Pending("write")
    /\ WriteRecord(Head(todo).record)
    /\ todo' = Tail(todo)
    /\ UNCHANGED <<vars, busVars, service, traceNodes>>

FailSave ==
    /\ Pending("save") \/ Pending("write")
    /\ LoseSave
    /\ todo' = Tail(todo)
    /\ UNCHANGED <<vars, busVars, service, traceNodes>>

-----------------------------------------------------------------------------
\* The rest of the server.

\* The event loop runs another task only when the run is suspended or over.
LoopIsFree ==
    /\ todo = <<>>
    /\ service = "running" => step = "await"

StreamNext(c) ==
    /\ LoopIsFree
    /\ StreamStep(c)
    /\ UNCHANGED <<vars, storeVars, service, traceNodes, todo>>

ClientNext(c) ==
    /\ LoopIsFree
    /\ OpenStream(c) \/ Disconnect(c)
    /\ UNCHANGED <<vars, storeVars, service, traceNodes, todo>>

WithResult(record) == {n \in Node : record.results[n] # "none"}

PoolThread ==
    /\ ReadRecord(WithResult(file)) \/ DeleteRecord
    /\ UNCHANGED <<vars, busVars, service, traceNodes, todo>>

\* The process dies and starts again: nothing looks at the records it left.
Crash ==
    /\ MayCrash
    /\ service # "crashed"
    /\ service' = "crashed"
    /\ todo' = <<>>
    /\ ForgetTrace
    /\ UNCHANGED <<vars, storeVars, traceNodes>>

Effect == PublishNext \/ BeginSave \/ EndSave \/ FailSave

ServiceAdvance ==
    \/ AdaptersReady
    \/ QuietStep
    \/ RaiseRun
    \/ BeginNode
    \/ EndNode
    \/ FailNode
    \/ SucceedRun
    \/ Effect

ServiceNext ==
    \/ ServiceAdvance
    \/ AdaptersFail
    \/ CancelAdapters
    \/ \E c \in Client : StreamNext(c) \/ ClientNext(c)
    \/ PoolThread
    \/ Crash

ServiceSpec == ServiceInit /\ [][ServiceNext]_serviceVars

\* The event loop is never starved; adapters and nodes are assumed to return;
\* a connected client takes what it is sent.
ServiceFairness ==
    /\ WF_serviceVars(ServiceAdvance)
    /\ \A c \in Client : WF_serviceVars(StreamNext(c))

FairServiceSpec == ServiceSpec /\ ServiceFairness

-----------------------------------------------------------------------------
\* What a client makes of it.

\* _build_node_states_from_record: the status a snapshot shows for a node.
SnapshotStatus(record, n) ==
    IF n \in record.failed THEN "error"
    ELSE IF record.running /\ n \in record.current THEN "running"
    ELSE IF record.nodes[n] # "none" THEN record.nodes[n]
    ELSE IF record.results[n] = "none" THEN "pending"
    ELSE IF record.results[n] = "ok" THEN "success" ELSE "error"

\* The status the events of the run show for a node.
EventStatus(n) ==
    LET about == {i \in DOMAIN log : log[i].nodes = {n}}
    IN  IF about = {} THEN "pending"
        ELSE log[CHOOSE i \in about : \A j \in about : j <= i].status

PhaseStatus == [ABSENT |-> "pending", RUNNING |-> "running",
                SUCCESS |-> "success", FAILED |-> "error"]

\* Nothing has happened to the record but its saves.
Undisturbed == lost = 0 /\ deletes = 0

Over == service = "ended" /\ todo = <<>>

-----------------------------------------------------------------------------

Statuses == {"none", "running", "success", "error"}

EventTypes == {"run_start", "node_start", "node_end", "node_error", "run_error",
               "run_end"}

Events == [seq : Nat, type : EventTypes, nodes : SUBSET Node, status : Statuses]

Records == [kind : {"record"}, running : BOOLEAN, success : BOOLEAN,
            current : SUBSET Node, failed : SUBSET Node,
            results : [Node -> {"none", "ok", "bad"}],
            nodes : [Node -> Statuses]]

Effects ==
    [op : {"publish"}, type : EventTypes, nodes : SUBSET Node, status : Statuses]
    \cup [op : {"save", "write"}, record : Records]

TaskTypeOK ==
    /\ service \in {"adapters", "running", "ended", "crashed"}
    /\ traceNodes \in [Node -> Statuses]
    /\ todo \in Seq(Effects)

StoreTypeOK ==
    /\ file \in {NoFile, TornFile} \cup Records
    /\ lost \in 0 .. MaxLostSaves
    /\ deletes \in 0 .. MaxDeletes
    /\ reader \in [answer : {"none", "found", "404"}, shown : SUBSET Node]

BusTypeOK ==
    /\ log \in Seq(Events)
    /\ subs \subseteq Client
    /\ stream \in [Client -> {"off", "history", "live", "beat", "ended", "gone"}]
    /\ queue \in [Client -> Seq(Events)]
    /\ backlog \in [Client -> Seq(Events)]
    /\ sent \in [Client -> Seq(Events)]
    /\ \A c \in Client : Len(queue[c]) <= QueueMax /\ Len(backlog[c]) <= HistoryMax

ServiceTypeOK == TaskTypeOK /\ StoreTypeOK /\ BusTypeOK

\* What a record says has happened, has happened.
Honest(record) ==
    /\ record.success => ~record.running /\ outcome = "success"
    /\ \A n \in Node : /\ record.results[n] = "ok" => phase[n] = "SUCCESS"
                       /\ record.nodes[n] = "success" => phase[n] = "SUCCESS"
                       /\ record.nodes[n] = "error" => phase[n] = "FAILED"
    /\ ~record.running => service # "running" /\ step # "await"

\* Whoever reads the record, whenever, and whatever happened to the process or
\* to other saves, reads nothing that is not so.
RecordIsHonest == Loads => Honest(file)

\* "每次返回前将运行结果写入": once the run is over, its record is the result,
\* and the statuses in it are those of the last events.
FinalRecordIsTheResult ==
    Over /\ Undisturbed =>
      /\ Loads /\ ~file.running
      /\ file.success <=> outcome = "success"
      /\ outcome \in {"success", "failed"} =>
           file.results = results /\ file.failed = failedNode

\* A client that applies a snapshot after the history, or the events after the
\* snapshot, sees one and the same run: when another task of the event loop can
\* look, record and events agree on every node, and so does the runner.
SnapshotMatchesEvents ==
    LoopIsFree /\ service # "crashed" =>
      \A n \in Node :
        /\ EventStatus(n) = PhaseStatus[phase[n]]
        /\ Undisturbed /\ Loads => SnapshotStatus(file, n) = EventStatus(n)

\* Whoever has been told run_end finds the final record.
RunEndComesLast ==
    \A i \in DOMAIN log : log[i].type = "run_end" =>
      /\ i = Len(log)
      /\ service = "ended" /\ todo = <<>>
      /\ Undisturbed => Loads /\ ~file.running

\* What a client has been sent, and still has to be sent, is a piece of the
\* published events without a gap or a repetition, in their order; as long as
\* it is subscribed, up to the last one.
StreamHasNoGap ==
    \A c \in Client :
      LET events == sent[c] \o backlog[c] \o queue[c]
      IN  /\ \A i \in DOMAIN events : events[i].seq = events[1].seq + i - 1
          /\ c \in subs /\ events # <<>> => events[Len(events)].seq = Len(log)
          /\ c \in subs /\ log # <<>> => events # <<>>

\* A reader that polls a run never loses results it has been shown, unless the
\* run is cancelled, which replaces the record by one without results.
ResultsSurvive ==
    [][outcome # "cancelled" => reader.shown \subseteq reader'.shown]_serviceVars

\* Every accepted run ends, with its effects carried out.
RunEnds == <>(Over \/ service = "crashed")

\* When the final record stays readable, every stream comes to its end.
StreamsEnd == <>[](Loads /\ ~file.running) => \A c \in Client : <>[](c \notin Open)

\* "运行请求已中断，已从服务端运行记录恢复展示"
\* (frontend/src/views/rag-workflow/composables/useWorkflowRun.ts:72): the record
\* restores what was shown of the run, also when its request was interrupted.
ShownResultsStay == [][reader.shown \subseteq reader'.shown]_serviceVars

=============================================================================
