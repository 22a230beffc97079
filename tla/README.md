# A formal model of the RAG workflow system

The repository is a workflow system for retrieval-augmented generation: a Vue
front end in which a user draws a graph of nodes (parse, split, embed, extract,
merge, persist, retrieve, generate), and a FastAPI server that executes such a
graph, records the run and streams its progress.  These modules model the core
of both sides.  Of the server: how a graph is ordered and executed, how a run
is recorded on disk, how its events reach the clients that watch it, how
requests share the adapters, and how the two most expensive nodes resume from a
checkpoint.  Of the front end: the canvas and its node picker, the drawer in
which nodes are edited, and the page that follows a run.  TLC checks the
modules on small instances; TLAPS checks the theorems for all of them.

Paths below are relative to `src/RAG-Anything/` unless they start with
`frontend/`.

## 1. Inventory

| Component | Where | State it keeps | Operations |
|---|---|---|---|
| Workflow runner | `runtime_kernel/graph_engine/workflow_runner.py`, `runtime_state/legacy_bridge.py`, `node_runtime/base_node.py`, `runtime_state/*_state.py`, `execution_context/` | per run: in-degrees, queue and order; node and run phases, results, outputs, inputs, trace events | `_topological_order`, `run`, `BaseNode.execute` |
| Run service | `workflow_api/runtime_service.py` | per run: `trace_nodes`, timeline, response | `run_workflow` with its callbacks `_on_node_start`, `_progress`, `_on_node_error` |
| Run records | `workflow_api/run_store.py`, `routers/workflows.py` | one JSON file per run | save, load, delete, list; delete resume checkpoints |
| Runtime trace | `workflow_api/runtime_trace/service.py`, `routers/runtime_trace.py` | per run: history, sequence number, subscribers' queues | `publish_event`, `stream`, `get_snapshot`, `get_node_detail` |
| Shared adapters | `workflow_api/raganything_runtime.py` | process-wide singletons and one lock | `get_shared_*`, `build_adapters_for_request` |
| Resume checkpoints | `workflow_nodes/multimodal/multimodal_process_node.py`, `workflow_nodes/storage/embedding_index_node.py` | append-only files of finished items | load, reuse, append, clear |
| Parse checkpoint | `adapters/raganything/parser_adapter.py` | one JSON file per output directory, artifacts per batch of pages | load, resume, save as a whole |
| Merges | `adapters/lightrag/{entity,relation,graph}_merge_adapter.py` | none | pure functions on lists of entities and relations |
| Chunk split | `workflow_nodes/parsing/` | none | pure functions on content lists |
| Persistence | `adapters/runtime/persist.py`, `adapters/lightrag/graph_persist_adapter.py`, industrial writers | external stores | upserts to several back ends |
| Constraint runtime, content pool | `runtime_kernel/runtime_state/` | constraints of a run, shared buckets | state transitions, reads and writes by nodes |
| Canvas | `frontend/src/views/rag-workflow/index.vue`, `composables/useWorkflowNodes.ts`, `useWorkflowStore.ts` | nodes, edges, the picker and what it was opened for | add, insert into an edge, append to a node, drag, delete, clear, load |
| Node drawer | `composables/useNodeConfig.ts`, `index.vue` | the selected node, three drafts, three debounce timers | select, type, write a draft to the selected node |
| Trace client | `components/runtime-trace/`, `composables/useWorkflowRun.ts`, `index.vue` | the run shown, its event stream, the node detail, status and result of the last run | post a run, restore one, follow it, upload a record |
| Workflow documents | `workflow_api/workflow_store.py` | one JSON file per workflow | save, load, list |

How they interact:

* `POST /workflows/run` awaits the shared adapters and then `WorkflowRunner.run`,
  all in one asyncio task.  The runner awaits one node after the other and calls
  the service back before and after each.  The callbacks are `async` but never
  suspend.
* A callback changes `trace_nodes`, publishes an event (a call into the trace
  service, which puts it into every subscriber's queue) and saves the whole
  record.  The event loop's other tasks therefore see a callback as one step;
  the thread pool, which serves `GET` and `DELETE` of records and the snapshots,
  does not, and neither does a crash.
* A stream is an async generator of its own task: history, snapshot, then
  events from its queue, and after every 10 s without an event a keep-alive and
  a look at the record, which is the only way a stream ends by itself.
* `multimodal.process` and `embedding.index` write what they finish to a file
  named by a cache key: the workflow, the node, the source path and some of the
  configuration, or a key the user gives.  Two runs with one key share it
  without knowing of each other.
* Every request needs adapters.  They are built when first needed and kept in
  globals behind one `asyncio.Lock`, which is held across the awaits in a
  getter.
* The page combines three sources: the response or the record, the snapshot,
  and the events.  The handler that posted a run goes on after each of its
  requests, the browser opens the stream again whenever it ends, and answers
  come when they come; none of them looks whether the page has gone on to
  another run.
* Canvas and drawer share the nodes.  A JavaScript handler is interrupted only
  at an `await`; what comes between are timers, answers and further clicks.

What is hard in it, and what makes each component correct:

| Component | Hard | Correct when |
|---|---|---|
| Order | repeated ids and edges, self-loops, unknown endpoints, cycles | it raises exactly for graphs without an order, and returns each node once, after its parents |
| Execution | three failure paths, cancellation at an await, inputs rebuilt from a growing pool | no node runs before its parents have succeeded, reads complete inputs, nothing runs below a failure, the verdict agrees with the node states |
| Run service | saves that fail silently, cancellation, exceptions before and after the first save, process death | every record is true whenever it is read, the last one is the result, a told result is not taken back, every run ends |
| Records | a save truncates and then writes while threads read and delete | a run that can be read stays readable |
| Trace | full queues, subscription between events, suspension between time-out and check | what a client is sent has no gap and no repetition, snapshot and events agree, streams end |
| Shared adapters | requests that race for one instance, a lock held across awaits, initialisations that raise or are cancelled, two ways to the same adapter | there is one instance of each and it is ready, the lock is not left behind, a request gets what its nodes need |
| Canvas | a picker that stays open with its context while edges and nodes go and documents come | no edge without its nodes, insertion changes no order, the entry nodes reach all |
| Drawer | drafts and timers that belong to the drawer and not to a node | an edit ends in the node it was typed for, and it is written |
| Trace client | late answers, replayed histories, lost requests, a second run begun during the first one's last requests | view, stream, detail and result are of one run; it is followed until its end is shown |
| Resume checkpoints | runs at the same time on one file, appends that fail silently or halfway, inputs that change, a file under an older key | what is reused fits what it is reused for, nothing finished is done again, a bad append costs no more than its neighbour |

The full list of hazards, each with its line and the properties for it, is in
`PROJECT.json`.

## 2. Modules

```
TopologicalOrder          _topological_order
  └ WorkflowRunner        WorkflowRunner.run           ──implements──▶ DagExecution
RunStore                  the file of one run
  └ TraceBus              events and streams of one run
      └ RunService        run_workflow: extends WorkflowRunner and TraceBus
CheckpointFile            the file of one cache key
  ├ MultimodalProcess     multimodal.process: runs that share the file
  └ EmbeddingIndex        embedding.index: the same, in batches
AdapterPool               the shared adapters
FlowCanvas                nodes, edges and picker
WorkflowEditor            the drawer: drafts, timers, selection
TraceClient               the page that follows a run
<module>Proofs            the theorems about a module (the sort's are in WorkflowRunnerProofs)
MC<module>                its instance for TLC
```

**TopologicalOrder** takes a request as the code does: a *list* of ids and a
*list* of edges, since nothing in the schema forbids repetitions.  One action
per stretch of the algorithm: reject unknown endpoints, reject a graph without
roots, enqueue the roots, visit the next node, compare the lengths.  `indeg`,
`q` and `order` are the code's variables.  The children of a node are released
in sorted order, which `SortedListings` describes.

**WorkflowRunner** is the loop.  `step` says where it is: before the loop,
picking the node at `cursor`, awaiting it, returned.  The only suspension point
is `await node.execute(context)`, so an action ends there, and cancellation can
come only there.  What a node does is its outcome: a successful result, a
result with `success=False`, or an exception.  `phase` and `runPhase` are the
state pool of the context, `writes` counts the outputs a node has written,
`inputs` records what each node was given and from which version of which
output, `trace` is the context's event list.

**DagExecution** says what a workflow execution is, with no order, no cursor and
no list: nodes wait, run, are done or have failed; one runs at a time, after
all its parents.  It is refused if it is not executable, ends with success when
all nodes are done, and with the first failure.  The mapping from the runner to
it is at the end of `WorkflowRunner`.

**RunStore** is the file of one run, as others see it: absent, truncated, or a
record.  A save is two steps; a save may fail before the first or instead of
the second; a file deleted between them takes the content with it.

**TraceBus** holds all events published, and per client the queue, the part of
the history still to send, and what has been sent.  `stream` is where the
generator is.  The history is the bounded suffix a `deque(maxlen)` keeps.

**RunService** composes them.  Each action that runs the service carries out a
step of the runner together with the callback it triggers: it changes
`trace_nodes` and queues the callback's effects, events and saves, in `todo`.
The effects are then carried out one by one, so that threads of the pool and a
crash can come between any two, and inside a save; streams and clients, being
tasks of the same event loop, wait until the run is suspended
(`LoopIsFree`).  `AdaptersFail`, `CancelAdapters`, `RaiseRun`, `FailNode` and
`SucceedRun` are the ways into the finally clause.

**CheckpointFile** is a file of JSON lines.  A line is appended, or the append
fails and is swallowed: then nothing, part of the line, or the line without its
end is in the file, and the next line is joined to that.  Lines that are no JSON
are skipped by the loader; a character cut in two makes it give up the file
(`legible`).  `DELETE /workflows/resume-cache` deletes it.

**MultimodalProcess** has several runs that share the file.  A run loads it once
(`Start`; `Checkpoint` merges in the file under the older key), then takes one
item after the other: `Reuse`, `DescribeByRule`, or `Ask` the VLM and `Answer`,
where the VLM may give nothing and the rule's text takes its place.  The only
suspension is at the VLM, where other runs go on, the VLM may raise (`Raise`)
and the file may be cleared; a crash may come anywhere.  Each run has its own
input, so that the document may have changed in between.  A text is who wrote
it and about which item; `Fingerprint` says which items the hash cannot tell
apart.

**EmbeddingIndex** is its sibling: records are looked up by their id, those
without a vector are `pending` and sent in batches (`SendBatch`,
`ReceiveBatch`), and only after the last batch assigned and saved one by one
(`Keep`).  A vector is the record it was computed for; `IdOf` lets two records
share an id.

**AdapterPool** has the requests inside `build_adapters_for_request`.  `Calls`
is its list of getters, each with the kind of node that needs it; `row` is the
call a request is at.  A getter takes the one lock (`Take`, or `Queue` and
`Granted`: first come, first served), looks at the global and, if it is empty,
constructs: at once, after a question for the dimension of the
embeddings (`probing`), or around an initialisation (`initializing`).  Both
awaits happen inside the lock, and there, as in the queue, a request may be
cancelled; questions, constructions and initialisations may raise, which the
getter's caller logs and passes over.  An adapter is the name of its global and
the number of its construction, so that two of one kind can be told apart.
With an engine in the request its own adapters are used instead of the globals.

**FlowCanvas** has `flowNodes`, `flowEdges` and the picker.  The picker is not
modal: `onEdge` or `onHandle` is what it was opened on, and every other handler
may come between opening it and choosing from it.  `asked` are the documents and
templates whose answers are awaited; `ApplyDocument` replaces the canvas.  An
edge carries the function that made it (`by`).

**WorkflowEditor** has the drawer.  `draft` are its three drafts, `due` the
debounce timers that run, `content` the label and configuration of each node.
Clicking a node fills the drafts (`Select`); choosing it in the trace list does
not (`SelectFromTrace`), and the list, which is of a run and perhaps an imported
one, may name a node that is not on the canvas.  Such a selection stays, with the
drawer closed, until `flowNodes` changes and the watch on it clears the selection
(`WatchNodes`, a part of every action that can take the selection's node away or
find it missing).  A timer writes its draft to the node that is selected when it
rings, if that is on the canvas.  A text is the node it was first taken from and the number of
the last edit in it, which is what tells a node's own text from another's.  The
two modules about the editor are apart because neither reads the other's
variables; both have the nodes, the picker's part of which the drawer does not
see.

**TraceClient** has the page: `view` is `traceState`, `conn` the event source,
`status`, `raw` and `loading` the variables of `useWorkflowRun`, `job` where
each handler is and what it waits for.  A run on the server is reduced to its
two events, run_start and run_end, and a request is answered with what the
server had at some moment since it was sent.  That record and events agree is
what `RunService` checks (`SnapshotMatchesEvents`, `RunEndComesLast`).
`Reconnected`, the history and the live events are the steps of a stream; the
browser connects again after each end, also after the last event.  `crossed` is
a ghost: something wrote to a view that somebody else had set up meanwhile.
This happens: a late snapshot is applied to the next run, the first of two
handlers imports its record over the second run, and a restore that is still
waiting clears a run begun since.  The code promises nothing for it and the
properties are about what holds otherwise.

## 3. Runs

| Run | Checks | Instance |
|---|---|---|
| `runner` | `ParentsFirst`, `InputsAreFinal`, `SortInv`, `VerdictMatchesNodes`, `TraceIsBracketed`, `RunReturns`, and that it implements `DagExecution` | every listing of up to three of three ids and one of four; every bag of at most three edges over them with self-loops, repetitions and an unknown endpoint; every set of four edges between four nodes |
| `service` | `RecordIsHonest`, `FinalRecordIsTheResult`, `SnapshotMatchesEvents`, `RunEndComesLast`, `StreamHasNoGap`, `ResultsSurvive`, `RunEnds`, `StreamsEnd` | two nodes in a row or in a cycle, one client, a queue of 2, a history of 3, one lost save, one deletion, one process death |
| `multimodal` | `DescriptionsFit`, `ResumeRepeatsNothing`, `DescribedIsKept`, `RunsEnd` | two runs, each with one of five inputs over four items, two of which have one fingerprint; three files under the older key; one failed append, one deletion |
| `embedding` | `VectorsFit`, `ResumeRepeatsNothing`, `RunsEnd` | two runs, each with one of five inputs (batches of 1, 2 and 16, with and without function, permission and cache) over four records, two of which share an id; one failed append, one deletion |
| `adapters` | `LockIsHeldInside`, `EnginesAreReady`, `InstancesAreShared`, `NeededIsGiven`, `RequestsAreServed` | three requests with three assignments of needs in three environments of keys |
| `canvas` | `DanglesOnlyByInsert`, `NewNodesAreApart`, `EntriesReachAll`, `InsertKeepsOrder` | a document of two nodes with its edge twice, two new nodes, up to two edges before more are dragged |
| `editor` | `OpenDrawerKeepsItsNode`, `CrossesOnlyByTrace`, `EditsAreTimed`, `EditsLand` | one node with a form and one without, two edits |
| `trace_client` | `ClientTypeOK`, `OneRunIsShown`, `ShownRunIsWatched`, `ResultFitsTrace`, `EndIsShown` | two runs, one of which fails and one of which may have begun before the page was opened |
| `service_interrupted` | finds `ShownResultsStay` violated | cancellation of the second node |
| `canvas_stale_picker` | finds `EdgesJoinNodes` violated | a picker opened on an edge that goes |
| `trace_status` | finds `StatusSettles` violated | a page opened during a run |
| `adapters_embedding` | finds `EngineBringsEmbedding` violated | a request with an engine and `embedding.index` |

Type invariants are defined in every module and proved (section 5) instead of
being run; `ClientTypeOK` is run as well.

Why the bounds are enough.  The runner has no data but the graph: three nodes
give every listing, chain, fork, join, self-loop and cycle, and the sets of four
edges over four nodes add the diamonds and shortcuts in which a node is released
by the last of several parents.  The theorems cover the rest.  The service sees
of the graph only which node is current, so two nodes give a first, a last and
a "between"; each node may succeed, report failure, raise, be of unknown type
or be cancelled.  A run of two nodes publishes up to six events, more than the
history and the queue hold, so that both limits are reached (the code's limits
are 300 and 200).  `MaxLostSaves` and `MaxDeletes` bound faults, not the run:
one of either at any place is what a single disturbance can do, and properties
that must hold under disturbance do not mention the counters.

Two runs are enough for the checkpoint: a run sees of the others only the file,
and a line, once written, is the same whoever wrote it.  An item is described
once per run, so that the longest document of three items has one that is
reused, one that has changed and one behind them.  One failed append followed
by a good one gives every way in which two lines can be joined; the bound on
deletions is reached, too, and the properties that a deletion would excuse
(`clears = 0`) are checked in the states before it.

Three requests give the adapters one that holds the lock and a queue of two, in
which one may be cancelled ahead of another; the assignments of needs let two
race for the engine beside one that needs what it would bring, two for the
functions, and all for one function asked for twice.  The environments have
either key missing, and the dimension given or asked for (172,217 states).

On the canvas, two nodes of a document and two new ones are enough for an edge
whose ends are gone while a new node waits to be inserted, and for parallel
edges (`MaxEdges` bounds dragging only: insertion makes more).  The drawer has
89,411 states with two edits; what can cross is one text and one timer between
two nodes, and each kind of node (with a form and without) is there.  An
earlier version with three nodes was checked once, with 5.26 million states.
On the trace client, `MaxExtras` bounds what is lost or asked for besides
running, up to the first crossing; the invariants were also checked once with 2
(2,924,182 states).

Fairness.  The event loop runs a task that is not suspended, so the runner's
and the service's own steps are weakly fair, and so is a stream's next step
while its client is connected.  A node is assumed to return: `run()` puts no
timeout around it, and without the assumption a run need not end
(`RunReturns`, `RunEnds`).  The checkpoint runs assume the same of the VLM and
of the embedding function (`RunsEnd`).  A request for adapters proceeds: the
probe and the initialisation are assumed to end, and the lock serves its queue in order
(`RequestsAreServed`).  A debounce timer that is not armed again rings
(`EditsLand`).  The browser connects again and delivers what it is sent
(`EndIsShown`); `StatusSettles` also gets that requests are answered and runs
end, and fails even so.  Nothing is assumed of users, of clients, of threads of the pool, of
cancellation, of failing saves or of the process dying.  `StreamsEnd` assumes
that the final record can be read: a stream whose record was deleted, never
written, or left as running by a crash does not end, as the code has it.

Deadlock is checked for canvas and drawer, where a user can always do something.
Elsewhere it is not: runs return, requests end and clients leave.

## 4. What the runs found

With a run:

1. *An interrupted request loses its results* (`service_interrupted`).  The
   final record of a cancelled run is that of an empty response; the progress
   records before it had the results, and the front end announces that it
   restores them.
2. *A node is inserted between nodes that are gone* (`canvas_stale_picker`).
   The picker keeps the edge it was opened on while the delete key, "clear" or a
   loaded document takes it away.  The server then refuses the graph.
3. *The status says running for ever* (`trace_status`).  It is set from a record
   that may say so, and run_end from the stream does not set it again.
4. *A request with an engine has no embedding function* (`adapters_embedding`).
   The engine's adapter is asked for an attribute it does not have, and the
   function of its own is built only when the engine failed.

Seen while modelling; each is a behaviour of the model, without a run of its
own:

* A repeated node id passes the sort: `sorted(ids)` keeps repetitions and the
  length test no longer means anything.  With ids `[1, 1, 2, 3, 4]` and edges
  1→2, 3→2, 4→3, node 2 runs before node 3 (`workflow_runner.py:39`, `:56`).
* Two edges between the same two nodes: the one parent's output arrives as a
  dict, as if there were two (`legacy_bridge.py:57`).
* A reader during a save finds no record and gets 404 (`RunStore`).
* A stream can end before its last events: the keep-alive suspends it between
  the time-out and the look at the record.
* What the VLM failed on is saved with the rule's text, reused and counted as
  used by the next run, and never asked again.
* Reused vectors are not counted when there is no embedding function.
* A failed batch loses those before it: saving starts after the last one.
* A node chosen in the trace list gets the drafts of the node that was edited
  before (`index.vue:1061`), which the timers then write to it.
* What was typed within the debounce interval is lost when another node is
  selected.

The passing properties are stated so that these do not hide anything else:
the runner's instance and theorems assume lists without repetition
(`UniqueIdLists`; repeated *edges* are included), and `ResultsSurvive` excepts
exactly the cancelled outcome.  `ResumeRepeatsNothing` of both nodes asks that
no append failed and nothing was deleted, and speaks of what a run has
described or assigned, not of batches it never got round to saving.
`DescribedIsKept` excepts a file with an undecodable character, which the
loader reads as empty: a known weakness with no statement to hold it against.

## 5. Proofs

Proved by TLAPS, for every value of the constants: every safety invariant and
every action property of the passing runs, each with the types below it.

The sort and the run loop (`WorkflowRunnerProofs`):

* `SortTyping`, `Typing`: types, repetitions included.
* `SortCorrect`: `SortInv`, for lists without repeated ids.  Invariant: the
  visited and the queued nodes are disjoint and without repetition, they are
  exactly the nodes whose count is zero, and a count is the number of incoming
  edges whose source is not visited (`CountsAreExact`); every visited node's
  parents are visited earlier; no visited node is on a cycle.  When the queue is
  empty and nodes are left, each of them has an open edge from another that is
  left: the graph is cyclic, so that raising is right.  When none is left the order is
  complete.  The counting argument needs finite sets of edge positions, which
  is why multiplicities are cardinalities of subsets of `DOMAIN edges`.
* `RunStaysInStep`: `RunInv`, which adds where the loop is (`LoopInv`: the nodes
  before the cursor have succeeded, those after it have not started), what it has
  recorded (`BooksInv`) and how it ended (`EndInv`).  None of the properties is
  inductive by itself: "parents first" follows only from the
  order's property together with the loop's position.
* `ParentsComeFirst`, `InputsAreComplete`, `VerdictIsRight`, `VerdictsAreFinal`:
  the properties of the `runner` run, from that invariant.
* `NodesAreBracketed`: `TraceIsBracketed`, for any list of ids.  Invariant
  (`BracketInv`): of all starts in the event list only that of the node awaited
  may be open, and it is the last event; the event after it is that node's own
  end, and what is closed stays closed (`EndStaysRecorded`).
* `RunnerImplementsDag`: `Spec => Dag!Spec`.  The steps of the sort and the start
  are stutters; starting a node is `Begin`, where the invariant gives that the
  graph is executable and the node's parents are done.

The run service, its records and streams (`RunServiceProofs`):

* `ServiceRuns`: `ServiceSpec => Spec`.  Nothing in the service but the run's own
  steps changes the runner's variables, so that all of the above holds inside it.
* `ServiceTyping`: the types of task, record and trace, and that no queue and no
  backlog outgrows its limit, for any number of clients.
* `RecordsAreHonest`: whatever a record on disk says has happened has happened,
  whichever saves are lost, whenever the record is deleted, read or torn, and
  wherever the run is cancelled or the process dies.  Invariant (`HonestInv`):
  every record still waiting to be saved is honest too, `trace_nodes` agrees
  with the runner's phases, and there is neither record nor effect before the
  adapters are there.  A record stays honest because verdicts are final
  (`StepKeepsVerdicts`), outcomes are (`OutcomeIsFinal`), and a run that is over
  does not start again.
* `StreamsHaveNoGap`: `StreamHasNoGap`, for any limits.  Invariant (`StreamInv`):
  events are numbered as they lie in `log`, a stream that has not been opened
  holds nothing, and one that is live has no backlog left; a queue that is full
  takes its client out of `subs` for good, which is why no gap can follow.
* `RunEndIsLast`, `FinalRecordTellsTheResult`, `SnapshotsMatchEvents`,
  `ReadersKeepResults`: `RunEndComesLast`, `FinalRecordIsTheResult`,
  `SnapshotMatchesEvents` and `ResultsSurvive`, also for lists that repeat ids.
  Invariant (`FinalInv`), about the effects still to be carried out: run_end is
  the last of them (`RunEndInv`), the event about a node is the first and only
  the first can be half of a save (`TodoInv`); `trace_nodes` follows the runner
  (`TraceInv`) and so do the events, but for the one still pending (`EventInv`);
  while saves succeed, the last record among the effects, or the file when none
  is left, tells how the run stands or has ended (`LastSaveInv`); and each record
  has at least the results of the one before it (`GrowInv`), until a
  cancellation.  None of the four is inductive without the others: that the
  final record is there when run_end is published depends on the order of the
  effects, and that order on which of them are left.

The checkpoints (`MultimodalProcessProofs`, `EmbeddingIndexProofs`):

* `ProcessTyping`, `DescriptionsAlwaysFit`: for any number of runs, any documents
  and any older files, a description fits the item at its place and a finished
  run has one for each.  Invariant (`FitInv`): every line in either file, and
  every line a run has loaded, carries the fingerprint of the item its text is
  about (`CacheInv`), which a torn or joined append cannot break since it only
  removes lines; a run's place is one past what it has described (`RunFits`).
* `IndexTyping`, `VectorsAlwaysFit`: for any number of runs, any records and
  sizes of batches, a vector has the id of the record it is given to, and a run
  that is done without permission to go without has one for each.  Invariant
  (`IndexInv`): every line has a vector under its own record's id
  (`FittingLines`), and per run (`Fits`) what has come back is, position by
  position, for the records still pending, which is what makes assigning by
  position right although reused records were left out.
* `ResumeAsksNothingTwice`, `ResumeSendsNothingTwice`: `ResumeRepeatsNothing` of
  either node.  Invariants (`ResumeInv`): while no append failed, every line can
  be read and every place a run has described (every record it has given a
  vector, `SavedInv`) has its line.  A run loads the file when it begins, so that
  it has the lines of all that ended before; for a place at which every run has
  the same item no line can have another fingerprint (`KeptAt`), whoever wrote
  it and whichever of several lines the loader keeps.
* `DescriptionsAreKept`: `DescribedIsKept`.  Invariant (`KeepInv`): the places
  described and missing from the file, and those the next append endangers (one
  after a torn line, two after a line without its end), are together at most
  twice the failed appends.  `AppendPays` is the step: whatever an append loses
  or endangers it pays for by having failed or by what was endangered before.

The shared adapters (`AdapterPoolProofs`):

* `PoolTyping`, `LockStaysInside`, `InstancesStayShared`, `EnginesStayReady`:
  for any number of requests.  Invariant (`PoolInv`): the lock is held by the
  one task inside a getter; what is being built is not there yet (`BuildInv`),
  so that nobody builds a second one; what a request has is the instance in the
  global (`OutInv`), which is never replaced; and the engine in the global has
  been initialised (`EngineIsReady`).
* `NeededIsAlwaysGiven`: with `ProvidedInv`, that every call a request has passed
  has given it its adapter or a reason for having none.

The front end (`FlowCanvasProofs`, `WorkflowEditorProofs`, `TraceClientProofs`):

* `CanvasTypeCorrect`, `OnlyInsertDangles`, `NewNodesFindNoEdge`: for any
  documents.  Invariant (`CanvasInv`): whatever canvas or picker still names was
  in a document or given by nanoid (`KnownInv`), so that a new id is on no edge.
* `InsertionKeepsOrder`: for every graph, replacing an edge by two around a new
  node changes no path between the others.  A path is stated by closed sets
  (`Reaches`), so that the proof extends or restricts a set by the new node and
  needs no induction.
* `EntriesReachEveryNode`: `EntriesReachAll`, for every finite canvas.  The graph
  is not walked: of the nodes from which one is reached, take one that the fewest
  others reach (`LeastElement`); an edge into it would come from one that still
  fewer reach, or close a cycle, so that it is an entry (`EntryBefore`).
* `EditorTypeCorrect`, `DrawerKeepsItsNode`, `ContentIsOwn`, `EditsHaveTimers`:
  for any nodes, documents and number of edits.  Invariant (`EditorInv`): the
  drafts belong to the node the drawer is open on unless it was opened from the
  trace list (`DraftsBelong`), a node's content is its own (`OwnUnlessTraced`),
  and whatever is selected was in a document or given by nanoid
  (`SelectionIsKnown`), so that a node put on the canvas is never the one selected.
  `DrawerKeepsItsNode` is of an action property: `DrawerStepHolds` shows it of each
  action from the invariant.
* `ClientTyping`, `PageShowsOneRun`, `PageWatchesItsRun`, `ResultIsOfTheRun`: the
  invariants of the `trace_client` run, for any number of runs, whichever had
  begun before the page was opened, and any number of lost requests, broken
  connections and things the user does.  Invariant (`ClientInv`): a stream that is
  not closed is that of a run and never lies beside an imported record
  (`SideInv`); and until something crosses (`ShownInv`) the view is of the run of
  whoever set it up, whoever waits for an answer has asked for the run shown, and
  an answer to the user is fresh only if it is about that run (`TraceInv`); a
  record imported by a handler is of a run that is over, the handler has nothing
  left to do, and an answer asked for since says the same (`ImportInv`); the
  result is taken from records of the run shown, and a handler that recovers from
  a lost request has set the status to error before (`ResultInv`).  A step either
  leaves the view with its run (`ViewStays`) or sets it up (`ViewSetUp`).

Assumptions: `RequestAssumption` (ids are numbers, lists are finite),
`StoreAssumption`, `BusAssumption`, `FileAssumption`, `ProcessAssumption`,
`IndexAssumption`, `PoolAssumption`, `CanvasAssumption`, `EditorAssumption`,
`ClientAssumption` (the constants have their types, documents are finite, and
ids given by nanoid differ from those in documents), and `UniqueIdLists` where a
theorem's statement names it.

Only model-checked: liveness (`RunReturns`, `RunEnds`, `StreamsEnd`, `RunsEnd`,
`RequestsAreServed`, `EditsLand`, `EndIsShown`), which needs fairness and
`ENABLED`; and that the properties in section 4 are violated.
Induction over data and theorems about `RECURSIVE` operators are beyond the
prover as installed; no module here declares one, and where a proof needs an
induction it takes a least element of a set of numbers instead.

## 6. Not modelled

Abstracted in the modelled parts:

* Server: what nodes compute, previews, summaries, sizes and time stamps; log
  lines; `GraphState`, which the runner writes and nothing reads; an edge that
  is not a pair (it raises between `run_start` and the sort, and takes the path
  of `RaiseRun`); the choice and wording of items, records and texts;
  checkpoint lines of a foreign shape and reads that fail; two runs given one
  run_id (the front end draws its ids at random); sequence numbers, which start
  again at 1 after a restart; a snapshot built by a thread between the end of
  one node and the start of the next; a node whose constructor raises after other
  nodes have run (`workflow_runner.py:96` catches `KeyError` only; `run_service`
  then saves an error without their results); a record that is not UTF-8, on
  which `run_store.py:82` raises.
* Adapters: the reading of `.env` and the contents of the adapters.  An engine
  brings either all of LightRAG's adapters or none.  One lock serves all
  getters, so that one slow initialisation delays every request: the model has
  this, and no property is against it.  `InstancesAreShared` is about each global:
  a request with an engine and one without may get different objects for one slot.
* Canvas and drawer: positions, labels and hints; the defaults a schema fills in;
  saving, which reads and changes neither; documents saved in the same session,
  whose ids nanoid has given; documents with dangling edges, so that a canvas
  saved with one and loaded again is not covered by `DanglesOnlyByInsert`; what is
  clicked in the drawer while its closing is animated.
  The order in which debounce timers ring is left open, which allows more than
  the browser does.
* Trace client: the states of single nodes, tabs and panels, the list of runs,
  the second candidate of a restore, and an event source that gives up after an
  HTTP error (a stream for an id in upper case, which the server validates but
  does not normalise at `routers/runtime_trace.py:48`, is another name there).

Components without a module, and why:

* *Parse checkpoint* (`parser_adapter.py`): batches of pages that count as done
  when their output files exist.  What those are after a crash is up to the
  external parser, so that a model would only state an assumption about it.
* *Merges*, *chunk split*: pure functions on lists and texts, without state or
  concurrency; unit tests reach them, and what they promise is in their texts'
  wording.
* *Persistence*: calls to external stores one after the other, without a
  protocol between them.
* *Constraint runtime and content pool*: rules evaluated on, and buckets filled
  within, one run, which runs one node at a time: nothing comes in between.
* *Workflow documents*: whole-file saves of one document; the torn write is the
  one in `RunStore`.
* *Parsing, retrieval and generation nodes*: transformations around external
  models; to the runner a node is its outcome.
* *Vendored code*: graphon, raganything, the `semtk-master` server and the
  packages of the administration template.
