---------------------------- MODULE AdapterPool ----------------------------
(***************************************************************************)
(* workflow_api/raganything_runtime.py: the adapters that the runs of one  *)
(* process share.  Each is built when it is first needed and kept in a     *)
(* global; one asyncio.Lock guards them all, and is held while the         *)
(* dimension of the embeddings is asked for and the engine initialises.    *)
(* The tasks are requests in build_adapters_for_request.  They share an    *)
(* event loop: a task that runs is not interrupted, and is suspended only  *)
(* while it waits for the lock, asks or initialises.  An adapter is the    *)
(* name of its global and the number of its construction.                  *)
(***************************************************************************)
EXTENDS Sequences, Naturals

CONSTANTS
    Task,           \* the requests
    NoTask,
    Requests,       \* what they may need: for each, the kinds of its nodes
    Envs            \* the environments: API keys, EMBEDDING_DIM given or probed

ASSUME PoolAssumption ==
    /\ NoTask \notin Task
    /\ Envs \subseteq [llmKey : BOOLEAN, embKey : BOOLEAN, probe : BOOLEAN]

VARIABLES
    env,            \* the environment
    needs,          \* the kinds of nodes of each request
    holder,         \* _lock: the task that holds it
    waiters,        \* ... and those that wait for it
    instance,       \* the globals: the number of the instance, 0 for None
    made,           \* how many instances have been constructed
    ready,          \* ghost: the engines whose initialize() has returned
    at,             \* where each task is; "run" and "locked" have the loop
    row,            \* the call it is at
    out,            \* what it has been given
    failed          \* ghost: the adapters it could not be given for an exception

lock == <<holder, waiters>>
pool == <<instance, made, ready>>
task == <<at, row, out, failed>>
poolVars == <<env, needs, lock, pool, task>>

-----------------------------------------------------------------------------
\* The calls of build_adapters_for_request: for which node, to which getter.

Calls == <<
    <<"engine", "raganything">>, <<"embedding", "embedding_func">>,
    <<"generate", "llm_model_func">>,
    <<"keyword", "llm_model_func">>, <<"keyword", "lightrag_keyword">>,
    <<"graph_retrieve", "lightrag_graph_retrieve">>, <<"chunk", "lightrag_chunk">>,
    <<"entity", "llm_model_func">>, <<"entity", "lightrag_entity">>,
    <<"entity_merge", "lightrag_entity_merge">>,
    <<"relation_merge", "lightrag_relation_merge">>,
    <<"graph_merge", "lightrag_graph_merge">>,
    <<"graph_persist", "lightrag_graph_persist">>,
    <<"rerank", "runtime_rerank">>, <<"industrial", "industrial_knowledge">>,
    <<"industrial_graph_persist", "industrial_graph_persist">> >>

LightRAG == {"lightrag_keyword", "lightrag_graph_retrieve", "lightrag_chunk",
             "lightrag_entity", "lightrag_entity_merge", "lightrag_relation_merge",
             "lightrag_graph_merge", "lightrag_graph_persist"}

Slot == LightRAG \cup
        {"raganything", "embedding_func", "llm_model_func", "runtime_rerank",
         "industrial_knowledge", "industrial_graph_persist"}

\* Built from the LLM's key, without which there is none.
NeedsLlmKey == {"embedding_func", "llm_model_func", "lightrag_keyword", "lightrag_entity"}

None == [of |-> "none", no |-> 0]
Of(s, n) == [of |-> s, no |-> n]

Current(t) == Calls[row[t]][2]

\* With an engine in the request, what it has brought is not asked for again, and
\* the embedding function only if there is no engine after all.
EngineHasAll(t, i) ==                 \* mutant: nothing is asked for beside the engine
    /\ Calls[i][1] \in needs[t]
    /\ "engine" \in needs[t] => out[t]["raganything"] = None
Wanted(t, i) ==
    /\ Calls[i][1] \in needs[t]
    /\ "engine" \in needs[t] =>
         out[t][IF Calls[i][2] = "embedding_func" THEN "raganything" ELSE Calls[i][2]] = None

PoolInit ==
    /\ env \in Envs
    /\ needs \in Requests
    /\ holder = NoTask
    /\ waiters = <<>>
    /\ instance = [s \in Slot |-> 0]
    /\ made = [s \in Slot |-> 0]
    /\ ready = {}
    /\ at = [t \in Task |-> "new"]
    /\ row = [t \in Task |-> 1]
    /\ out = [t \in Task |-> [s \in Slot |-> None]]
    /\ failed = [t \in Task |-> {}]

LoopIsFree == \A t \in Task : at[t] \notin {"run", "locked"}

Goes(t, to) == at' = [at EXCEPT ![t] = to]

-----------------------------------------------------------------------------
Begin(t) ==
    /\ at[t] = "new"
    /\ LoopIsFree
    /\ Goes(t, "run")
    /\ UNCHANGED <<env, needs, lock, pool, row, out, failed>>

\* On to the next call that is wanted, or behind the last.
Skip(t) ==
    /\ at[t] = "run"
    /\ row[t] \in DOMAIN Calls
    /\ ~Wanted(t, row[t])
    /\ \E i \in row[t] + 1 .. Len(Calls) + 1 :
         /\ \A j \in row[t] .. i - 1 : ~Wanted(t, j)
         /\ i \in DOMAIN Calls => Wanted(t, i)
         /\ row' = [row EXCEPT ![t] = i]
    /\ UNCHANGED <<env, needs, lock, pool, at, out, failed>>

\* async with _lock: at once, or behind those that wait already.
Take(t) ==
    /\ at[t] = "run"
    /\ row[t] \in DOMAIN Calls
    /\ Wanted(t, row[t])
    /\ holder = NoTask /\ waiters = <<>>
    /\ holder' = t
    /\ Goes(t, "locked")
    /\ UNCHANGED <<env, needs, waiters, pool, row, out, failed>>

Queue(t) ==
    /\ at[t] = "run"
    /\ row[t] \in DOMAIN Calls
    /\ Wanted(t, row[t])
    /\ holder # NoTask \/ waiters # <<>>
    /\ waiters' = Append(waiters, t)
    /\ Goes(t, "waiting")
    /\ UNCHANGED <<env, needs, holder, pool, row, out, failed>>

Granted(t) ==
    /\ at[t] = "waiting"
    /\ LoopIsFree
    /\ holder = NoTask
    /\ waiters # <<>> /\ Head(waiters) = t
    /\ holder' = t
    /\ waiters' = Tail(waiters)
    /\ Goes(t, "locked")
    /\ UNCHANGED <<env, needs, pool, row, out, failed>>

\* The getter returns, and with it the lock is free.
Returns(t) ==
    /\ Goes(t, "run")
    /\ row' = [row EXCEPT ![t] = @ + 1]
    /\ holder' = NoTask
    /\ UNCHANGED <<env, needs, waiters>>

\* What a request is given with a global: the engine comes with adapters on its own
\* LightRAG, unless they cannot be imported.  It has no attribute embedding_func or
\* llm_model_func to hand out.
Filled(s) == IF s = "raganything" THEN {{s}, {s} \cup LightRAG} ELSE {{s}}

Gives(t, s, n) ==
    \E filled \in Filled(s) :
        out' = [out EXCEPT ![t] = [x \in Slot |-> IF x \in filled THEN Of(s, n) ELSE @[x]]]

ReturnsNone(t) ==
    /\ Returns(t)
    /\ failed' = [failed EXCEPT ![t] = @ \cup {Current(t)}]
    /\ UNCHANGED out

NeverThere(s) == FALSE                \* mutant: no look at the global in the lock
IsThere(s) == instance[s] # 0

Reuse(t) ==
    /\ at[t] = "locked"
    /\ IsThere(Current(t))
    /\ Returns(t)
    /\ Gives(t, Current(t), instance[Current(t)])
    /\ UNCHANGED <<pool, failed>>

\* Whether the dimension is asked for, which needs a key, and is given by an answer
\* or by EMBEDDING_DIM.
Asks(s) ==
    /\ env.probe
    /\ \/ s = "raganything" /\ env.llmKey
       \/ s = "embedding_func" /\ (env.llmKey \/ env.embKey)

Probe(t) ==
    /\ at[t] = "locked"
    /\ ~IsThere(Current(t))
    /\ Asks(Current(t))
    /\ Goes(t, "probing")
    /\ UNCHANGED <<env, needs, lock, pool, row, out, failed>>

ProbeFails(t) ==
    /\ at[t] = "probing"
    /\ LoopIsFree
    /\ ReturnsNone(t)
    /\ UNCHANGED pool

\* The rest of a getter: nothing left to ask.
Building(t) ==
    \/ at[t] = "locked" /\ ~IsThere(Current(t)) /\ ~Asks(Current(t))
    \/ at[t] = "probing" /\ LoopIsFree

NoKey(t) ==
    /\ Building(t)
    /\ Current(t) \in NeedsLlmKey /\ ~env.llmKey
    /\ Returns(t)
    /\ UNCHANGED <<pool, out, failed>>

Buildable(t) ==
    /\ Building(t)
    /\ Current(t) \in NeedsLlmKey => env.llmKey

BuildFails(t) ==
    /\ Buildable(t)
    /\ ReturnsNone(t)
    /\ UNCHANGED pool

Build(t) ==
    /\ Buildable(t)
    /\ Current(t) # "raganything"
    /\ made' = [made EXCEPT ![Current(t)] = @ + 1]
    /\ instance' = [instance EXCEPT ![Current(t)] = made'[Current(t)]]
    /\ Returns(t)
    /\ Gives(t, Current(t), made'[Current(t)])
    /\ UNCHANGED <<ready, failed>>

\* The engine is constructed, and then initialises for a while.
ConstructAndPublish(t) ==             \* mutant: _engine is set before initialize()
    /\ Buildable(t)
    /\ Current(t) = "raganything"
    /\ made' = [made EXCEPT !["raganything"] = @ + 1]
    /\ instance' = [instance EXCEPT !["raganything"] = made'["raganything"]]
    /\ Goes(t, "initializing")
    /\ UNCHANGED <<env, needs, lock, ready, row, out, failed>>
Construct(t) ==
    /\ Buildable(t)
    /\ Current(t) = "raganything"
    /\ made' = [made EXCEPT !["raganything"] = @ + 1]
    /\ Goes(t, "initializing")
    /\ UNCHANGED <<env, needs, lock, instance, ready, row, out, failed>>

Initialized(t) ==
    /\ at[t] = "initializing"
    /\ LoopIsFree
    /\ ready' = ready \cup {made["raganything"]}
    /\ instance' = [instance EXCEPT !["raganything"] = made["raganything"]]
    /\ Returns(t)
    /\ Gives(t, "raganything", made["raganything"])
    /\ UNCHANGED <<made, failed>>

InitializeFails(t) ==
    /\ at[t] = "initializing"
    /\ LoopIsFree
    /\ ReturnsNone(t)
    /\ UNCHANGED pool

Finish(t) ==
    /\ at[t] = "run"
    /\ row[t] \notin DOMAIN Calls
    /\ Goes(t, "done")
    /\ UNCHANGED <<env, needs, lock, pool, row, out, failed>>

\* The request is cancelled where it is suspended: it leaves the queue, or the lock
\* with the async with.
LeaveLocked(t) == UNCHANGED lock      \* mutant: the lock is not released on the way out
LeaveQueued(t) ==                     \* mutant: its place in the queue is kept
    /\ holder' = IF holder = t THEN NoTask ELSE holder
    /\ UNCHANGED waiters
Leave(t) ==
    IF holder = t
      THEN holder' = NoTask /\ UNCHANGED waiters
      ELSE \E i \in DOMAIN waiters :
             /\ waiters[i] = t
             /\ waiters' = SubSeq(waiters, 1, i - 1) \o SubSeq(waiters, i + 1, Len(waiters))
             /\ UNCHANGED holder

Cancel(t) ==
    /\ at[t] \in {"waiting", "probing", "initializing"}
    /\ LoopIsFree
    /\ Leave(t)
    /\ Goes(t, "cancelled")
    /\ UNCHANGED <<env, needs, pool, row, out, failed>>

-----------------------------------------------------------------------------
Proceed(t) ==
    \/ Begin(t) \/ Skip(t) \/ Take(t) \/ Queue(t) \/ Granted(t) \/ Finish(t)
    \/ Reuse(t) \/ Probe(t) \/ NoKey(t) \/ Build(t) \/ Construct(t) \/ Initialized(t)
    \/ ProbeFails(t) \/ BuildFails(t) \/ InitializeFails(t)

PoolNext == \E t \in Task : Proceed(t) \/ Cancel(t)

\* The event loop goes on; questions and initialisations are assumed to end.
PoolSpec ==
    /\ PoolInit
    /\ [][PoolNext]_poolVars
    /\ \A t \in Task : WF_poolVars(Proceed(t))

-----------------------------------------------------------------------------
\* Properties.

Adapter == {None} \cup [of : Slot, no : Nat]
Inside == {"locked", "probing", "initializing"}

PoolTypeOK ==
    /\ env \in Envs
    /\ needs \in Requests
    /\ holder \in Task \cup {NoTask}
    /\ waiters \in Seq(Task)
    /\ instance \in [Slot -> Nat]
    /\ made \in [Slot -> Nat]
    /\ ready \subseteq Nat
    /\ at \in [Task -> {"new", "run", "waiting", "done", "cancelled"} \cup Inside]
    /\ row \in [Task -> 1 .. Len(Calls) + 1]
    /\ out \in [Task -> [Slot -> Adapter]]
    /\ failed \in [Task -> SUBSET Slot]

\* The lock is held by the one task inside a getter, and by no other: neither an
\* exception nor a cancellation leaves it behind (async with of every getter).
LockIsHeldInside ==
    \A t \in Task : at[t] \in Inside <=> holder = t

\* Nobody is handed an engine whose initialize() has not returned, however many
\* attempts failed or were cancelled before (get_shared_raganything_engine).
EnginesAreReady ==
    /\ instance["raganything"] # 0 => instance["raganything"] \in ready
    /\ \A t \in Task, s \in Slot :
         out[t][s].of = "raganything" => out[t][s].no \in ready

\* All requests share one instance, whoever built it and whenever they came.
InstancesAreShared ==
    \A t \in Task, s \in Slot : out[t][s] # None => out[t][s].no = instance[out[t][s].of]

\* A request that is done has an adapter for each of its nodes, unless its key is
\* missing or an exception kept it away.  (The embedding function beside an engine
\* is excepted.)
Missing(t) ==
    {s \in {Calls[i][2] : i \in {i \in DOMAIN Calls : Calls[i][1] \in needs[t]}} :
        /\ out[t][s] = None
        /\ s \notin failed[t]
        /\ s \in NeedsLlmKey => env.llmKey}
NeededIsGiven ==
    \A t \in Task : at[t] = "done" =>
        \A s \in Missing(t) : s = "embedding_func" /\ out[t]["raganything"] # None

\* Every request gets its adapters or is cancelled, however many wait for one lock.
RequestsAreServed ==
    \A t \in Task : at[t] # "new" ~> at[t] \in {"done", "cancelled"}

\* "raganything engine 可直接提供 embedding_func，供 embedding.index 复用"
\* (workflow_api/raganything_runtime.py:948): a request with an engine has an
\* embedding function for its embedding.index.
EngineBringsEmbedding ==
    \A t \in Task : at[t] = "done" => "embedding_func" \notin Missing(t)

=============================================================================
