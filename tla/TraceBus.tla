------------------------------ MODULE TraceBus ------------------------------
(***************************************************************************)
(* The runtime trace of one run (runtime_trace/service.py): publish_event  *)
(* on one side, the SSE stream of each client on the other.  All of it     *)
(* runs in the event loop's thread, so that an action is what happens      *)
(* between two suspensions of the generator stream(): a yield, which       *)
(* awaits the client's connection, or the wait for the queue.  A client    *)
(* that comes back is another client.                                      *)
(***************************************************************************)
EXTENDS RunStore, Sequences, FiniteSets

CONSTANTS
    Client,         \* the connections
    QueueMax,       \* asyncio.Queue(maxsize=200)
    HistoryMax      \* _MAX_HISTORY = 300

ASSUME BusAssumption == QueueMax \in Nat \ {0} /\ HistoryMax \in Nat \ {0}

VARIABLES
    log,        \* every event published since the process started, oldest first
    subs,       \* the clients whose queue is in _subscribers
    queue,      \* the queue of each client
    backlog,    \* the part of list_history() a client has not been sent yet
    sent,       \* the events each client has been sent
    stream      \* where each stream() is: "off", "history", "live", "beat",
                \* "ended" (it returned), "gone" (closed from outside)

busVars == <<log, subs, queue, backlog, sent, stream>>

Open == {c \in Client : stream[c] \in {"history", "live", "beat"}}

BusInit ==
    /\ log = <<>>
    /\ subs = {}
    /\ queue = [c \in Client |-> <<>>]
    /\ backlog = [c \in Client |-> <<>>]
    /\ sent = [c \in Client |-> <<>>]
    /\ stream = [c \in Client |-> "off"]

\* deque(maxlen=_MAX_HISTORY)
History == IF Len(log) <= HistoryMax
             THEN log ELSE SubSeq(log, Len(log) - HistoryMax + 1, Len(log))

Event(type, nodes, status) ==
    [seq |-> Len(log) + 1, type |-> type, nodes |-> nodes, status |-> status]

\* A subscriber whose queue is full is dropped, with no word to its stream.
DropEventOnly(e) ==                   \* mutant: the event is dropped instead
    /\ queue' = [c \in Client |-> IF c \in subs /\ Len(queue[c]) < QueueMax
                                    THEN Append(queue[c], e) ELSE queue[c]]
    /\ UNCHANGED subs
Fanout(e) ==
    /\ queue' = [c \in Client |-> IF c \in subs /\ Len(queue[c]) < QueueMax
                                    THEN Append(queue[c], e) ELSE queue[c]]
    /\ subs' = {c \in subs : Len(queue[c]) < QueueMax}

Publish(type, nodes, status) ==
    /\ log' = Append(log, Event(type, nodes, status))
    /\ Fanout(Event(type, nodes, status))
    /\ UNCHANGED <<backlog, sent, stream>>

\* subscribe() and list_history() run before the first yield.
OpenStream(c) ==
    /\ stream[c] = "off"
    /\ stream' = [stream EXCEPT ![c] = "history"]
    /\ subs' = subs \cup {c}
    /\ backlog' = [backlog EXCEPT ![c] = History]
    /\ UNCHANGED <<log, queue, sent>>

SendHistory(c) ==
    /\ stream[c] = "history"
    /\ backlog[c] # <<>>
    /\ sent' = [sent EXCEPT ![c] = Append(@, Head(backlog[c]))]
    /\ backlog' = [backlog EXCEPT ![c] = Tail(@)]
    /\ UNCHANGED <<log, subs, queue, stream>>

\* The snapshot is the record as the file has it now.
SendSnapshot(c) ==
    /\ stream[c] = "history"
    /\ backlog[c] = <<>>
    /\ stream' = [stream EXCEPT ![c] = "live"]
    /\ UNCHANGED <<log, subs, queue, backlog, sent>>

SendEvent(c) ==
    /\ stream[c] = "live"
    /\ queue[c] # <<>>
    /\ sent' = [sent EXCEPT ![c] = Append(@, Head(queue[c]))]
    /\ queue' = [queue EXCEPT ![c] = Tail(@)]
    /\ UNCHANGED <<log, subs, backlog, stream>>

\* No event for _HEARTBEAT_SECONDS: a keep-alive is sent, and only then is the
\* record read.
Heartbeat(c) ==
    /\ stream[c] = "live"
    /\ queue[c] = <<>>
    /\ stream' = [stream EXCEPT ![c] = "beat"]
    /\ UNCHANGED <<log, subs, queue, backlog, sent>>

RunIsOver == Loads /\ ~file.running

KeepBeating(c) ==                     \* mutant: a stream does not end by itself
    /\ stream[c] = "beat"
    /\ stream' = [stream EXCEPT ![c] = "live"]
    /\ UNCHANGED <<log, subs, queue, backlog, sent>>
CheckRunning(c) ==
    /\ stream[c] = "beat"
    /\ IF RunIsOver
         THEN /\ stream' = [stream EXCEPT ![c] = "ended"]
              /\ subs' = subs \ {c}
         ELSE /\ stream' = [stream EXCEPT ![c] = "live"]
              /\ UNCHANGED subs
    /\ UNCHANGED <<log, queue, backlog, sent>>

StreamStep(c) ==
    \/ SendHistory(c)
    \/ SendSnapshot(c)
    \/ SendEvent(c)
    \/ Heartbeat(c)
    \/ CheckRunning(c)

\* The client goes away: the generator's finally clause runs.
Disconnect(c) ==
    /\ c \in Open
    /\ stream' = [stream EXCEPT ![c] = "gone"]
    /\ subs' = subs \ {c}
    /\ UNCHANGED <<log, queue, backlog, sent>>

\* The process dies with everything it had in memory.
ForgetTrace ==
    /\ log' = <<>>
    /\ subs' = {}
    /\ stream' = [c \in Client |-> IF c \in Open THEN "gone" ELSE stream[c]]
    /\ UNCHANGED <<queue, backlog, sent>>

=============================================================================
