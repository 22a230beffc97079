---------------------------- MODULE TraceClient ----------------------------
(***************************************************************************)
(* What the page shows of a run while it runs                              *)
(* (frontend/src/views/rag-workflow: RuntimeTraceStore.ts,                 *)
(* RuntimeTraceService.ts, useWorkflowRun.ts and the handlers of           *)
(* index.vue).  Three things write to the page: the handler that posted    *)
(* the run, which continues after each of its requests; the event stream,  *)
(* which the browser opens again whenever it ends and which then repeats   *)
(* its history; and the answers to requests the user makes in between.     *)
(* None of them looks whether the page has gone on to another run.         *)
(*                                                                         *)
(* Of a run on the server only its progress is kept: that it has begun and *)
(* that it is over, by the events published and the record saved, which    *)
(* RunService shows to agree.  The events of single nodes are left out.  A *)
(* request is answered with what the server had at some moment between     *)
(* question and answer.                                                    *)
(***************************************************************************)
EXTENDS Naturals

CONSTANTS
    Run,            \* run ids
    Failing,        \* the runs whose node fails
    Page,           \* the handler of onMounted, beside those of the runs
    User,           \* a record uploaded by the user
    NoRun,          \* state.runId is ""
    Old,            \* the runs that may have begun before the page was opened
    MaxExtras       \* bound: lost requests, broken connections, and what the user
                    \* does beside running, up to the first crossing

Actor == Run \cup {Page}

ASSUME ClientAssumption ==
    /\ Failing \subseteq Run
    /\ Old \subseteq Run
    /\ Page \notin Run /\ User \notin Run /\ NoRun \notin Run
    /\ Page # User /\ NoRun \notin {Page, User}
    /\ MaxExtras \in Nat

\* The events of a run: run_start and run_end.
Last == 2
Progress == 0 .. Last

VARIABLES
    progress,   \* the server: how many events of each run
    view,       \* traceState: runId, running
    panel,      \* selectedNodeDetail: the run it was read from
    imported,   \* importedRunRecord: its run
    conn,       \* the EventSource and the stream it is connected to
    status,     \* runStatus
    raw,        \* lastRunRaw: the run it shows
    loading,    \* runLoading
    job,        \* where each handler is, and what it has asked for
    asked,      \* the snapshot or node detail the user waits for
    extras,     \* how much of that there has been
    owner,      \* ghost: who has set up the view
    crossed     \* ghost: something was written to a view set up by another

trace == <<view, panel, imported, conn>>
result == <<status, raw, loading>>
asking == <<asked, extras>>
ghosts == <<owner, crossed>>
clientVars == <<progress, trace, result, job, asking, ghosts>>

Verdict(r) == IF r \in Failing THEN "error" ELSE "success"

Closed == [run |-> NoRun, phase |-> "closed", pos |-> 0, hist |-> 0]
Connecting(r) == [run |-> r, phase |-> "connecting", pos |-> 0, hist |-> 0]
Nothing == [what |-> "nothing", of |-> NoRun, from |-> 0, fresh |-> FALSE]
Start(at) == [at |-> at, of |-> NoRun, from |-> 0]

ClientInit ==
    /\ progress \in {f \in [Run -> Progress] : \A r \in Run \ Old : f[r] = 0}
    /\ view = [run |-> NoRun, running |-> FALSE]
    /\ panel = NoRun
    /\ imported = NoRun
    /\ conn = Closed
    /\ status = "idle"
    /\ raw = NoRun
    /\ loading = FALSE
    /\ job = [a \in Actor |->
                IF a = Page THEN Start("listing")
                ELSE IF progress[a] > 0 THEN Start("done") ELSE Start("idle")]
    /\ asked = Nothing
    /\ extras = 0
    /\ owner = NoRun
    /\ crossed = FALSE

Answer(of, from) == {p \in from .. Last : p <= progress[of]}

\* ... where 0 is no record, or no answer.
MaybeAnswer(of, from) == IF of = NoRun THEN {0} ELSE {0} \cup Answer(of, from)

Ask(at, r) == [at |-> at, of |-> r, from |-> IF r \in Run THEN progress[r] ELSE 0]

-----------------------------------------------------------------------------
\* The server.

\* A run that was posted goes on by itself.
AdvanceOn(r) ==                       \* mutant: a run goes on after run_end
    /\ job[r].at \notin {"idle", "ensuring"}
    /\ progress[r] > 0
    /\ progress' = [progress EXCEPT ![r] = @ + 1]
    /\ UNCHANGED <<trace, result, job, asking, ghosts>>
Advance(r) ==
    /\ job[r].at \notin {"idle", "ensuring"}
    /\ progress[r] > 0 /\ progress[r] < Last
    /\ progress' = [progress EXCEPT ![r] = @ + 1]
    /\ UNCHANGED <<trace, result, job, asking, ghosts>>

\* POST /workflows/run arrives.
Accept(r) ==
    /\ job[r].at = "posting"
    /\ progress[r] = 0
    /\ progress' = [progress EXCEPT ![r] = 1]
    /\ UNCHANGED <<trace, result, job, asking, ghosts>>

-----------------------------------------------------------------------------
\* The store.

\* Whoever sets up the view: what was asked for before is no longer for it.
SetUp(by) ==
    /\ owner' = by
    /\ asked' = [asked EXCEPT !.fresh = FALSE]

\* ... or goes on in it, if it is still the one who set it up.
GoOn(a) == crossed' = (crossed \/ owner # a)

\* clear(), setNodeCatalog(), startTracking()
ClearLast(r) ==                       \* mutant: the order of the calls is swapped
    /\ view' = [run |-> r, running |-> FALSE]
    /\ panel' = NoRun
    /\ imported' = NoRun
    /\ conn' = Closed
TrackAnew(r) ==
    /\ view' = [run |-> r, running |-> FALSE]
    /\ panel' = NoRun
    /\ imported' = NoRun
    /\ conn' = Connecting(r)

\* startTracking(): the rest of the state is kept.
Track(r, v) ==
    /\ view' = [v EXCEPT !.run = r]
    /\ imported' = NoRun
    /\ conn' = Connecting(r)

\* importRunJson(), which clears the node detail, and where a node is selected
\* then, its detail from the record.
RecordView(r, p) == [run |-> r, running |-> p < Last]
ImportBesideStream(r, p, detail) ==   \* mutant: the stream is not closed
    /\ view' = RecordView(r, p)
    /\ panel' = detail
    /\ imported' = r
    /\ UNCHANGED conn
Import(r, p, detail) ==
    /\ view' = RecordView(r, p)
    /\ panel' = detail
    /\ imported' = r
    /\ conn' = Closed

\* applySnapshot(): nobody asks whether the snapshot is of the run shown.
Applied(r, p) ==
    IF p = 0 THEN view ELSE [run |-> r, running |-> p < Last]

\* applyEvent()
AfterEvent(i) == [view EXCEPT !.running = i < Last]

\* syncRunStateFromServer(), when there is a record
Synced(r, p) ==
    /\ raw' = r
    /\ status' = IF p < Last THEN "running" ELSE Verdict(r)

-----------------------------------------------------------------------------
\* The event stream.

\* stream() subscribes, and copies the history.
Connect ==
    /\ conn.phase = "connecting"
    /\ conn' = [conn EXCEPT !.phase = "history", !.pos = 0, !.hist = progress[conn.run]]
    /\ UNCHANGED <<progress, view, panel, imported, result, job, asking, ghosts>>

ReceiveEvent ==
    /\ \/ conn.phase = "history" /\ conn.pos < conn.hist
       \/ conn.phase = "live" /\ conn.pos < progress[conn.run]
    /\ view' = AfterEvent(conn.pos + 1)
    /\ conn' = [conn EXCEPT !.pos = @ + 1]
    /\ UNCHANGED <<progress, panel, imported, result, job, asking, ghosts>>

ReceiveSnapshot(p) ==
    /\ conn.phase = "history" /\ conn.pos = conn.hist
    /\ p \in Answer(conn.run, conn.hist)
    /\ view' = Applied(conn.run, p)
    /\ conn' = [conn EXCEPT !.phase = "live", !.hist = 0]
    /\ UNCHANGED <<progress, panel, imported, result, job, asking, ghosts>>

\* The server ends a stream when it finds the run over; the browser connects
\* again after that as after an error.
GiveUp == conn' = Closed              \* mutant: the first error closes the stream
Reconnected == conn' = Connecting(conn.run)
StreamEnds ==
    /\ conn.phase = "live"
    /\ progress[conn.run] = Last
    /\ Reconnected
    /\ UNCHANGED <<progress, view, panel, imported, result, job, asking, ghosts>>

Extra == ~crossed /\ extras < MaxExtras /\ extras' = extras + 1

Break ==
    /\ Extra
    /\ conn.phase \in {"history", "live"}
    /\ Reconnected
    /\ UNCHANGED <<progress, view, panel, imported, result, job, asked, ghosts>>

-----------------------------------------------------------------------------
\* handleRunWorkflow.  The button is disabled while runLoading, which is set
\* only after ensureStoragePersistRemoteResources has returned.  (When that fails,
\* it is as if the button had not been pressed.)

Click(r) ==
    /\ job[r].at = "idle"
    /\ progress[r] = 0
    /\ ~loading
    /\ job' = [job EXCEPT ![r] = Start("ensuring")]
    /\ UNCHANGED <<progress, trace, result, asking, ghosts>>

BeginWithOldResult(r) ==              \* mutant: lastRunRaw is not reset
    /\ job[r].at = "ensuring"
    /\ TrackAnew(r)
    /\ SetUp(r)
    /\ status' = "running"
    /\ loading' = TRUE
    /\ job' = [job EXCEPT ![r] = Start("posting")]
    /\ UNCHANGED <<progress, raw, crossed, extras>>
Begin(r) ==
    /\ job[r].at = "ensuring"
    /\ TrackAnew(r)
    /\ SetUp(r)
    /\ status' = "running"
    /\ raw' = NoRun
    /\ loading' = TRUE
    /\ job' = [job EXCEPT ![r] = Start("posting")]
    /\ UNCHANGED <<progress, crossed, extras>>

\* An input that is no JSON: nothing is posted, the handler goes on.
BeginUnreadable(r) ==
    /\ job[r].at = "ensuring"
    /\ TrackAnew(r)
    /\ SetUp(r)
    /\ status' = "error"
    /\ UNCHANGED <<raw, loading>>
    /\ job' = [job EXCEPT ![r] = Ask("detail", r)]
    /\ UNCHANGED <<progress, crossed, extras>>

PostReturns(r) ==
    /\ job[r].at = "posting"
    /\ progress[r] = Last
    /\ Synced(r, Last)
    /\ GoOn(r)
    /\ loading' = FALSE
    /\ job' = [job EXCEPT ![r] = Start("listing")]
    /\ UNCHANGED <<progress, trace, asking, owner>>

PostLost(r) ==
    /\ Extra
    /\ job[r].at = "posting"
    /\ status' = "error"
    /\ GoOn(r)
    /\ job' = [job EXCEPT ![r] = Ask("recovering", r)]
    /\ UNCHANGED <<progress, trace, raw, loading, asked, owner>>

\* The state is recovered from the record, if there is one.
Recover(r, p) ==
    /\ job[r].at = "recovering"
    /\ p \in MaybeAnswer(r, job[r].from)
    /\ IF p = 0 THEN raw' = NoRun /\ UNCHANGED status ELSE Synced(r, p)
    /\ GoOn(r)
    /\ loading' = FALSE
    /\ job' = [job EXCEPT ![r] = Start("listing")]
    /\ UNCHANGED <<progress, trace, asking, owner>>

\* refreshRunHistory() has returned.
Listed(r) ==
    /\ job[r].at = "listing"
    /\ job' = [job EXCEPT ![r] = Ask("detail", r)]
    /\ UNCHANGED <<progress, trace, result, asking, ghosts>>

\* syncRunStateFromServer(): a run that is over is imported; for another one the
\* snapshot is asked for, of the run the view shows.
DetailOfEnded(r) ==
    /\ job[r].at = "detail"
    /\ progress[r] = Last
    /\ Synced(r, Last)
    /\ Import(r, Last, NoRun)
    /\ SetUp(r)
    /\ GoOn(r)
    /\ job' = [job EXCEPT ![r] = Start("done")]
    /\ UNCHANGED <<progress, loading, extras>>

DetailOfRunning(r, p) ==
    /\ job[r].at = "detail"
    /\ p \in Answer(r, job[r].from) \ {0, Last}
    /\ Synced(r, p)
    /\ GoOn(r)
    /\ job' = [job EXCEPT ![r] = Ask("refreshing", view.run)]
    /\ UNCHANGED <<progress, trace, loading, asking, owner>>

\* There is no record, or the request fails.
DetailFails(r) ==
    /\ job[r].at = "detail"
    /\ \/ progress[r] = 0 /\ UNCHANGED extras
       \/ Extra
    /\ job' = [job EXCEPT ![r] = Ask("closing", view.run)]
    /\ UNCHANGED <<progress, trace, result, asked, ghosts>>

\* refreshSnapshot() and, if the record said that the run goes on, startTracking().
RefreshedAndTracked(r, p) ==
    /\ job[r].at = "refreshing"
    /\ p \in MaybeAnswer(job[r].of, job[r].from)
    /\ Track(r, Applied(job[r].of, p))
    /\ SetUp(r)
    /\ GoOn(r)
    /\ job' = [job EXCEPT ![r] = Start("done")]
    /\ UNCHANGED <<progress, panel, result, extras>>

Refreshed(r, p) ==
    /\ job[r].at = "closing"
    /\ p \in MaybeAnswer(job[r].of, job[r].from)
    /\ view' = Applied(job[r].of, p)
    /\ GoOn(r)
    /\ job' = [job EXCEPT ![r] = Start("done")]
    /\ UNCHANGED <<progress, panel, imported, conn, result, asking, owner>>

-----------------------------------------------------------------------------
\* restoreLatestRunTrace, after the first listing.

Restore(r) ==
    /\ job[Page].at = "listing"
    /\ progress[r] > 0
    /\ view' = [run |-> NoRun, running |-> FALSE]
    /\ panel' = NoRun
    /\ imported' = NoRun
    /\ conn' = Closed
    /\ SetUp(Page)
    /\ crossed' = (crossed \/ owner # NoRun)
    /\ job' = [job EXCEPT ![Page] = Ask("detail", r)]
    /\ UNCHANGED <<progress, result, extras>>

NothingToRestore ==
    /\ job[Page].at \in {"listing", "detail"}
    /\ job' = [job EXCEPT ![Page] = Start("done")]
    /\ UNCHANGED <<progress, trace, result, asking, ghosts>>

RestoreEnded(r) ==
    /\ job[Page].at = "detail" /\ job[Page].of = r
    /\ progress[r] = Last
    /\ Synced(r, Last)
    /\ Import(r, Last, r)
    /\ SetUp(Page)
    /\ GoOn(Page)
    /\ job' = [job EXCEPT ![Page] = Start("done")]
    /\ UNCHANGED <<progress, loading, extras>>

RestoreRunning(r, p) ==
    /\ job[Page].at = "detail" /\ job[Page].of = r
    /\ p \in Answer(r, job[Page].from) \ {0, Last}
    /\ Synced(r, p)
    /\ Track(r, RecordView(r, p))
    /\ panel' = NoRun
    /\ SetUp(Page)
    /\ GoOn(Page)
    /\ job' = [job EXCEPT ![Page] = Ask("refreshing", r)]
    /\ UNCHANGED <<progress, loading, extras>>

RestoreRefreshed(p) ==
    /\ job[Page].at = "refreshing"
    /\ p \in MaybeAnswer(job[Page].of, job[Page].from)
    /\ view' = Applied(job[Page].of, p)
    /\ GoOn(Page)
    /\ job' = [job EXCEPT ![Page] = Ask("selecting", view'.run)]
    /\ UNCHANGED <<progress, panel, imported, conn, result, asking, owner>>

\* The detail of the node selected last.
RestoreSelected(p) ==
    /\ job[Page].at = "selecting"
    /\ p \in MaybeAnswer(job[Page].of, job[Page].from)
    /\ panel' = IF p = 0 THEN NoRun ELSE job[Page].of
    /\ GoOn(Page)
    /\ job' = [job EXCEPT ![Page] = Start("done")]
    /\ UNCHANGED <<progress, view, imported, conn, result, asking, owner>>

-----------------------------------------------------------------------------
\* The user.

Asks(what) ==
    /\ asked = Nothing
    /\ asked' = [what |-> what, of |-> view.run, from |-> progress[view.run],
                 fresh |-> TRUE]

Arrives(what, p) ==
    /\ asked.what = what
    /\ p \in MaybeAnswer(asked.of, asked.from)
    /\ asked' = Nothing
    /\ crossed' = (crossed \/ ~asked.fresh)
    /\ UNCHANGED <<progress, imported, conn, result, job, extras, owner>>

\* The refresh button: refreshSnapshot().
AskSnapshot ==
    /\ Extra
    /\ view.run # NoRun
    /\ Asks("snapshot")
    /\ UNCHANGED <<progress, trace, result, job, ghosts>>

SnapshotArrives(p) ==
    /\ Arrives("snapshot", p)
    /\ view' = Applied(asked.of, p)
    /\ UNCHANGED panel

\* fetchNodeDetail(): from the record imported, or from the server.
SelectNode ==
    /\ Extra
    /\ view.run # NoRun
    /\ IF imported # NoRun THEN panel' = imported /\ UNCHANGED asked
                           ELSE Asks("detail") /\ UNCHANGED panel
    /\ UNCHANGED <<progress, view, imported, conn, result, job, ghosts>>

NodeDetailArrives(p) ==
    /\ Arrives("detail", p)
    /\ panel' = IF p = 0 THEN NoRun ELSE asked.of
    /\ UNCHANGED view

\* onTraceImportJson: a file with the record of a run, as it once was.
Upload(r, p) ==
    /\ Extra
    /\ p \in 1 .. progress[r]
    /\ Import(r, p, r)
    /\ Synced(r, p)
    /\ SetUp(User)
    /\ UNCHANGED <<progress, loading, job, crossed>>

-----------------------------------------------------------------------------
StreamStep ==
    \/ Connect
    \/ ReceiveEvent
    \/ \E p \in Progress : ReceiveSnapshot(p)
    \/ StreamEnds

JobStep(r) ==
    \/ Begin(r)
    \/ BeginUnreadable(r)
    \/ PostReturns(r)
    \/ \E p \in Progress : Recover(r, p)
    \/ Listed(r)
    \/ DetailOfEnded(r)
    \/ \E p \in Progress : DetailOfRunning(r, p)
    \/ DetailFails(r)
    \/ \E p \in Progress : RefreshedAndTracked(r, p)
    \/ \E p \in Progress : Refreshed(r, p)

PageStep(r) ==
    \/ Restore(r)
    \/ NothingToRestore
    \/ RestoreEnded(r)
    \/ \E p \in Progress : RestoreRunning(r, p)
    \/ \E p \in Progress : RestoreRefreshed(p) \/ RestoreSelected(p)

ServerStep(r) == Advance(r) \/ Accept(r)

ClientNext ==
    \/ \E r \in Run : ServerStep(r)
    \/ StreamStep
    \/ Break
    \/ \E r \in Run : Click(r) \/ PostLost(r)
    \/ \E r \in Run : JobStep(r) \/ PageStep(r)
    \/ AskSnapshot
    \/ \E p \in Progress : SnapshotArrives(p)
    \/ SelectNode
    \/ \E p \in Progress : NodeDetailArrives(p)
    \/ \E r \in Run, p \in Progress : Upload(r, p)

\* The browser connects again and delivers what it is sent.
ClientSpec ==
    /\ ClientInit
    /\ [][ClientNext]_clientVars
    /\ WF_clientVars(StreamStep)

\* ... requests are answered and runs end.  No handler and no run goes on for
\* ever, so that one condition serves them all.
SettlingSpec ==
    /\ ClientSpec
    /\ WF_clientVars(\E r \in Run : ServerStep(r) \/ JobStep(r) \/ PageStep(r))

-----------------------------------------------------------------------------
\* Properties.

ClientTypeOK ==
    /\ progress \in [Run -> Progress]
    /\ view \in [run : Run \cup {NoRun}, running : BOOLEAN]
    /\ panel \in Run \cup {NoRun}
    /\ imported \in Run \cup {NoRun}
    /\ conn \in [run : Run \cup {NoRun},
                 phase : {"closed", "connecting", "history", "live"},
                 pos : Progress, hist : Progress]
    /\ status \in {"idle", "running", "success", "error"}
    /\ raw \in Run \cup {NoRun}
    /\ loading \in BOOLEAN
    /\ job \in [Actor -> [at : {"idle", "ensuring", "posting", "recovering", "listing",
                                "detail", "refreshing", "closing", "selecting", "done"},
                          of : Run \cup {NoRun}, from : Progress]]
    /\ asked \in [what : {"nothing", "snapshot", "detail"}, of : Run \cup {NoRun},
                  from : Progress, fresh : BOOLEAN]
    /\ extras \in 0 .. MaxExtras
    /\ owner \in Actor \cup {User, NoRun}
    /\ crossed \in BOOLEAN

\* A record that has been imported stands alone: no stream writes into the view
\* it fills, and node details are read from it (importRunJson, startTracking).
ImportedStandsAlone == imported # NoRun => conn.phase = "closed"

\* Unless something is written to a view another has set up, the view, the
\* stream and the node detail are of one run, and what a handler has imported
\* stays as it is (handleRunWorkflow, restoreLatestRunTrace).
OneRunIsShown ==
    ~crossed =>
        /\ conn.phase # "closed" => conn.run = view.run
        /\ panel \in {NoRun, view.run}
        /\ imported # NoRun /\ owner # User => view = RecordView(imported, Last)

\* ... and no run is left unwatched: its record has been imported, and no stream
\* writes into what it fills, or its stream is followed, whatever requests were
\* lost on the way to it.
ShownRunIsWatched ==
    /\ ImportedStandsAlone
    /\ ~crossed /\ view.run # NoRun => imported = view.run \/ conn.run = view.run

\* ... and the result below the canvas is of the run traced beside it, and says
\* success only when that run has succeeded (syncRunStateFromServer).
ResultFitsTrace ==
    ~crossed /\ status \in {"running", "success"} =>
        /\ raw \in {NoRun, view.run}
        /\ status = "success" =>
             raw # NoRun /\ progress[raw] = Last /\ raw \notin Failing

\* However often the stream breaks: of a run that is over and followed by its
\* stream, the page shows at last that it is over.
EndIsShown ==
    \A r \in Run :
        (progress[r] = Last /\ conn.run = r)
            ~> (~view.running \/ view.run # r \/ owner = User)

\* The state of the last run follows the record on the server (comment of
\* syncRunStateFromServer): it does not say for ever that the run goes on.
StatusSettles == status = "running" ~> status # "running"

=============================================================================
