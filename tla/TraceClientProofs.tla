-------------------------- MODULE TraceClientProofs --------------------------
(***************************************************************************)
(* What the page shows of its runs, for any number of runs, whichever of   *)
(* them had begun before it was opened, and however often requests are     *)
(* lost, streams break and the user refreshes, selects and uploads: until  *)
(* something is written to a view that another has set up, the page shows  *)
(* one run, watches it, and says of it what is so.                         *)
(***************************************************************************)
EXTENDS TraceClient, TLAPS

-----------------------------------------------------------------------------
\* Types.  A stream that is not closed is that of a run.

ConnInv == conn.phase # "closed" => conn.run \in Run

TypeInv == ClientTypeOK /\ ConnInv

Ats == {"idle", "ensuring", "posting", "recovering", "listing", "detail", "refreshing",
        "closing", "selecting", "done"}
Jobs == [at : Ats, of : Run \cup {NoRun}, from : Progress]
Conns == [run : Run \cup {NoRun}, phase : {"closed", "connecting", "history", "live"},
          pos : Progress, hist : Progress]
Views == [run : Run \cup {NoRun}, running : BOOLEAN]
Questions == [what : {"nothing", "snapshot", "detail"}, of : Run \cup {NoRun},
              from : Progress, fresh : BOOLEAN]

LEMMA Constructors ==
    /\ Closed \in Conns /\ Closed.phase = "closed" /\ Closed.run = NoRun
    /\ \A r \in Run : Connecting(r) \in Conns /\ Connecting(r).run = r
    /\ Nothing \in Questions /\ ~Nothing.fresh
    /\ \A at \in Ats : Start(at) \in Jobs /\ Start(at).at = at
    /\ \A r \in Run, p \in Progress : RecordView(r, p) \in Views /\ RecordView(r, p).run = r
BY DEF Closed, Connecting, Nothing, Start, RecordView, Conns, Questions, Jobs, Ats, Views,
       Progress, Last

LEMMA TypeParts ==
    ASSUME TypeInv
    PROVE  /\ progress \in [Run -> Progress]
           /\ view \in Views /\ conn \in Conns /\ asked \in Questions
           /\ job \in [Actor -> Jobs]
           /\ panel \in Run \cup {NoRun} /\ imported \in Run \cup {NoRun}
           /\ raw \in Run \cup {NoRun}
           /\ status \in {"idle", "running", "success", "error"} /\ loading \in BOOLEAN
           /\ extras \in 0 .. MaxExtras /\ crossed \in BOOLEAN
           /\ owner \in Actor \cup {User, NoRun}
BY DEF TypeInv, ClientTypeOK, Views, Conns, Questions, Jobs, Ats

LEMMA AskTyping ==
    ASSUME TypeInv, NEW at \in Ats, NEW r \in Run \cup {NoRun}
    PROVE  Ask(at, r) \in Jobs /\ Ask(at, r).at = at /\ Ask(at, r).of = r
<1>1. (IF r \in Run THEN progress[r] ELSE 0) \in Progress
  BY TypeParts DEF Progress, Last
<1>2. QED
  BY <1>1 DEF Ask, Jobs

LEMMA AnswerTyping ==
    ASSUME TypeInv, NEW a, NEW from \in Progress
    PROVE  /\ \A p \in Answer(a, from) : p \in Progress /\ from <= p /\ p <= progress[a]
           /\ \A p \in MaybeAnswer(a, from) :
                /\ p \in Progress
                /\ p # 0 => a # NoRun /\ from <= p /\ p <= progress[a]
BY DEF Answer, MaybeAnswer, Progress, Last

LEMMA AppliedTyping ==
    ASSUME TypeInv, NEW a \in Run \cup {NoRun}, NEW p
    PROVE  /\ Applied(a, p) \in Views
           /\ Applied(a, p) = view \/ (Applied(a, p).run = a /\ p # 0)
BY TypeParts DEF Applied, Views

\* A step that takes each part to a value of its type.
LEMMA TypedStep ==
    ASSUME progress' \in [Run -> Progress], view' \in Views, conn' \in Conns,
           asked' \in Questions, job' \in [Actor -> Jobs],
           panel' \in Run \cup {NoRun}, imported' \in Run \cup {NoRun},
           raw' \in Run \cup {NoRun}, status' \in {"idle", "running", "success", "error"},
           loading' \in BOOLEAN, extras' \in 0 .. MaxExtras, crossed' \in BOOLEAN,
           owner' \in Actor \cup {User, NoRun},
           conn'.phase # "closed" => conn'.run \in Run
    PROVE  TypeInv'
BY DEF TypeInv, ClientTypeOK, ConnInv, Views, Conns, Questions, Jobs, Ats

LEMMA ExtraTyping ==
    ASSUME TypeInv, Extra
    PROVE  extras' \in 0 .. MaxExtras /\ ~crossed
BY ClientAssumption, TypeParts DEF Extra

LEMMA SyncedTyping ==
    ASSUME NEW r \in Run, NEW p, Synced(r, p)
    PROVE  /\ raw' = r
           /\ status' \in {"running", "success", "error"}
           /\ status' = "success" => ~(p < Last) /\ r \notin Failing
BY DEF Synced, Verdict

\* The steps of the server and of the stream.
LEMMA StreamTyping ==
    ASSUME TypeInv,
           \/ \E r \in Run : ServerStep(r)
           \/ StreamStep \/ Break
    PROVE  TypeInv'
<1> USE DEF trace, result, asking, ghosts
<1>1. /\ progress \in [Run -> Progress] /\ view \in Views /\ conn \in Conns
      /\ job \in [Actor -> Jobs]
      /\ conn.phase # "closed" => conn.run \in Run
  BY TypeParts DEF TypeInv, ConnInv
<1>2. ASSUME NEW r \in Run, Advance(r) \/ Accept(r)
      PROVE  TypeInv'
  <2>1. /\ progress' \in [Run -> Progress]
        /\ UNCHANGED <<view, panel, imported, conn, status, raw, loading, job, asked, extras,
                       owner, crossed>>
    BY <1>1, <1>2 DEF Advance, Accept, Progress, Last
  <2>2. QED
    BY <1>1, <2>1, TypeParts, TypedStep
<1>3. ASSUME conn' \in Conns, conn'.phase # "closed" => conn'.run \in Run, view' \in Views,
             UNCHANGED <<progress, panel, imported, status, raw, loading, job, asked,
                         owner, crossed>>,
             extras' \in 0 .. MaxExtras
      PROVE  TypeInv'
  BY <1>1, <1>3, TypeParts, TypedStep
<1>4. CASE Connect
  <2>1. conn.run \in Run
    BY <1>1, <1>4 DEF Connect
  <2>2. conn' \in Conns /\ conn'.run = conn.run
    <3>1. conn' = [conn EXCEPT !.phase = "history", !.pos = 0, !.hist = progress[conn.run]]
      BY <1>4 DEF Connect
    <3>2. progress[conn.run] \in Progress /\ 0 \in Progress
      BY <1>1, <2>1 DEF Progress, Last
    <3>3. QED
      BY <1>1, <3>1, <3>2 DEF Conns
  <2>3. UNCHANGED <<progress, panel, imported, status, raw, loading, job,
                   asked, owner, crossed, extras>> /\ view' = view
    BY <1>4 DEF Connect
  <2>4. QED
    BY <1>1, <1>3, <2>1, <2>2, <2>3, TypeParts
<1>5. CASE ReceiveEvent
  <2>1. conn.phase \in {"history", "live"} /\ conn.run \in Run
    BY <1>1, <1>5 DEF ReceiveEvent
  <2>2. conn.pos + 1 \in Progress
    BY <1>1, <1>5, <2>1 DEF ReceiveEvent, Conns, Progress, Last
  <2>3. conn' \in Conns /\ conn'.run = conn.run
    <3>1. conn' = [conn EXCEPT !.pos = conn.pos + 1]
      BY <1>5 DEF ReceiveEvent
    <3>2. QED
      BY <1>1, <2>2, <3>1 DEF Conns
  <2>4. view' \in Views
    <3>1. view' = [view EXCEPT !.running = conn.pos + 1 < Last]
      BY <1>5 DEF ReceiveEvent, AfterEvent
    <3>2. (conn.pos + 1 < Last) \in BOOLEAN
      OBVIOUS
    <3>3. QED
      BY <1>1, <3>1, <3>2, Zenon DEF Views
  <2>5. UNCHANGED <<progress, panel, imported, status, raw, loading, job,
                   asked, owner, crossed, extras>>
    BY <1>5 DEF ReceiveEvent
  <2>6. QED
    BY <1>3, <2>1, <2>3, <2>4, <2>5, TypeParts
<1>6. ASSUME NEW p \in Progress, ReceiveSnapshot(p)
      PROVE  TypeInv'
  <2>1. conn.run \in Run
    BY <1>1, <1>6 DEF ReceiveSnapshot
  <2>2. conn' \in Conns /\ conn'.run = conn.run
    <3>1. conn' = [conn EXCEPT !.phase = "live", !.hist = 0]
      BY <1>6 DEF ReceiveSnapshot
    <3>2. 0 \in Progress
      BY DEF Progress, Last
    <3>3. QED
      BY <1>1, <3>1, <3>2 DEF Conns
  <2>3. view' \in Views
    BY <1>6, <2>1, AppliedTyping DEF ReceiveSnapshot
  <2>4. UNCHANGED <<progress, panel, imported, status, raw, loading, job,
                   asked, owner, crossed, extras>>
    BY <1>6 DEF ReceiveSnapshot
  <2>5. QED
    BY <1>3, <2>1, <2>2, <2>3, <2>4, TypeParts
<1>7. CASE StreamEnds \/ Break
  <2>1. conn.run \in Run /\ conn' = Connecting(conn.run)
    BY <1>1, <1>7 DEF StreamEnds, Break, Reconnected
  <2>2. extras' \in 0 .. MaxExtras
    BY <1>7, TypeParts, ExtraTyping DEF StreamEnds, Break
  <2>3. QED
    BY <1>1, <1>3, <1>7, <2>1, <2>2, Constructors DEF StreamEnds, Break
<1>8. QED
  BY <1>2, <1>4, <1>5, <1>6, <1>7 DEF ServerStep, StreamStep

\* The steps of a run's handler.
LEMMA JobTyping ==
    ASSUME TypeInv, NEW r \in Run, Click(r) \/ PostLost(r) \/ JobStep(r)
    PROVE  TypeInv'
<1> USE DEF trace, result, asking, ghosts
<1>1. /\ progress \in [Run -> Progress] /\ view \in Views /\ conn \in Conns
      /\ job \in [Actor -> Jobs] /\ asked \in Questions
      /\ conn.phase # "closed" => conn.run \in Run
      /\ r \in Actor /\ job[r] \in Jobs
  BY TypeParts DEF TypeInv, ConnInv, Actor
<1>2. /\ job[r].of \in Run \cup {NoRun} /\ job[r].from \in Progress
      /\ view.run \in Run \cup {NoRun}
      /\ [asked EXCEPT !.fresh = FALSE] \in Questions
  BY <1>1 DEF Jobs, Views, Questions
<1>3. ASSUME NEW j \in Jobs, job' = [job EXCEPT ![r] = j],
             UNCHANGED <<progress, view, panel, imported, conn, asked>>,
             raw' \in Run \cup {NoRun}, status' \in {"idle", "running", "success", "error"},
             loading' \in BOOLEAN, extras' \in 0 .. MaxExtras,
             owner' = owner, crossed' \in BOOLEAN
      PROVE  TypeInv'
  BY <1>1, <1>3, TypeParts, TypedStep
<1>4. ASSUME NEW at \in Ats, NEW s \in Run \cup {NoRun}
      PROVE  Ask(at, s) \in Jobs /\ Start(at) \in Jobs
  BY <1>4, AskTyping, Constructors
<1>5. CASE Click(r) \/ PostLost(r) \/ Listed(r) \/ DetailFails(r)
  <2>1. /\ UNCHANGED <<progress, view, panel, imported, conn, raw, loading, asked, owner>>
        /\ status' \in {status, "error"}
        /\ \E j \in {Start("ensuring"), Ask("recovering", r), Ask("detail", r),
                     Ask("closing", view.run)} : job' = [job EXCEPT ![r] = j]
        /\ crossed' \in {crossed, TRUE, FALSE}
    BY <1>5 DEF Click, PostLost, Listed, DetailFails, GoOn
  <2>2. extras' \in 0 .. MaxExtras
    BY <1>5, TypeParts, ExtraTyping DEF Click, PostLost, Listed, DetailFails
  <2>3. /\ Start("ensuring") \in Jobs /\ Ask("recovering", r) \in Jobs
        /\ Ask("detail", r) \in Jobs /\ Ask("closing", view.run) \in Jobs
    BY <1>2, <1>4 DEF Ats
  <2>4. QED
    BY <1>3, <2>1, <2>2, <2>3, TypeParts
<1>6. ASSUME PostReturns(r) \/ \E p \in Progress : Recover(r, p) \/ DetailOfRunning(r, p)
      PROVE  TypeInv'
  <2>1. /\ UNCHANGED <<progress, view, panel, imported, conn, asked, extras, owner>>
        /\ \E j \in {Start("listing"), Ask("refreshing", view.run)} :
             job' = [job EXCEPT ![r] = j]
        /\ crossed' \in BOOLEAN
        /\ loading' \in {loading, FALSE}
    BY <1>6 DEF PostReturns, Recover, DetailOfRunning, GoOn
  <2>2. (\E p : Synced(r, p)) \/ (raw' = NoRun /\ status' = status)
    BY <1>6 DEF PostReturns, Recover, DetailOfRunning
  <2>3. raw' \in Run \cup {NoRun} /\ status' \in {"idle", "running", "success", "error"}
    BY <2>2, SyncedTyping, TypeParts
  <2>4. Start("listing") \in Jobs /\ Ask("refreshing", view.run) \in Jobs
    BY <1>2, <1>4 DEF Ats
  <2>5. QED
    BY <1>3, <2>1, <2>3, <2>4, TypeParts
<1>7. ASSUME NEW j \in Jobs, job' = [job EXCEPT ![r] = j],
             view' \in Views, conn' \in Conns, conn'.phase # "closed" => conn'.run \in Run,
             UNCHANGED <<progress, extras>>,
             panel' \in Run \cup {NoRun}, imported' \in Run \cup {NoRun},
             raw' \in Run \cup {NoRun}, status' \in {"idle", "running", "success", "error"},
             loading' \in BOOLEAN, crossed' \in BOOLEAN,
             asked' \in {asked, [asked EXCEPT !.fresh = FALSE]}, owner' \in {owner, r}
      PROVE  TypeInv'
  BY <1>1, <1>2, <1>7, TypeParts, TypedStep
<1>8. CASE Begin(r) \/ BeginUnreadable(r)
  <2>1. /\ \E j \in {Start("posting"), Ask("detail", r)} : job' = [job EXCEPT ![r] = j]
        /\ view' = [run |-> r, running |-> FALSE]
        /\ panel' = NoRun /\ imported' = NoRun /\ conn' = Connecting(r)
        /\ UNCHANGED <<progress, extras, crossed>>
        /\ raw' \in {raw, NoRun} /\ status' \in {"running", "error"}
        /\ loading' \in {loading, TRUE}
        /\ asked' = [asked EXCEPT !.fresh = FALSE] /\ owner' = r
    BY <1>8 DEF Begin, BeginUnreadable, TrackAnew, SetUp
  <2>2. Start("posting") \in Jobs /\ Ask("detail", r) \in Jobs
    BY <1>4 DEF Ats
  <2>3. view' \in Views /\ conn' \in Conns /\ conn'.run = r
    BY <2>1, Constructors DEF Views
  <2>4. QED
    BY <1>7, <2>1, <2>2, <2>3, TypeParts
<1>9. CASE DetailOfEnded(r)
  <2>1. /\ job' = [job EXCEPT ![r] = Start("done")]
        /\ view' = RecordView(r, Last)
        /\ panel' = NoRun /\ imported' = r /\ conn' = Closed
        /\ Synced(r, Last) /\ crossed' \in BOOLEAN
        /\ UNCHANGED <<progress, extras, loading>>
        /\ asked' = [asked EXCEPT !.fresh = FALSE] /\ owner' = r
    BY <1>9 DEF DetailOfEnded, Import, SetUp, GoOn
  <2>2. Start("done") \in Jobs
    BY <1>4 DEF Ats
  <2>3. view' \in Views /\ conn' \in Conns /\ conn'.phase = "closed"
    BY <2>1, Constructors DEF Progress, Last
  <2>4. QED
    BY <1>7, <2>1, <2>2, <2>3, SyncedTyping, TypeParts
<1>10. ASSUME NEW p \in Progress, RefreshedAndTracked(r, p)
       PROVE  TypeInv'
  <2>1. /\ job' = [job EXCEPT ![r] = Start("done")]
        /\ view' = [Applied(job[r].of, p) EXCEPT !.run = r]
        /\ imported' = NoRun /\ conn' = Connecting(r)
        /\ crossed' \in BOOLEAN
        /\ UNCHANGED <<progress, panel, status, raw, loading, extras>>
        /\ asked' = [asked EXCEPT !.fresh = FALSE] /\ owner' = r
    BY <1>10 DEF RefreshedAndTracked, Track, SetUp, GoOn
  <2>2. Applied(job[r].of, p) \in Views
    BY <1>2, AppliedTyping
  <2>3. Start("done") \in Jobs
    BY <1>4 DEF Ats
  <2>4. view' \in Views
    BY <2>1, <2>2 DEF Views
  <2>5. conn' \in Conns /\ conn'.run = r
    BY <2>1, Constructors
  <2>6. QED
    BY <1>7, <2>1, <2>3, <2>4, <2>5, TypeParts
<1>11. ASSUME NEW p \in Progress, Refreshed(r, p)
       PROVE  TypeInv'
  <2>1. /\ job' = [job EXCEPT ![r] = Start("done")]
        /\ view' = Applied(job[r].of, p)
        /\ crossed' \in BOOLEAN
        /\ UNCHANGED <<progress, panel, imported, conn, status, raw, loading, asked, extras, owner>>
    BY <1>11 DEF Refreshed, GoOn
  <2>2. Applied(job[r].of, p) \in Views
    BY <1>2, AppliedTyping
  <2>3. Start("done") \in Jobs
    BY <1>4 DEF Ats
  <2>4. QED
    BY <1>1, <1>7, <2>1, <2>2, <2>3, TypeParts
<1>12. QED
  BY <1>5, <1>6, <1>8, <1>9, <1>10, <1>11 DEF JobStep

\* The steps of the page's handler.
LEMMA PageTyping ==
    ASSUME TypeInv, NEW r \in Run, PageStep(r)
    PROVE  TypeInv'
<1> USE DEF trace, result, asking, ghosts
<1>1. /\ view \in Views /\ conn \in Conns /\ job \in [Actor -> Jobs] /\ asked \in Questions
      /\ Page \in Actor /\ job[Page] \in Jobs
      /\ conn.phase # "closed" => conn.run \in Run
  BY TypeParts DEF TypeInv, ConnInv, Actor
<1>2. /\ job[Page].of \in Run \cup {NoRun} /\ job[Page].from \in Progress
      /\ [asked EXCEPT !.fresh = FALSE] \in Questions
  BY <1>1 DEF Jobs, Questions
<1>3. ASSUME NEW at \in Ats, NEW s \in Run \cup {NoRun}
      PROVE  Ask(at, s) \in Jobs /\ Start(at) \in Jobs
  BY <1>3, AskTyping, Constructors
<1>4. ASSUME NEW j \in Jobs, job' = [job EXCEPT ![Page] = j],
             view' \in Views, conn' \in Conns, conn'.phase # "closed" => conn'.run \in Run,
             UNCHANGED <<progress, extras, loading>>,
             panel' \in Run \cup {NoRun}, imported' \in Run \cup {NoRun},
             raw' \in Run \cup {NoRun}, status' \in {"idle", "running", "success", "error"},
             crossed' \in BOOLEAN,
             asked' \in {asked, [asked EXCEPT !.fresh = FALSE]}, owner' \in {owner, Page}
      PROVE  TypeInv'
  BY <1>1, <1>2, <1>4, TypeParts, TypedStep
<1>5. CASE Restore(r)
  <2>1. /\ job' = [job EXCEPT ![Page] = Ask("detail", r)]
        /\ view' = [run |-> NoRun, running |-> FALSE]
        /\ panel' = NoRun /\ imported' = NoRun /\ conn' = Closed
        /\ crossed' \in BOOLEAN /\ UNCHANGED <<progress, extras, status, raw, loading>>
        /\ asked' = [asked EXCEPT !.fresh = FALSE] /\ owner' = Page
    BY <1>5 DEF Restore, SetUp
  <2>2. Ask("detail", r) \in Jobs
    BY <1>3 DEF Ats
  <2>3. view' \in Views /\ conn' \in Conns /\ conn'.phase = "closed"
    BY <2>1, Constructors DEF Views
  <2>4. QED
    BY <1>4, <2>1, <2>2, <2>3, TypeParts
<1>6. CASE NothingToRestore
  <2>1. /\ job' = [job EXCEPT ![Page] = Start("done")]
        /\ UNCHANGED <<progress, view, panel, imported, conn, status, raw, loading, asked,
                       extras, owner, crossed>>
    BY <1>6 DEF NothingToRestore
  <2>2. Start("done") \in Jobs
    BY <1>3 DEF Ats
  <2>3. QED
    BY <1>1, <1>4, <2>1, <2>2, TypeParts
<1>7. CASE RestoreEnded(r)
  <2>1. /\ job' = [job EXCEPT ![Page] = Start("done")]
        /\ view' = RecordView(r, Last)
        /\ panel' = r /\ imported' = r /\ conn' = Closed
        /\ Synced(r, Last) /\ crossed' \in BOOLEAN /\ UNCHANGED <<progress, extras, loading>>
        /\ asked' = [asked EXCEPT !.fresh = FALSE] /\ owner' = Page
    BY <1>7 DEF RestoreEnded, Import, SetUp, GoOn
  <2>2. Start("done") \in Jobs
    BY <1>3 DEF Ats
  <2>3. view' \in Views /\ conn' \in Conns /\ conn'.phase = "closed"
    BY <2>1, Constructors DEF Progress, Last
  <2>4. QED
    BY <1>4, <2>1, <2>2, <2>3, SyncedTyping, TypeParts
<1>8. ASSUME NEW p \in Progress, RestoreRunning(r, p)
      PROVE  TypeInv'
  <2>1. /\ job' = [job EXCEPT ![Page] = Ask("refreshing", r)]
        /\ view' = [RecordView(r, p) EXCEPT !.run = r]
        /\ panel' = NoRun /\ imported' = NoRun /\ conn' = Connecting(r)
        /\ Synced(r, p) /\ crossed' \in BOOLEAN /\ UNCHANGED <<progress, extras, loading>>
        /\ asked' = [asked EXCEPT !.fresh = FALSE] /\ owner' = Page
    BY <1>8 DEF RestoreRunning, Track, SetUp, GoOn
  <2>2. Ask("refreshing", r) \in Jobs
    BY <1>3 DEF Ats
  <2>3. RecordView(r, p) \in Views
    BY Constructors
  <2>4. view' \in Views
    BY <2>1, <2>3 DEF Views
  <2>5. conn' \in Conns /\ conn'.run = r
    BY <2>1, Constructors
  <2>6. QED
    BY <1>4, <2>1, <2>2, <2>4, <2>5, SyncedTyping, TypeParts
<1>9. ASSUME NEW p \in Progress, RestoreRefreshed(p)
      PROVE  TypeInv'
  <2>1. /\ job' = [job EXCEPT ![Page] = Ask("selecting", view'.run)]
        /\ view' = Applied(job[Page].of, p)
        /\ crossed' \in BOOLEAN
        /\ UNCHANGED <<progress, panel, imported, conn, status, raw, loading, asked, extras,
                       owner>>
    BY <1>9 DEF RestoreRefreshed, GoOn
  <2>2. view' \in Views
    BY <1>2, <2>1, AppliedTyping
  <2>3. view'.run \in Run \cup {NoRun}
    BY <2>2 DEF Views
  <2>4. PICK s \in Run \cup {NoRun} : s = view'.run
    BY <2>3
  <2>5. Ask("selecting", s) \in Jobs
    BY <1>3 DEF Ats
  <2>6. QED
    BY <1>1, <1>4, <2>1, <2>2, <2>4, <2>5, TypeParts
<1>10. ASSUME NEW p \in Progress, RestoreSelected(p)
       PROVE  TypeInv'
  <2>1. /\ job' = [job EXCEPT ![Page] = Start("done")]
        /\ panel' \in {NoRun, job[Page].of}
        /\ crossed' \in BOOLEAN
        /\ UNCHANGED <<progress, view, imported, conn, status, raw, loading, asked, extras,
                       owner>>
    BY <1>10 DEF RestoreSelected, GoOn
  <2>2. Start("done") \in Jobs
    BY <1>3 DEF Ats
  <2>3. QED
    BY <1>1, <1>2, <1>4, <2>1, <2>2, TypeParts
<1>11. QED
  BY <1>5, <1>6, <1>7, <1>8, <1>9, <1>10 DEF PageStep

\* The steps of the user.
LEMMA UserTyping ==
    ASSUME TypeInv,
           \/ AskSnapshot \/ SelectNode
           \/ \E p \in Progress : SnapshotArrives(p) \/ NodeDetailArrives(p)
           \/ \E r \in Run, p \in Progress : Upload(r, p)
    PROVE  TypeInv'
<1> USE DEF trace, result, asking, ghosts
<1>1. /\ progress \in [Run -> Progress]
      /\ view \in Views /\ conn \in Conns /\ job \in [Actor -> Jobs] /\ asked \in Questions
      /\ asked.of \in Run \cup {NoRun}
      /\ conn.phase # "closed" => conn.run \in Run
  BY TypeParts DEF TypeInv, ConnInv, Questions
<1>2. ASSUME UNCHANGED <<progress, conn, job>>,
             conn'.phase # "closed" => conn'.run \in Run,
             view' \in Views, asked' \in Questions, panel' \in Run \cup {NoRun},
             UNCHANGED <<imported, status, raw, loading, owner>>,
             extras' \in 0 .. MaxExtras, crossed' \in BOOLEAN
      PROVE  TypeInv'
  BY <1>1, <1>2, TypeParts, TypedStep
<1>3. CASE AskSnapshot \/ SelectNode
  <2>1. /\ Extra
        /\ view.run # NoRun
        /\ UNCHANGED <<progress, view, imported, conn, status, raw, loading, job, owner,
                       crossed>>
        /\ panel' \in {panel, imported}
        /\ \/ asked' = asked
           \/ \E what \in {"snapshot", "detail"} : Asks(what)
    BY <1>3 DEF AskSnapshot, SelectNode
  <2>2. extras' \in 0 .. MaxExtras
    BY <2>1, ExtraTyping
  <2>3. view.run \in Run
    BY <1>1, <2>1 DEF Views
  <2>4. asked' \in Questions
    <3>1. CASE asked' = asked
      BY <1>1, <3>1
    <3>2. ASSUME NEW what \in {"snapshot", "detail"}, Asks(what)
          PROVE  asked' \in Questions
      <4>1. asked' = [what |-> what, of |-> view.run, from |-> progress[view.run],
                      fresh |-> TRUE]
        BY <3>2 DEF Asks
      <4>2. progress[view.run] \in Progress
        BY <1>1, <2>3
      <4>3. QED
        BY <2>3, <4>1, <4>2 DEF Questions
    <3>3. QED
      BY <2>1, <3>1, <3>2
  <2>5. QED
    BY <1>1, <1>2, <2>1, <2>2, <2>4, TypeParts
<1>4. ASSUME NEW p \in Progress, SnapshotArrives(p) \/ NodeDetailArrives(p)
      PROVE  TypeInv'
  <2>1. /\ UNCHANGED <<progress, imported, conn, status, raw, loading, job, extras, owner>>
        /\ asked' = Nothing /\ crossed' \in BOOLEAN
        /\ panel' \in {panel, NoRun, asked.of}
        /\ view' \in {view, Applied(asked.of, p)}
    BY <1>4 DEF SnapshotArrives, NodeDetailArrives, Arrives
  <2>2. Applied(asked.of, p) \in Views
    BY <1>1, AppliedTyping
  <2>3. QED
    BY <1>1, <1>2, <2>1, <2>2, Constructors, TypeParts
<1>5. ASSUME NEW r \in Run, NEW p \in Progress, Upload(r, p)
      PROVE  TypeInv'
  <2>1. /\ Extra /\ Synced(r, p)
        /\ view' = RecordView(r, p) /\ panel' = r /\ imported' = r /\ conn' = Closed
        /\ asked' = [asked EXCEPT !.fresh = FALSE] /\ owner' = User
        /\ UNCHANGED <<progress, loading, job, crossed>>
    BY <1>5 DEF Upload, Import, SetUp
  <2>2. extras' \in 0 .. MaxExtras
    BY <2>1, ExtraTyping
  <2>3. /\ view' \in Views /\ conn' \in Conns /\ conn'.phase = "closed"
        /\ asked' \in Questions
    BY <1>1, <2>1, Constructors DEF Questions
  <2>4. QED
    BY <1>1, <2>1, <2>2, <2>3, SyncedTyping, TypeParts, TypedStep
<1>6. QED
  BY <1>3, <1>4, <1>5

LEMMA ClientTyped ==
    TypeInv /\ [ClientNext]_clientVars => TypeInv'
<1> SUFFICES ASSUME TypeInv, [ClientNext]_clientVars PROVE TypeInv'
  OBVIOUS
<1>1. CASE UNCHANGED clientVars
  BY <1>1 DEF clientVars, trace, result, asking, ghosts, TypeInv, ClientTypeOK, ConnInv
<1>2. CASE ClientNext
  BY <1>2, StreamTyping, JobTyping, PageTyping, UserTyping DEF ClientNext
<1>3. QED
  BY <1>1, <1>2

LEMMA ClientStartsTyped == ClientInit => TypeInv
<1> SUFFICES ASSUME ClientInit PROVE TypeInv
  OBVIOUS
<1>1. /\ Closed \in Conns /\ Closed.phase = "closed" /\ Nothing \in Questions
      /\ \A at \in {"listing", "done", "idle"} : Start(at) \in Jobs
  BY Constructors DEF Ats
<1>2. /\ conn = Closed /\ asked = Nothing /\ progress \in [Run -> Progress]
      /\ view \in Views /\ job \in [Actor -> Jobs]
  BY <1>1 DEF ClientInit, Views
<1>3. /\ panel = NoRun /\ imported = NoRun /\ raw = NoRun /\ owner = NoRun
      /\ status = "idle" /\ loading = FALSE /\ crossed = FALSE
      /\ extras \in 0 .. MaxExtras
  BY ClientAssumption DEF ClientInit
<1>4. ConnInv
  BY <1>1, <1>2 DEF ConnInv
<1>5. conn \in Conns /\ asked \in Questions
  BY <1>1, <1>2
<1>6. ClientTypeOK
  BY <1>2, <1>3, <1>5 DEF ClientTypeOK, Views, Conns, Questions, Jobs, Ats
<1>7. QED
  BY <1>4, <1>6 DEF TypeInv

\* The page's state is always of its type; among the rest, no event is delivered
\* and no answer read that is not one of a run's (ClientTypeOK).
THEOREM ClientTyping == ClientSpec => []ClientTypeOK
<1>1. TypeInv => ClientTypeOK
  BY DEF TypeInv
<1>2. QED
  BY <1>1, ClientStartsTyped, ClientTyped, PTL DEF ClientSpec

-----------------------------------------------------------------------------
\* What is shown, as long as nothing has been written to a view that another has
\* set up.  Who waits for an answer that it will write to the view has asked for
\* the run shown.
Waiting == {"refreshing", "closing", "selecting"}

TraceInv ==
    /\ owner = NoRun => view.run = NoRun
    /\ owner \in Run => view.run = owner
    /\ conn.phase # "closed" => conn.run = view.run
    /\ panel \in {NoRun, view.run}
    /\ imported # NoRun => imported = view.run
    /\ view.run # NoRun => imported = view.run \/ conn.run = view.run
    /\ asked.fresh => asked.of = view.run
    /\ \A a \in Actor : owner = a /\ job[a].at \in Waiting => job[a].of = view.run

\* A record imported by a handler is that of a run that is over; the handler has
\* nothing left to do, and whatever else arrives tells the same.
ImportInv ==
    imported # NoRun /\ owner # User =>
        /\ progress[imported] = Last
        /\ view = RecordView(imported, Last)
        /\ asked.fresh => asked.from = Last
        /\ \A a \in Actor : owner = a => job[a].at = "done"

ResultInv ==
    /\ owner = NoRun => status = "idle" /\ raw = NoRun
    /\ status \in {"running", "success"} => raw \in {NoRun, view.run}
    /\ status = "success" => raw # NoRun /\ progress[raw] = Last /\ raw \notin Failing
    /\ \A s \in Run : owner = s /\ job[s].at = "recovering" => status = "error"

ShownInv == ~crossed => TraceInv /\ ImportInv /\ ResultInv

\* A run that is over stays over.
EndedStay == \A s \in Run : progress[s] = Last => progress'[s] = Last

\* The handlers go on, and who asks for something asks for the run shown.
JobsGoOn ==
    \A a \in Actor :
        \/ job'[a] = job[a]
        \/ job[a].at # "done" /\ (job'[a].at \in Waiting => job'[a].of = view.run)

\* A step that leaves the view with the run it shows.
LEMMA ViewStays ==
    ASSUME TypeInv, TraceInv, ImportInv, EndedStay, JobsGoOn,
           imported' = imported, owner' = owner, view'.run = view.run,
           imported # NoRun /\ owner # User => view' = view,
           conn'.run = conn.run, conn'.phase # "closed" => conn.phase # "closed",
           panel' \in {panel, NoRun, view.run},
           \/ asked' = asked
           \/ ~asked'.fresh
           \/ asked'.of = view.run /\ asked'.from = progress[view.run]
    PROVE  TraceInv' /\ ImportInv'
<1>1. TraceInv'
  BY DEF TraceInv, JobsGoOn
<1>2. ASSUME imported # NoRun, owner # User
      PROVE  /\ progress'[imported] = Last
             /\ view = RecordView(imported, Last)
             /\ asked'.fresh => asked'.from = Last
             /\ \A a \in Actor : owner = a => job'[a].at = "done"
  <2>1. /\ imported \in Run /\ imported = view.run
        /\ progress[imported] = Last
        /\ view = RecordView(imported, Last)
        /\ asked.fresh => asked.from = Last
        /\ \A a \in Actor : owner = a => job[a].at = "done"
    BY <1>2, TypeParts DEF ImportInv, TraceInv
  <2>2. progress'[imported] = Last
    BY <2>1 DEF EndedStay
  <2>3. asked'.fresh => asked'.from = Last
    BY <2>1
  <2>4. \A a \in Actor : owner = a => job'[a].at = "done"
    BY <2>1 DEF JobsGoOn
  <2>5. QED
    BY <2>1, <2>2, <2>3, <2>4
<1>3. ImportInv'
  BY <1>2 DEF ImportInv, RecordView
<1>4. QED
  BY <1>1, <1>3

\* A step that sets up the view.
LEMMA ViewSetUp ==
    ASSUME NEW by \in Actor \cup {User}, owner' = by, ~asked'.fresh,
           by \in Run => view'.run = by,
           conn'.phase # "closed" => conn'.run = view'.run,
           panel' \in {NoRun, view'.run}, imported' \in {NoRun, view'.run},
           view'.run # NoRun => imported' = view'.run \/ conn'.run = view'.run,
           by # User /\ job'[by].at \in Waiting => job'[by].of = view'.run,
           imported' # NoRun /\ by # User =>
               /\ progress'[imported'] = Last
               /\ view' = RecordView(imported', Last)
               /\ job'[by].at = "done"
    PROVE  TraceInv' /\ ImportInv'
<1>1. by # NoRun /\ \A a \in Actor : a # User
  BY ClientAssumption DEF Actor
<1>2. TraceInv'
  BY <1>1 DEF TraceInv
<1>3. ImportInv'
  BY <1>1 DEF ImportInv, RecordView
<1>4. QED
  BY <1>2, <1>3

\* A step that leaves the result, beside the run it is of.
LEMMA ResultStays ==
    ASSUME TypeInv, ResultInv, EndedStay, status' = status, raw' = raw,
           view'.run = view.run, owner' = owner,
           \A s \in Run : job'[s].at = "recovering" => job[s].at = "recovering"
    PROVE  ResultInv'
<1>1. raw \in Run \cup {NoRun}
  BY TypeParts
<1>2. QED
  BY <1>1 DEF ResultInv, EndedStay

\* A step that takes the result from the record of the run shown.
LEMMA ResultFollows ==
    ASSUME NEW r \in Run, NEW p \in Progress, Synced(r, p), view'.run = r,
           owner' # NoRun, p <= progress'[r], progress'[r] \in Progress,
           \A s \in Run : owner' = s => job'[s].at # "recovering"
    PROVE  ResultInv'
<1>1. r # NoRun
  BY ClientAssumption
<1>2. p = Last => progress'[r] = Last
  BY DEF Progress, Last
<1>3. ~(p < Last) => p = Last
  BY DEF Progress, Last
<1>4. QED
  BY <1>1, <1>2, <1>3, SyncedTyping DEF ResultInv

\* Only a stream that is not closed goes on, and only the page's handler selects a
\* node.
SideInv == ImportedStandsAlone /\ \A s \in Run : job[s].at # "selecting"

LEMMA SideStep ==
    ASSUME TypeInv, SideInv, [ClientNext]_clientVars
    PROVE  SideInv'
<1> USE DEF trace, result, asking, ghosts
<1>1. /\ job \in [Actor -> Jobs] /\ Page \in Actor /\ Page \notin Run
      /\ \A s \in Run : s \in Actor
  BY TypeParts, ClientAssumption DEF Actor
<1>2. ASSUME NEW at, NEW s
      PROVE  Start(at).at = at /\ Ask(at, s).at = at
  BY DEF Start, Ask
<1>3. ImportedStandsAlone'
  <2>1. CASE (conn' = conn \/ conn'.phase = "closed" \/ conn.phase # "closed")
             /\ imported' = imported
    BY <2>1 DEF SideInv, ImportedStandsAlone
  <2>2. CASE conn'.phase = "closed" \/ imported' = NoRun
    BY <2>2 DEF ImportedStandsAlone
  <2>3. Closed.phase = "closed"
    BY DEF Closed
  <2>4. CASE UNCHANGED clientVars
    BY <2>1, <2>4 DEF clientVars
  <2>5. CASE \E r \in Run : ServerStep(r)
    BY <2>1, <2>5 DEF ServerStep, Advance, Accept
  <2>6. CASE StreamStep \/ Break
    BY <2>1, <2>6 DEF StreamStep, Connect, ReceiveEvent, ReceiveSnapshot, StreamEnds, Break
  <2>7. ASSUME NEW r \in Run, Click(r) \/ PostLost(r) \/ JobStep(r)
        PROVE  (conn' = conn /\ imported' = imported)
               \/ conn'.phase = "closed" \/ imported' = NoRun
    BY <2>3, <2>7
       DEF Click, PostLost, JobStep, Begin, BeginUnreadable, PostReturns, Recover, Listed,
           DetailOfEnded, DetailOfRunning, DetailFails, RefreshedAndTracked, Refreshed,
           TrackAnew, Track, Import
  <2>8. ASSUME NEW r \in Run, PageStep(r)
        PROVE  (conn' = conn /\ imported' = imported)
               \/ conn'.phase = "closed" \/ imported' = NoRun
    BY <2>3, <2>8
       DEF PageStep, Restore, NothingToRestore, RestoreEnded, RestoreRunning,
           RestoreRefreshed, RestoreSelected, Track, Import
  <2>9. CASE AskSnapshot \/ SelectNode
             \/ \E p \in Progress : SnapshotArrives(p) \/ NodeDetailArrives(p)
    BY <2>1, <2>9 DEF AskSnapshot, SelectNode, SnapshotArrives, NodeDetailArrives, Arrives
  <2>10. CASE \E r \in Run, p \in Progress : Upload(r, p)
    BY <2>2, <2>3, <2>10 DEF Upload, Import
  <2>11. QED
    BY <2>1, <2>2, <2>4, <2>5, <2>6, <2>7, <2>8, <2>9, <2>10 DEF ClientNext
<1>4. ASSUME NEW s \in Run
      PROVE  job'[s].at # "selecting"
  <2>1. CASE job' = job \/ \E j : job' = [job EXCEPT ![Page] = j]
    BY <1>1, <2>1 DEF SideInv
  <2>2. CASE UNCHANGED clientVars
    BY <2>1, <2>2 DEF clientVars
  <2>3. CASE StreamStep \/ Break \/ \E r \in Run : ServerStep(r)
    BY <2>1, <2>3 DEF StreamStep, Connect, ReceiveEvent, ReceiveSnapshot, StreamEnds, Break,
                      ServerStep, Advance, Accept
  <2>4. ASSUME NEW r \in Run, Click(r) \/ PostLost(r) \/ JobStep(r)
        PROVE  job'[s].at # "selecting"
    <3>1. \E at \in Ats \ {"selecting"} : \E x :
            job' = [job EXCEPT ![r] = Start(at)] \/ job' = [job EXCEPT ![r] = Ask(at, x)]
      BY <2>4
         DEF Click, PostLost, JobStep, Begin, BeginUnreadable, PostReturns, Recover, Listed,
             DetailOfEnded, DetailOfRunning, DetailFails, RefreshedAndTracked, Refreshed, Ats
    <3>2. QED
      BY <1>1, <1>2, <3>1 DEF SideInv
  <2>5. ASSUME NEW r \in Run, PageStep(r)
        PROVE  \E j : job' = [job EXCEPT ![Page] = j]
    BY <2>5 DEF PageStep, Restore, NothingToRestore, RestoreEnded, RestoreRunning,
                RestoreRefreshed, RestoreSelected
  <2>6. CASE \/ AskSnapshot \/ SelectNode
             \/ \E p \in Progress : SnapshotArrives(p) \/ NodeDetailArrives(p)
             \/ \E r \in Run, p \in Progress : Upload(r, p)
    BY <2>1, <2>6 DEF AskSnapshot, SelectNode, SnapshotArrives, NodeDetailArrives, Arrives,
                      Upload
  <2>7. QED
    BY <2>1, <2>2, <2>3, <2>4, <2>5, <2>6 DEF ClientNext
<1>5. QED
  BY <1>3, <1>4 DEF SideInv

-----------------------------------------------------------------------------
\* The server and the stream: they go on with the run shown.
LEMMA StreamShows ==
    ASSUME TypeInv, SideInv, TraceInv, ImportInv, ResultInv,
           \/ \E r \in Run : ServerStep(r)
           \/ StreamStep \/ Break
    PROVE  TraceInv' /\ ImportInv' /\ ResultInv'
<1> USE DEF trace, result, asking, ghosts
<1>1. /\ progress \in [Run -> Progress] /\ view \in Views /\ conn \in Conns
      /\ view.run \in Run \cup {NoRun}
      /\ conn.phase # "closed" => conn.run = view.run
      /\ conn.phase # "closed" => imported = NoRun /\ conn.run \in Run
  BY TypeParts DEF TraceInv, SideInv, ImportedStandsAlone, TypeInv, ConnInv, Views
<1>2. ASSUME EndedStay, view'.run = view.run, imported # NoRun => view' = view,
             conn'.run = conn.run, conn'.phase # "closed" => conn.phase # "closed",
             UNCHANGED <<panel, imported, status, raw, job, asked, owner>>
      PROVE  TraceInv' /\ ImportInv' /\ ResultInv'
  <2>1. JobsGoOn
    BY <1>2 DEF JobsGoOn
  <2>2. TraceInv' /\ ImportInv'
    BY <1>2, <2>1, ViewStays
  <2>3. ResultInv'
    BY <1>2, ResultStays
  <2>4. QED
    BY <2>2, <2>3
<1>3. ASSUME NEW r \in Run, Advance(r) \/ Accept(r)
      PROVE  TraceInv' /\ ImportInv' /\ ResultInv'
  <2>1. EndedStay
    BY <1>1, <1>3 DEF EndedStay, Advance, Accept, Progress, Last
  <2>2. UNCHANGED <<view, panel, imported, conn, status, raw, job, asked, owner>>
    BY <1>3 DEF Advance, Accept
  <2>3. QED
    BY <1>2, <2>1, <2>2
<1>4. CASE Connect
  <2>1. /\ UNCHANGED <<progress, view, panel, imported, status, raw, job, asked, owner>>
        /\ conn.phase # "closed"
        /\ conn' = [conn EXCEPT !.phase = "history", !.pos = 0, !.hist = progress[conn.run]]
    BY <1>4 DEF Connect
  <2>2. conn'.run = conn.run
    BY <1>1, <2>1 DEF Conns
  <2>3. QED
    BY <1>2, <2>1, <2>2 DEF EndedStay
<1>5. CASE ReceiveEvent
  <2>1. /\ UNCHANGED <<progress, panel, imported, status, raw, job, asked, owner>>
        /\ conn.phase # "closed"
        /\ conn' = [conn EXCEPT !.pos = @ + 1]
        /\ view' = [view EXCEPT !.running = conn.pos + 1 < Last]
    BY <1>5 DEF ReceiveEvent, AfterEvent
  <2>2. conn'.run = conn.run
    BY <1>1, <2>1 DEF Conns
  <2>3. view'.run = view.run
    BY <1>1, <2>1 DEF Views
  <2>4. QED
    BY <1>1, <1>2, <2>1, <2>2, <2>3 DEF EndedStay
<1>6. ASSUME NEW p \in Progress, ReceiveSnapshot(p)
      PROVE  TraceInv' /\ ImportInv' /\ ResultInv'
  <2>1. /\ UNCHANGED <<progress, panel, imported, status, raw, job, asked, owner>>
        /\ conn.phase # "closed"
        /\ conn' = [conn EXCEPT !.phase = "live", !.hist = 0]
        /\ view' = Applied(conn.run, p)
    BY <1>6 DEF ReceiveSnapshot
  <2>2. conn'.run = conn.run
    BY <1>1, <2>1 DEF Conns
  <2>3. view'.run = view.run
    BY <1>1, <2>1 DEF Applied
  <2>4. QED
    BY <1>1, <1>2, <2>1, <2>2, <2>3 DEF EndedStay
<1>7. CASE StreamEnds \/ Break
  <2>1. /\ UNCHANGED <<progress, view, panel, imported, status, raw, job, asked, owner>>
        /\ conn.phase # "closed"
        /\ conn' = Connecting(conn.run)
    BY <1>7 DEF StreamEnds, Break, Reconnected
  <2>2. conn'.run = conn.run
    BY <2>1 DEF Connecting
  <2>3. QED
    BY <1>2, <2>1, <2>2 DEF EndedStay
<1>8. QED
  BY <1>3, <1>4, <1>5, <1>6, <1>7 DEF ServerStep, StreamStep

\* What Applied does to a view of the run the answer is of.
LEMMA AppliedKeeps ==
    ASSUME TypeInv, NEW p \in Progress
    PROVE  /\ Applied(view.run, p).run = view.run
           /\ p \in {0, Last} /\ view = RecordView(view.run, Last)
                => Applied(view.run, p) = view
BY TypeParts DEF Applied, RecordView, Views

\* A handler between two of its requests, in a view it need not have set up.
LEMMA HandlerWaits ==
    ASSUME TypeInv, SideInv, TraceInv, ImportInv, ResultInv,
           NEW r \in Run, Click(r) \/ Listed(r) \/ DetailFails(r)
    PROVE  TraceInv' /\ ImportInv' /\ ResultInv'
<1> USE DEF trace, result, asking, ghosts
<1>1. job \in [Actor -> Jobs] /\ r \in Actor /\ view.run \in Run \cup {NoRun}
  BY TypeParts DEF Actor, Views
<1>2. /\ UNCHANGED <<progress, view, panel, imported, conn, status, raw, asked, owner>>
      /\ job[r].at # "done"
      /\ \E j \in {Start("ensuring"), Ask("detail", r), Ask("closing", view.run)} :
           job' = [job EXCEPT ![r] = j]
  BY DEF Click, Listed, DetailFails
<1>3. \A j \in {Start("ensuring"), Ask("detail", r), Ask("closing", view.run)} :
        j.at # "recovering" /\ (j.at \in Waiting => j.of = view.run)
  BY DEF Start, Ask, Waiting
<1>4. JobsGoOn
  BY <1>1, <1>2, <1>3 DEF JobsGoOn
<1>5. \A s \in Run : job'[s].at = "recovering" => job[s].at = "recovering"
  BY <1>1, <1>2, <1>3 DEF Actor
<1>6. EndedStay
  BY <1>2 DEF EndedStay
<1>7. TraceInv' /\ ImportInv'
  BY <1>2, <1>4, <1>6, ViewStays
<1>8. QED
  BY <1>2, <1>5, <1>6, <1>7, ResultStays

\* The handler of a run sets up the view.
LEMMA HandlerBegins ==
    ASSUME TypeInv, NEW r \in Run, Begin(r) \/ BeginUnreadable(r)
    PROVE  TraceInv' /\ ImportInv' /\ ResultInv'
<1>1. job \in [Actor -> Jobs] /\ r \in Actor /\ r # NoRun /\ asked \in Questions
  BY TypeParts, ClientAssumption DEF Actor
<1>2. /\ view' = [run |-> r, running |-> FALSE]
      /\ panel' = NoRun /\ imported' = NoRun /\ conn' = Connecting(r)
      /\ asked' = [asked EXCEPT !.fresh = FALSE] /\ owner' = r
      /\ \E j \in {Start("posting"), Ask("detail", r)} : job' = [job EXCEPT ![r] = j]
      /\ status' = "error" \/ (status' = "running" /\ raw' = NoRun)
  BY DEF Begin, BeginUnreadable, TrackAnew, SetUp
<1>3. \A j \in {Start("posting"), Ask("detail", r)} : j.at \in {"posting", "detail"}
  BY DEF Start, Ask
<1>4. /\ view'.run = r /\ conn'.run = r /\ ~asked'.fresh
      /\ job'[r].at \in {"posting", "detail"}
  BY <1>1, <1>2, <1>3 DEF Connecting, Questions
<1>5. TraceInv' /\ ImportInv'
  BY <1>1, <1>2, <1>4, ViewSetUp DEF Waiting
<1>6. ResultInv'
  BY <1>1, <1>2, <1>4 DEF ResultInv
<1>7. QED
  BY <1>5, <1>6

\* ... and goes on in it, as the one who set it up.
LEMMA HandlerGoesOn ==
    ASSUME TypeInv, TypeInv', SideInv, ShownInv, ~crossed', NEW r \in Run,
           \/ PostLost(r) \/ PostReturns(r)
           \/ \E p \in Progress : Recover(r, p) \/ DetailOfRunning(r, p)
    PROVE  TraceInv' /\ ImportInv' /\ ResultInv'
<1> USE DEF trace, result, asking, ghosts
<1>1. /\ UNCHANGED <<progress, view, panel, imported, conn, asked, owner>>
      /\ ~crossed /\ owner = r /\ job[r].at \in {"posting", "recovering", "detail"}
      /\ \E j \in {Start("listing"), Ask("recovering", r), Ask("refreshing", view.run)} :
           job' = [job EXCEPT ![r] = j]
  BY DEF PostLost, PostReturns, Recover, DetailOfRunning, GoOn, Extra
<1>2. /\ TraceInv /\ ImportInv /\ ResultInv /\ view.run = r /\ r # NoRun
      /\ job \in [Actor -> Jobs] /\ r \in Actor
      /\ progress[r] \in Progress
  BY <1>1, TypeParts, ClientAssumption DEF ShownInv, TraceInv, Actor
<1>3. \A j \in {Start("listing"), Ask("recovering", r), Ask("refreshing", view.run)} :
        j.at \in Waiting => j.of = view.run
  BY DEF Start, Ask, Waiting
<1>4. JobsGoOn /\ EndedStay
  BY <1>1, <1>2, <1>3 DEF JobsGoOn, EndedStay
<1>5. TraceInv' /\ ImportInv'
  BY <1>1, <1>2, <1>4, ViewStays
<1>6. ASSUME NEW p \in Progress, Synced(r, p), p <= progress[r], NEW j,
             job' = [job EXCEPT ![r] = j], j.at # "recovering"
      PROVE  ResultInv'
  BY <1>1, <1>2, <1>6, ResultFollows
<1>7. Start("listing").at # "recovering" /\ Ask("refreshing", view.run).at # "recovering"
  BY DEF Start, Ask
<1>8. ASSUME PostLost(r)
      PROVE  ResultInv'
  <2>1. status' = "error"
    BY <1>8 DEF PostLost
  <2>2. QED
    BY <1>1, <1>2, <2>1 DEF ResultInv
<1>9. ASSUME PostReturns(r)
      PROVE  ResultInv'
  <2>1. /\ Synced(r, Last) /\ progress[r] = Last
        /\ job' = [job EXCEPT ![r] = Start("listing")]
    BY <1>9 DEF PostReturns
  <2>2. Last \in Progress /\ Last <= Last
    BY DEF Progress, Last
  <2>3. QED
    BY <1>6, <1>7, <2>1, <2>2
<1>10. ASSUME NEW p \in Progress, Recover(r, p)
       PROVE  ResultInv'
  <2>1. /\ p \in MaybeAnswer(r, job[r].from)
        /\ IF p = 0 THEN raw' = NoRun /\ status' = status ELSE Synced(r, p)
        /\ job' = [job EXCEPT ![r] = Start("listing")] /\ job[r].at = "recovering"
    BY <1>10 DEF Recover
  <2>2. CASE p = 0
    <3>1. raw' = NoRun /\ status' = "error"
      BY <1>1, <1>2, <2>1, <2>2 DEF ResultInv
    <3>2. QED
      BY <1>1, <1>2, <3>1 DEF ResultInv
  <2>3. CASE p # 0
    <3>1. job[r].from \in Progress
      BY <1>2 DEF Jobs
    <3>2. p <= progress[r]
      BY <2>1, <2>3, <3>1, AnswerTyping
    <3>3. QED
      BY <1>6, <1>7, <2>1, <2>3, <3>2
  <2>4. QED
    BY <2>2, <2>3
<1>11. ASSUME NEW p \in Progress, DetailOfRunning(r, p)
       PROVE  ResultInv'
  <2>1. /\ p \in Answer(r, job[r].from) /\ Synced(r, p)
        /\ job' = [job EXCEPT ![r] = Ask("refreshing", view.run)]
    BY <1>11 DEF DetailOfRunning
  <2>2. p <= progress[r]
    BY <2>1 DEF Answer
  <2>3. QED
    BY <1>6, <1>7, <2>1, <2>2
<1>12. QED
  BY <1>5, <1>8, <1>9, <1>10, <1>11

\* ... and comes to its end.
LEMMA HandlerEnds ==
    ASSUME TypeInv, TypeInv', SideInv, ShownInv, ~crossed', NEW r \in Run,
           \/ DetailOfEnded(r)
           \/ \E p \in Progress : RefreshedAndTracked(r, p) \/ Refreshed(r, p)
    PROVE  TraceInv' /\ ImportInv' /\ ResultInv'
<1> USE DEF trace, result, asking, ghosts
<1>1. /\ UNCHANGED progress
      /\ ~crossed /\ owner = r /\ owner' = r
      /\ job' = [job EXCEPT ![r] = Start("done")]
      /\ job[r].at \in {"detail", "refreshing", "closing"}
  BY DEF DetailOfEnded, RefreshedAndTracked, Refreshed, GoOn, SetUp
<1>2. /\ TraceInv /\ ImportInv /\ ResultInv /\ view.run = r /\ r # NoRun
      /\ r # User /\ job \in [Actor -> Jobs] /\ r \in Actor
      /\ progress[r] \in Progress /\ asked \in Questions
  BY <1>1, TypeParts, ClientAssumption DEF ShownInv, TraceInv, Actor
<1>3. job'[r].at = "done" /\ JobsGoOn /\ EndedStay
      /\ \A s \in Run : job'[s].at = "recovering" => job[s].at = "recovering"
  BY <1>1, <1>2 DEF Start, Waiting, JobsGoOn, EndedStay, Actor
<1>4. CASE DetailOfEnded(r)
  <2>1. /\ progress[r] = Last /\ Synced(r, Last)
        /\ view' = RecordView(r, Last) /\ panel' = NoRun /\ imported' = r /\ conn' = Closed
        /\ asked' = [asked EXCEPT !.fresh = FALSE]
    BY <1>4 DEF DetailOfEnded, Import, SetUp
  <2>2. view'.run = r /\ conn'.phase = "closed" /\ ~asked'.fresh
    BY <1>2, <2>1 DEF RecordView, Closed, Questions
  <2>3. TraceInv' /\ ImportInv'
    BY <1>1, <1>2, <1>3, <2>1, <2>2, ViewSetUp DEF Waiting
  <2>4. Last \in Progress /\ Last <= Last
    BY DEF Progress, Last
  <2>5. ResultInv'
    BY <1>1, <1>2, <1>3, <2>1, <2>2, <2>4, ResultFollows
  <2>6. QED
    BY <2>3, <2>5
<1>5. ASSUME NEW p \in Progress, RefreshedAndTracked(r, p)
      PROVE  TraceInv' /\ ImportInv' /\ ResultInv'
  <2>1. /\ job[r].at = "refreshing"
        /\ view' = [Applied(job[r].of, p) EXCEPT !.run = r]
        /\ imported' = NoRun /\ conn' = Connecting(r)
        /\ asked' = [asked EXCEPT !.fresh = FALSE]
        /\ UNCHANGED <<panel, status, raw>>
    BY <1>5 DEF RefreshedAndTracked, Track, SetUp
  <2>2. Applied(job[r].of, p) \in Views
    BY <1>2, AppliedTyping DEF Jobs
  <2>3. view'.run = r /\ conn'.run = r /\ ~asked'.fresh
    BY <1>2, <2>1, <2>2 DEF Views, Connecting, Questions
  <2>4. panel' \in {NoRun, r}
    BY <1>2, <2>1 DEF TraceInv
  <2>5. TraceInv' /\ ImportInv'
    BY <1>1, <1>2, <1>3, <2>1, <2>3, <2>4, ViewSetUp DEF Waiting
  <2>6. ResultInv'
    BY <1>1, <1>2, <1>3, <2>1, <2>3, ResultStays
  <2>7. QED
    BY <2>5, <2>6
<1>6. ASSUME NEW p \in Progress, Refreshed(r, p)
      PROVE  TraceInv' /\ ImportInv' /\ ResultInv'
  <2>1. /\ job[r].at = "closing"
        /\ view' = Applied(job[r].of, p)
        /\ UNCHANGED <<panel, imported, conn, asked, status, raw>>
    BY <1>6 DEF Refreshed
  <2>2. job[r].of = r /\ imported = NoRun
    BY <1>1, <1>2, <2>1 DEF TraceInv, ImportInv, Waiting
  <2>3. view'.run = view.run
    BY <1>2, <2>1, <2>2, AppliedKeeps
  <2>4. TraceInv' /\ ImportInv'
    BY <1>1, <1>2, <1>3, <2>1, <2>2, <2>3, ViewStays
  <2>5. ResultInv'
    BY <1>1, <1>2, <1>3, <2>1, <2>3, ResultStays
  <2>6. QED
    BY <2>4, <2>5
<1>7. QED
  BY <1>4, <1>5, <1>6

\* The page's handler shows the run begun last, unless the user has been quicker.
LEMMA PageShows ==
    ASSUME TypeInv, TypeInv', SideInv, ShownInv, ~crossed', NEW r \in Run, PageStep(r)
    PROVE  TraceInv' /\ ImportInv' /\ ResultInv'
<1> USE DEF trace, result, asking, ghosts
<1>1. /\ Page \in Actor /\ Page \notin Run /\ Page # User /\ r # NoRun /\ Page # NoRun
      /\ NoRun \notin Run /\ \A s \in Run : s \in Actor
      /\ job \in [Actor -> Jobs] /\ asked \in Questions
      /\ job[Page].of \in Run \cup {NoRun} /\ job[Page].from \in Progress
      /\ progress[r] \in Progress
  BY TypeParts, ClientAssumption DEF Actor, Jobs
<1>2. ~crossed
  BY TypeParts
     DEF PageStep, Restore, NothingToRestore, RestoreEnded, RestoreRunning,
         RestoreRefreshed, RestoreSelected, GoOn
<1>3. TraceInv /\ ImportInv /\ ResultInv
  BY <1>2 DEF ShownInv
<1>4. ASSUME NEW j, job' = [job EXCEPT ![Page] = j], UNCHANGED progress
      PROVE  /\ job'[Page] = j /\ \A s \in Run : job'[s] = job[s]
             /\ EndedStay
             /\ job[Page].at # "done" /\ (j.at \in Waiting => j.of = view.run) => JobsGoOn
  BY <1>1, <1>4 DEF EndedStay, JobsGoOn
<1>5. CASE Restore(r)
  <2>1. /\ job' = [job EXCEPT ![Page] = Ask("detail", r)]
        /\ view' = [run |-> NoRun, running |-> FALSE]
        /\ panel' = NoRun /\ imported' = NoRun /\ conn' = Closed
        /\ asked' = [asked EXCEPT !.fresh = FALSE] /\ owner' = Page
        /\ UNCHANGED <<progress, status, raw>> /\ owner = NoRun
    BY <1>5 DEF Restore, SetUp
  <2>2. /\ view'.run = NoRun /\ conn'.phase = "closed" /\ ~asked'.fresh
        /\ job'[Page].at = "detail"
    BY <1>1, <1>4, <2>1 DEF Closed, Questions, Ask
  <2>3. TraceInv' /\ ImportInv'
    BY <1>1, <2>1, <2>2, ViewSetUp DEF Waiting
  <2>4. status = "idle" /\ raw = NoRun
    BY <1>3, <2>1 DEF ResultInv
  <2>5. ResultInv'
    BY <1>1, <2>1, <2>4 DEF ResultInv
  <2>6. QED
    BY <2>3, <2>5
<1>6. CASE NothingToRestore
  <2>1. /\ job' = [job EXCEPT ![Page] = Start("done")] /\ job[Page].at # "done"
        /\ UNCHANGED <<progress, view, panel, imported, conn, status, raw, asked, owner>>
    BY <1>6 DEF NothingToRestore
  <2>2. Start("done").at = "done"
    BY DEF Start
  <2>3. JobsGoOn /\ EndedStay
    BY <1>4, <2>1, <2>2 DEF Waiting
  <2>4. TraceInv' /\ ImportInv'
    BY <1>3, <2>1, <2>3, ViewStays
  <2>5. ResultInv'
    BY <1>3, <1>4, <2>1, <2>3, ResultStays
  <2>6. QED
    BY <2>4, <2>5
<1>7. CASE RestoreEnded(r)
  <2>1. /\ job' = [job EXCEPT ![Page] = Start("done")]
        /\ view' = RecordView(r, Last) /\ panel' = r /\ imported' = r /\ conn' = Closed
        /\ asked' = [asked EXCEPT !.fresh = FALSE] /\ owner' = Page
        /\ progress[r] = Last /\ Synced(r, Last) /\ UNCHANGED progress
    BY <1>7 DEF RestoreEnded, Import, SetUp
  <2>2. /\ view'.run = r /\ conn'.phase = "closed" /\ ~asked'.fresh
        /\ job'[Page].at = "done"
    BY <1>1, <1>4, <2>1 DEF RecordView, Closed, Questions, Start
  <2>3. TraceInv' /\ ImportInv'
    BY <1>1, <2>1, <2>2, ViewSetUp DEF Waiting
  <2>4. Last \in Progress /\ Last <= Last
    BY DEF Progress, Last
  <2>5. ResultInv'
    BY <1>1, <2>1, <2>2, <2>4, ResultFollows
  <2>6. QED
    BY <2>3, <2>5
<1>8. ASSUME NEW p \in Progress, RestoreRunning(r, p)
      PROVE  TraceInv' /\ ImportInv' /\ ResultInv'
  <2>1. /\ job' = [job EXCEPT ![Page] = Ask("refreshing", r)]
        /\ view' = [RecordView(r, p) EXCEPT !.run = r]
        /\ panel' = NoRun /\ imported' = NoRun /\ conn' = Connecting(r)
        /\ asked' = [asked EXCEPT !.fresh = FALSE] /\ owner' = Page
        /\ p \in Answer(r, job[Page].from) /\ Synced(r, p) /\ UNCHANGED progress
    BY <1>8 DEF RestoreRunning, Track, SetUp
  <2>2. /\ view'.run = r /\ conn'.run = r /\ ~asked'.fresh
        /\ job'[Page].of = r
    BY <1>1, <1>4, <2>1 DEF RecordView, Connecting, Questions, Ask
  <2>3. TraceInv' /\ ImportInv'
    BY <1>1, <2>1, <2>2, ViewSetUp
  <2>4. p <= progress[r]
    BY <2>1 DEF Answer
  <2>5. ResultInv'
    BY <1>1, <2>1, <2>2, <2>4, ResultFollows
  <2>6. QED
    BY <2>3, <2>5
<1>9. ASSUME NEW p \in Progress, RestoreRefreshed(p)
      PROVE  TraceInv' /\ ImportInv' /\ ResultInv'
  <2>1. /\ job[Page].at = "refreshing" /\ owner = Page
        /\ job' = [job EXCEPT ![Page] = Ask("selecting", view'.run)]
        /\ view' = Applied(job[Page].of, p)
        /\ UNCHANGED <<progress, panel, imported, conn, status, raw, asked, owner>>
    BY <1>9 DEF RestoreRefreshed, GoOn
  <2>2. job[Page].of = view.run /\ imported = NoRun
    BY <1>1, <1>3, <2>1 DEF TraceInv, ImportInv, Waiting
  <2>3. view'.run = view.run
    BY <2>1, <2>2, AppliedKeeps
  <2>4. Ask("selecting", view'.run).of = view.run
    BY <2>3 DEF Ask
  <2>5. JobsGoOn /\ EndedStay
    BY <1>4, <2>1, <2>4
  <2>6. TraceInv' /\ ImportInv'
    BY <1>3, <2>1, <2>2, <2>3, <2>5, ViewStays
  <2>7. ResultInv'
    BY <1>3, <1>4, <2>1, <2>3, <2>5, ResultStays
  <2>8. QED
    BY <2>6, <2>7
<1>10. ASSUME NEW p \in Progress, RestoreSelected(p)
       PROVE  TraceInv' /\ ImportInv' /\ ResultInv'
  <2>1. /\ job[Page].at = "selecting" /\ owner = Page
        /\ job' = [job EXCEPT ![Page] = Start("done")]
        /\ panel' \in {NoRun, job[Page].of}
        /\ UNCHANGED <<progress, view, imported, conn, status, raw, asked, owner>>
    BY <1>10 DEF RestoreSelected, GoOn
  <2>2. job[Page].of = view.run /\ Start("done").at = "done"
    BY <1>1, <1>3, <2>1 DEF TraceInv, Waiting, Start
  <2>3. JobsGoOn /\ EndedStay
    BY <1>4, <2>1, <2>2 DEF Waiting
  <2>4. TraceInv' /\ ImportInv'
    BY <1>3, <2>1, <2>2, <2>3, ViewStays
  <2>5. ResultInv'
    BY <1>3, <1>4, <2>1, <2>3, ResultStays
  <2>6. QED
    BY <2>4, <2>5
<1>11. QED
  BY <1>5, <1>6, <1>7, <1>8, <1>9, <1>10 DEF PageStep

\* The user: what was asked for is of the run shown, or somebody else has set up the
\* view meanwhile.
LEMMA UserShows ==
    ASSUME TypeInv, TypeInv', SideInv, ShownInv, ~crossed',
           \/ AskSnapshot \/ SelectNode
           \/ \E p \in Progress : SnapshotArrives(p) \/ NodeDetailArrives(p)
           \/ \E r \in Run, p \in Progress : Upload(r, p)
    PROVE  TraceInv' /\ ImportInv' /\ ResultInv'
<1> USE DEF trace, result, asking, ghosts
<1>1. /\ ~crossed /\ UNCHANGED <<progress, job>>
  BY DEF AskSnapshot, SelectNode, SnapshotArrives, NodeDetailArrives, Arrives, Upload, Extra
<1>2. /\ TraceInv /\ ImportInv /\ ResultInv /\ JobsGoOn /\ EndedStay
      /\ \A s \in Run : progress[s] \in Progress
      /\ imported \in Run \cup {NoRun} /\ asked \in Questions
  BY <1>1, TypeParts DEF ShownInv, JobsGoOn, EndedStay
<1>3. CASE AskSnapshot \/ SelectNode
  <2>1. /\ UNCHANGED <<view, imported, conn, status, raw, owner>>
        /\ panel' \in {panel, imported} /\ (panel' = panel \/ imported # NoRun)
        /\ asked' = asked \/ \E what : Asks(what)
    BY <1>3 DEF AskSnapshot, SelectNode
  <2>2. panel' \in {panel, NoRun, view.run}
    BY <1>2, <2>1 DEF TraceInv
  <2>3. asked' = asked \/ (asked'.of = view.run /\ asked'.from = progress[view.run])
    BY <2>1 DEF Asks
  <2>4. TraceInv' /\ ImportInv'
    BY <1>2, <2>1, <2>2, <2>3, ViewStays
  <2>5. ResultInv'
    BY <1>1, <1>2, <2>1, ResultStays
  <2>6. QED
    BY <2>4, <2>5
<1>4. ASSUME NEW p \in Progress, SnapshotArrives(p) \/ NodeDetailArrives(p)
      PROVE  TraceInv' /\ ImportInv' /\ ResultInv'
  <2>1. /\ UNCHANGED <<imported, conn, status, raw, owner>>
        /\ asked' = Nothing /\ asked.fresh /\ p \in MaybeAnswer(asked.of, asked.from)
        /\ panel' \in {panel, NoRun, asked.of}
        /\ view' \in {view, Applied(asked.of, p)}
    BY <1>1, <1>4, TypeParts DEF SnapshotArrives, NodeDetailArrives, Arrives
  <2>2. asked.of = view.run /\ ~Nothing.fresh /\ asked.from \in Progress
    BY <1>2, <2>1 DEF TraceInv, Nothing, Questions
  <2>3. view'.run = view.run
    BY <2>1, <2>2, AppliedKeeps
  <2>4. ASSUME imported # NoRun, owner # User
        PROVE  view' = view
    <3>1. asked.from = Last /\ imported = view.run /\ view = RecordView(view.run, Last)
      BY <1>2, <2>1, <2>4 DEF ImportInv, TraceInv
    <3>2. p \in {0, Last}
      BY <2>1, <3>1 DEF MaybeAnswer, Answer, Last
    <3>3. QED
      BY <2>1, <2>2, <3>1, <3>2, AppliedKeeps
  <2>5. TraceInv' /\ ImportInv'
    BY <1>2, <2>1, <2>2, <2>3, <2>4, ViewStays
  <2>6. ResultInv'
    BY <1>1, <1>2, <2>1, <2>3, ResultStays
  <2>7. QED
    BY <2>5, <2>6
<1>5. ASSUME NEW r \in Run, NEW p \in Progress, Upload(r, p)
      PROVE  TraceInv' /\ ImportInv' /\ ResultInv'
  <2>1. /\ p \in 1 .. progress[r] /\ Synced(r, p)
        /\ view' = RecordView(r, p) /\ panel' = r /\ imported' = r /\ conn' = Closed
        /\ asked' = [asked EXCEPT !.fresh = FALSE] /\ owner' = User
    BY <1>5 DEF Upload, Import, SetUp
  <2>2. view'.run = r /\ conn'.phase = "closed" /\ ~asked'.fresh
    BY <1>2, <2>1 DEF RecordView, Closed, Questions
  <2>3. User # NoRun /\ User \notin Run /\ r # NoRun
    BY ClientAssumption
  <2>4. TraceInv' /\ ImportInv'
    BY <2>1, <2>2, <2>3, ViewSetUp
  <2>5. p <= progress'[r] /\ progress'[r] \in Progress
    BY <1>1, <1>2, <2>1 DEF Progress, Last
  <2>6. ResultInv'
    BY <2>1, <2>2, <2>3, <2>5, ResultFollows
  <2>7. QED
    BY <2>4, <2>6
<1>6. QED
  BY <1>3, <1>4, <1>5

-----------------------------------------------------------------------------
ClientInv == TypeInv /\ SideInv /\ ShownInv

LEMMA ShownStep ==
    ClientInv /\ [ClientNext]_clientVars => ClientInv'
<1> SUFFICES ASSUME ClientInv, [ClientNext]_clientVars
             PROVE  TypeInv' /\ SideInv' /\ ShownInv'
  BY DEF ClientInv
<1>1. TypeInv /\ SideInv /\ ShownInv /\ TypeInv' /\ SideInv'
  BY ClientTyped, SideStep DEF ClientInv
<1>2. ASSUME ~crossed'
      PROVE  TraceInv' /\ ImportInv' /\ ResultInv'
  <2>1. CASE UNCHANGED clientVars
    BY <1>1, <1>2, <2>1
       DEF clientVars, trace, result, asking, ghosts, ShownInv, TraceInv, ImportInv,
           ResultInv, RecordView
  <2>2. CASE \E r \in Run : PostLost(r) \/ JobStep(r) \/ PageStep(r)
    <3>1. PICK r \in Run : PostLost(r) \/ JobStep(r) \/ PageStep(r)
      BY <2>2
    <3>2. CASE Begin(r) \/ BeginUnreadable(r)
      BY <1>1, <3>2, HandlerBegins
    <3>3. CASE Listed(r) \/ DetailFails(r)
      <4>1. ~crossed
        BY <1>2, <3>3 DEF Listed, DetailFails, ghosts
      <4>2. QED
        BY <1>1, <3>3, <4>1, HandlerWaits DEF ShownInv
    <3>4. CASE PageStep(r)
      BY <1>1, <1>2, <3>4, PageShows
    <3>5. QED
      BY <1>1, <1>2, <3>1, <3>2, <3>3, <3>4, HandlerGoesOn, HandlerEnds DEF JobStep
  <2>3. CASE \/ AskSnapshot \/ SelectNode
             \/ \E p \in Progress : SnapshotArrives(p) \/ NodeDetailArrives(p)
             \/ \E r \in Run, p \in Progress : Upload(r, p)
    BY <1>1, <1>2, <2>3, UserShows
  <2>4. CASE \/ \E r \in Run : ServerStep(r) \/ Click(r)
             \/ StreamStep \/ Break
    <3>1. ~crossed
      BY <1>2, <2>4
         DEF ServerStep, Advance, Accept, Click, StreamStep, Connect, ReceiveEvent,
             ReceiveSnapshot, StreamEnds, Break, ghosts
    <3>2. TraceInv /\ ImportInv /\ ResultInv
      BY <1>1, <3>1 DEF ShownInv
    <3>3. QED
      BY <1>1, <2>4, <3>2, StreamShows, HandlerWaits
  <2>5. QED
    BY <2>1, <2>2, <2>3, <2>4 DEF ClientNext
<1>3. QED
  BY <1>1, <1>2 DEF ShownInv

LEMMA ClientStarts == ClientInit => ClientInv
<1> SUFFICES ASSUME ClientInit PROVE ClientInv
  OBVIOUS
<1>1. TypeInv
  BY ClientStartsTyped
<1>2. SideInv
  BY ClientAssumption DEF ClientInit, SideInv, ImportedStandsAlone, Actor, Start
<1>3. /\ owner = NoRun /\ view.run = NoRun /\ imported = NoRun /\ panel = NoRun
      /\ raw = NoRun /\ status = "idle" /\ conn.phase = "closed" /\ ~asked.fresh
      /\ \A a \in Actor : a # NoRun
  BY ClientAssumption DEF ClientInit, Closed, Nothing, Actor
<1>4. TraceInv /\ ImportInv /\ ResultInv
  BY <1>3 DEF TraceInv, ImportInv, ResultInv, Actor
<1>5. QED
  BY <1>1, <1>2, <1>4 DEF ClientInv, ShownInv

LEMMA ClientHolds == ClientSpec => []ClientInv
BY ClientStarts, ShownStep, PTL DEF ClientSpec

\* Unless something is written to a view another has set up, the view, the stream
\* and the node detail are of one run, and an imported record stays as it is
\* (OneRunIsShown).
THEOREM PageShowsOneRun == ClientSpec => []OneRunIsShown
<1>1. ClientInv => OneRunIsShown
  BY DEF ClientInv, ShownInv, TraceInv, ImportInv, OneRunIsShown
<1>2. QED
  BY <1>1, ClientHolds, PTL

\* ... and the run shown is followed by its stream, or its record stands alone
\* (ShownRunIsWatched).
THEOREM PageWatchesItsRun == ClientSpec => []ShownRunIsWatched
<1>1. ClientInv => ShownRunIsWatched
  BY DEF ClientInv, SideInv, ShownInv, TraceInv, ShownRunIsWatched
<1>2. QED
  BY <1>1, ClientHolds, PTL

\* ... and the result beside it is of that run, and says success only of a run that
\* has succeeded (ResultFitsTrace).
THEOREM ResultIsOfTheRun == ClientSpec => []ResultFitsTrace
<1>1. ClientInv => ResultFitsTrace
  BY DEF ClientInv, ShownInv, ResultInv, ResultFitsTrace
<1>2. QED
  BY <1>1, ClientHolds, PTL

=============================================================================
