------------------------- MODULE DashboardSessionProofs -------------------------
(***************************************************************************)
(* Theorems about DashboardSession, for any number of tasks, runs,         *)
(* revisions, clicks and failed requests.                                  *)
(***************************************************************************)
EXTENDS DashboardSession, SequenceTheorems, TLAPS

-----------------------------------------------------------------------------
(* The inductive invariant                                                 *)

UiRows ==
    [analysis : Snapshots, resume : Snapshots, timer : BOOLEAN,
     refreshed : SUBSET (1..MaxRuns), disposed : BOOLEAN]

TaskRows ==
    [what : {"none", "load", "start", "cancel", "poll"}, a : Requests, r : Requests]

\* The runs of one kind, in the order of their numbers.  A change need not
\* show in the stamp.
GoodRuns(runs) ==
    /\ runs \in Seq(Snapshots)
    /\ Len(runs) <= MaxRuns
    /\ \A n \in 1..Len(runs) : runs[n].run = n /\ runs[n].stamp <= runs[n].rev

\* A snapshot is of one of these runs, and no later than it; that of a
\* finished run is its last.
Past(runs, s) ==
    \/ s = NoRun
    \/ /\ s.run \in 1..Len(runs)
       /\ s.rev <= runs[s.run].rev
       /\ s.stamp <= runs[s.run].stamp
       /\ (s.rev = runs[s.run].rev \/ s.finished) => s = runs[s.run]

GoodRequest(runs, q) ==
    /\ q \in Requests
    /\ q.to \in {"get", "cancel"} => q.run \in 1..Len(runs)
    /\ Past(runs, q.snapshot)
    /\ q.served = "refused" => q.snapshot # NoRun

GoodTask(srv, t) ==
    /\ t \in TaskRows
    /\ GoodRequest(srv["a"], t.a)
    /\ GoodRequest(srv["r"], t.r)

GoodUi(srv, u) ==
    /\ u \in UiRows
    /\ Past(srv["a"], u.analysis)
    /\ Past(srv["r"], u.resume)
    /\ u.disposed => ~u.timer
    /\ u.analysis.finished => u.analysis.run \in u.refreshed

\* The queues were reset once for each run that is remembered.
Counted(counts, refreshed) ==
    counts = [n \in 1..MaxRuns |-> IF n \in refreshed THEN 1 ELSE 0]

SessionInv ==
    /\ server \in [Parts -> Seq(Snapshots)]
    /\ \A k \in Parts : GoodRuns(server[k])
    /\ tasks \in [Slots -> TaskRows]
    /\ \A i \in Slots : GoodTask(server, tasks[i])
    /\ GoodUi(server, ui)
    /\ Counted(refreshes, ui.refreshed)
    /\ clicks \in 0..MaxClicks
    /\ faults \in 0..MaxFaults

\* What acceptAnalysisRun sees to.
Accepted(s, t) ==
    t.run = s.run => t.stamp >= s.stamp /\ (s.finished => t.finished)

\* What acceptResumeRun sees to, where the stamp is the revision.
NotBack(s, t) ==
    t.run = s.run => t.rev >= s.rev /\ (s.finished => t.finished)

Numbered(s) == s.stamp = s.rev

Ahead(u, v) ==
    /\ Accepted(u.analysis, v.analysis)
    /\ Numbered(u.resume) /\ Numbered(v.resume) => NotBack(u.resume, v.resume)

-----------------------------------------------------------------------------
(* What is shown                                                           *)

LEMMA NoRunIs ==
    NoRun \in Snapshots /\ NoRun.run = 0 /\ ~ NoRun.finished
BY DashboardAssumption DEF NoRun, Snapshots

\* A Resume Run that is not older than the one shown does not take back its end.
LEMMA NotStaleIsNotBack ==
    ASSUME NEW runs, GoodRuns(runs), NEW s \in Snapshots, NEW t \in Snapshots,
           Past(runs, s), Past(runs, t), t # NoRun, ~ StaleResume(s, t),
           Numbered(s), Numbered(t)
    PROVE  NotBack(s, t)
<1> SUFFICES ASSUME t.run = s.run PROVE t.rev >= s.rev /\ (s.finished => t.finished)
  BY DEF NotBack
<1>1. s.rev \in Nat /\ t.rev \in Nat
  BY DashboardAssumption DEF Snapshots
<1>2. t.rev >= s.rev
  BY <1>1 DEF StaleResume, Numbered
<1>3. t.run \in 1..Len(runs) /\ t.rev <= runs[t.run].rev
      /\ (t.rev = runs[t.run].rev => t = runs[t.run])
  BY DEF Past
<1>4. Len(runs) \in Nat /\ runs[t.run] \in Snapshots
  BY <1>3 DEF GoodRuns
<1>5. ASSUME s.finished PROVE t.finished
  <2>1. s # NoRun
    BY <1>5, NoRunIs
  <2>2. s = runs[s.run]
    BY <1>5, <2>1 DEF Past
  <2>3. t.rev = runs[t.run].rev
    <3>1. runs[t.run].rev \in Nat /\ s.rev = runs[t.run].rev
      BY <1>4, <2>2, DashboardAssumption DEF Snapshots
    <3>2. QED  BY <1>1, <1>2, <1>3, <3>1
  <2>4. QED  BY <1>3, <1>5, <2>2, <2>3
<1>6. QED  BY <1>2, <1>5

LEMMA SameIsNotBack ==
    ASSUME NEW s \in Snapshots
    PROVE  NotBack(s, s) /\ Accepted(s, s)
BY DashboardAssumption DEF NotBack, Accepted, Snapshots

LEMMA NotStaleIsAccepted ==
    ASSUME NEW s \in Snapshots, NEW t \in Snapshots, ~ StaleAnalysis(s, t)
    PROVE  Accepted(s, t)
BY DEF StaleAnalysis, Accepted, Snapshots

\* schedulePoll changes the timer alone.
LEMMA Scheduled ==
    ASSUME NEW srv, NEW u, GoodUi(srv, u)
    PROVE  /\ GoodUi(srv, Schedule(u))
           /\ Schedule(u).analysis = u.analysis /\ Schedule(u).resume = u.resume
           /\ Schedule(u).refreshed = u.refreshed /\ Schedule(u).disposed = u.disposed
<1> DEFINE due == Due(u)
           v == [u EXCEPT !.timer = due]
<1>1. u \in UiRows
  BY DEF GoodUi
<1>2. due \in BOOLEAN /\ (u.disposed => ~due)
  BY <1>1 DEF Due, IsActive, UiRows, Snapshots
<1>3. Schedule(u) = v
  BY DEF Schedule
<1> HIDE DEF due
<1>4. /\ v \in UiRows /\ v.analysis = u.analysis /\ v.resume = u.resume
      /\ v.refreshed = u.refreshed /\ v.disposed = u.disposed
      /\ (v.timer <=> due)
  BY <1>1, <1>2 DEF UiRows
<1> HIDE DEF v
<1>5. QED  BY <1>2, <1>3, <1>4 DEF GoodUi

LEMMA RunShown ==
    ASSUME NEW runs, GoodRuns(runs), NEW s, Past(runs, s), s # NoRun
    PROVE  s.run \in 1..MaxRuns /\ s.run # 0
BY DashboardAssumption DEF Past, GoodRuns

\* acceptResumeRun
LEMMA ResumeShown ==
    ASSUME NEW srv, NEW u, GoodUi(srv, u), NEW s \in Snapshots,
           GoodRuns(srv["r"]), Past(srv["r"], s), s # NoRun
    PROVE  /\ GoodUi(srv, ShowResume(u, s))
           /\ ShowResume(u, s).refreshed = u.refreshed
           /\ ShowResume(u, s).analysis = u.analysis
           /\ Numbered(u.resume) /\ Numbered(ShowResume(u, s).resume) =>
                 NotBack(u.resume, ShowResume(u, s).resume)
<1> DEFINE shown == [u EXCEPT !.resume = s]
<1>1. u \in UiRows /\ u.resume \in Snapshots
  BY DEF GoodUi, UiRows
<1>2. /\ shown \in UiRows /\ shown.resume = s /\ shown.analysis = u.analysis
      /\ shown.refreshed = u.refreshed /\ shown.disposed = u.disposed
      /\ (shown.timer <=> u.timer)
  BY <1>1 DEF UiRows
<1>3. ShowResume(u, s) = IF StaleResume(u.resume, s) THEN u
                         ELSE IF s.finished THEN shown ELSE Schedule(shown)
  BY DEF ShowResume
<1> HIDE DEF shown
<1>4. GoodUi(srv, shown)
  BY <1>2 DEF GoodUi
<1>5. CASE StaleResume(u.resume, s)
  BY <1>1, <1>3, <1>5, SameIsNotBack
<1>6. CASE ~ StaleResume(u.resume, s)
  <2>1. Numbered(u.resume) /\ Numbered(s) => NotBack(u.resume, s)
    BY <1>1, <1>6, NotStaleIsNotBack DEF GoodUi
  <2>2. CASE s.finished
    BY <1>2, <1>3, <1>4, <1>6, <2>1, <2>2
  <2>3. CASE ~ s.finished
    BY <1>2, <1>3, <1>4, <1>6, <2>1, <2>3, Scheduled
  <2>4. QED  BY <2>2, <2>3
<1>7. QED  BY <1>5, <1>6

\* acceptAnalysisRun, before it awaits the refresh.
LEMMA AnalysisShown ==
    ASSUME NEW srv, NEW u, GoodUi(srv, u), NEW s \in Snapshots,
           GoodRuns(srv["a"]), Past(srv["a"], s), s # NoRun
    PROVE  /\ GoodUi(srv, ShowAnalysis(u, s))
           /\ ShowAnalysis(u, s).refreshed =
                 IF Refreshes(u, s) THEN u.refreshed \cup {s.run} ELSE u.refreshed
           /\ ShowAnalysis(u, s).resume = u.resume
           /\ Accepted(u.analysis, ShowAnalysis(u, s).analysis)
<1> DEFINE shown == [u EXCEPT !.analysis = s]
           refreshed == u.refreshed \cup {s.run}
           over == [shown EXCEPT !.timer = FALSE, !.refreshed = refreshed]
<1>1. u \in UiRows /\ u.analysis \in Snapshots /\ s.run \in 1..MaxRuns
  BY RunShown DEF GoodUi, UiRows
<1>2. /\ shown \in UiRows /\ shown.analysis = s /\ shown.resume = u.resume
      /\ shown.refreshed = u.refreshed /\ shown.disposed = u.disposed
      /\ (shown.timer <=> u.timer)
  BY <1>1 DEF UiRows
<1>3. refreshed \in SUBSET (1..MaxRuns) /\ s.run \in refreshed
  BY <1>1 DEF UiRows
<1>4. ShowAnalysis(u, s) = IF StaleAnalysis(u.analysis, s) THEN u
                           ELSE IF s.finished THEN over ELSE Schedule(shown)
  BY DEF ShowAnalysis
<1> HIDE DEF shown, refreshed
<1>5. /\ over \in UiRows /\ over.analysis = s /\ over.resume = u.resume
      /\ over.refreshed = refreshed /\ over.disposed = u.disposed /\ ~over.timer
  BY <1>2, <1>3 DEF UiRows
<1> HIDE DEF over
<1>6. CASE StaleAnalysis(u.analysis, s)
  BY <1>1, <1>4, <1>6, SameIsNotBack DEF Refreshes
<1>7. CASE ~ StaleAnalysis(u.analysis, s) /\ s.finished
  <2>1. Accepted(u.analysis, s)
    BY <1>1, <1>7, NotStaleIsAccepted
  <2>2. GoodUi(srv, over)
    BY <1>3, <1>5 DEF GoodUi
  <2>3. refreshed = IF Refreshes(u, s) THEN u.refreshed \cup {s.run} ELSE u.refreshed
    BY <1>7 DEF Refreshes, refreshed
  <2>4. QED  BY <1>4, <1>5, <1>7, <2>1, <2>2, <2>3
<1>8. CASE ~ StaleAnalysis(u.analysis, s) /\ ~ s.finished
  <2>1. Accepted(u.analysis, s)
    BY <1>1, <1>8, NotStaleIsAccepted
  <2>2. GoodUi(srv, shown)
    BY <1>2, <1>8 DEF GoodUi
  <2>3. QED  BY <1>2, <1>4, <1>8, <2>1, <2>2, Scheduled DEF Refreshes
<1>9. QED  BY <1>6, <1>7, <1>8

\* The finally clause of pollAnalysisRun sets the timer or nothing.
LEMMA PolledA ==
    ASSUME NEW srv, NEW u, GoodUi(srv, u), NEW what
    PROVE  /\ GoodUi(srv, AfterPollA(what, u))
           /\ AfterPollA(what, u).analysis = u.analysis
           /\ AfterPollA(what, u).resume = u.resume
           /\ AfterPollA(what, u).refreshed = u.refreshed
BY Scheduled DEF AfterPollA

-----------------------------------------------------------------------------
(* Requests and tasks                                                      *)

LEMMA GoodAsk ==
    ASSUME NEW runs, GoodRuns(runs),
           NEW to \in {"none", "data", "active", "latest", "get", "start", "cancel"},
           NEW run, run = 0 \/ run \in 1..Len(runs),
           to \in {"get", "cancel"} => run # 0
    PROVE  GoodRequest(runs, Ask(to, run))
<1>1. run \in 0..MaxRuns
  BY DashboardAssumption DEF GoodRuns
<1>2. NoRequest \in Requests /\ NoRequest.served = "no" /\ NoRequest.snapshot = NoRun
  BY NoRunIs, DashboardAssumption DEF Requests, NoRequest
<1>3. /\ Ask(to, run) \in Requests /\ Ask(to, run).to = to /\ Ask(to, run).run = run
      /\ Ask(to, run).served = "no" /\ Ask(to, run).snapshot = NoRun
  BY <1>1, <1>2 DEF Ask, Requests
<1>4. run # 0 => run \in 1..Len(runs)
  OBVIOUS
<1>5. QED  BY <1>3, <1>4 DEF GoodRequest, Past

LEMMA GoodNone ==
    ASSUME NEW runs
    PROVE  GoodRequest(runs, NoRequest)
BY NoRunIs, DashboardAssumption DEF GoodRequest, Requests, NoRequest, Past

LEMMA NoTaskIsGood ==
    ASSUME NEW srv
    PROVE  GoodTask(srv, NoTask)
BY GoodNone DEF GoodTask, GoodRequest, NoTask, TaskRows

LEMMA LoadingIsGood ==
    ASSUME NEW srv, GoodRuns(srv["a"])
    PROVE  GoodTask(srv, Loading)
<1>1. GoodRequest(srv["a"], Ask("data", 0))
  BY GoodAsk
<1>2. GoodTask(srv, NoTask) /\ NoTask \in TaskRows
  BY NoTaskIsGood DEF GoodTask
<1>3. QED  BY <1>1, <1>2 DEF Loading, GoodTask, GoodRequest, TaskRows

\* A task goes on with good requests.
LEMMA AsksA ==
    ASSUME NEW srv, NEW t, GoodTask(srv, t), NEW q, GoodRequest(srv["a"], q)
    PROVE  GoodTask(srv, [t EXCEPT !.a = q])
BY DEF GoodTask, GoodRequest, TaskRows

LEMMA AsksR ==
    ASSUME NEW srv, NEW t, GoodTask(srv, t), NEW q, GoodRequest(srv["r"], q)
    PROVE  GoodTask(srv, [t EXCEPT !.r = q])
BY DEF GoodTask, GoodRequest, TaskRows

LEMMA GoesOnAfterA ==
    ASSUME NEW srv, NEW t, GoodTask(srv, t), GoodRuns(srv["r"])
    PROVE  GoodTask(srv, AfterA(t))
<1> DEFINE q == IF t.what = "load" THEN Ask("active", 0) ELSE t.r
           next == [t EXCEPT !.a = NoRequest, !.r = q]
<1>1. GoodRequest(srv["r"], q)
  BY GoodAsk DEF GoodTask
<1>2. AfterA(t) = next
  BY DEF AfterA
<1> HIDE DEF q
<1>3. next \in TaskRows /\ next.a = NoRequest /\ next.r = q
  BY <1>1, GoodNone DEF GoodTask, GoodRequest, TaskRows
<1> HIDE DEF next
<1>4. QED  BY <1>1, <1>2, <1>3, GoodNone DEF GoodTask

-----------------------------------------------------------------------------
(* Steps of a task: the API does not move                                  *)

LEMMA Continues ==
    ASSUME SessionInv, NEW i \in Slots,
           NEW task, GoodTask(server, task),
           NEW u, GoodUi(server, u), Ahead(ui, u),
           Continue(i, task, u), Counted(refreshes', u.refreshed),
           server' = server, clicks' \in 0..MaxClicks, faults' \in 0..MaxFaults
    PROVE  SessionInv' /\ Ahead(ui, ui')
<1> DEFINE ended == task.a = NoRequest /\ task.r = NoRequest
           next == IF ended THEN NoTask ELSE task
<1>1. GoodTask(server, next)
  BY NoTaskIsGood
<1>2. tasks' = [tasks EXCEPT ![i] = next] /\ ui' \in {u, Schedule(u)}
  BY DEF Continue
<1> HIDE DEF next
<1>3. /\ tasks' \in [Slots -> TaskRows]
      /\ \A j \in Slots : GoodTask(server, tasks'[j])
  BY <1>1, <1>2 DEF SessionInv, GoodTask
<1>4. /\ GoodUi(server, ui') /\ ui'.refreshed = u.refreshed
      /\ ui'.analysis = u.analysis /\ ui'.resume = u.resume
  BY <1>2, Scheduled
<1>5. Ahead(ui, ui')
  BY <1>4 DEF Ahead
<1>6. QED  BY <1>3, <1>4, <1>5 DEF SessionInv

\* Without an answer that is accepted nothing shown changes.
LEMMA SameIsAhead ==
    ASSUME NEW srv, NEW u, GoodUi(srv, u), NEW v,
           v.analysis = u.analysis, v.resume = u.resume
    PROVE  Ahead(u, v)
BY SameIsNotBack DEF Ahead, GoodUi, UiRows

\* What is known of a task and of what is shown.
LEMMA TaskFacts ==
    ASSUME SessionInv, NEW i \in Slots
    PROVE  /\ GoodTask(server, tasks[i]) /\ GoodUi(server, ui)
           /\ GoodRuns(server["a"]) /\ GoodRuns(server["r"])
           /\ Ahead(ui, ui) /\ Counted(refreshes, ui.refreshed)
           /\ clicks \in 0..MaxClicks /\ faults \in 0..MaxFaults
BY SameIsAhead DEF SessionInv, Parts

LEMMA DeliverDataKeeps ==
    ASSUME SessionInv, NEW i \in Slots, DeliverData(i)
    PROVE  SessionInv' /\ Ahead(ui, ui')
<1> DEFINE t == tasks[i]
<1>1. GoodTask(server, t) /\ GoodUi(server, ui)
      /\ UNCHANGED <<server, refreshes, clicks, faults>>
  BY TaskFacts DEF DeliverData
<1>2. CASE Continue(i, [t EXCEPT !.a = Ask("active", 0)], ui)
  <2>1. GoodTask(server, [t EXCEPT !.a = Ask("active", 0)])
    BY <1>1, TaskFacts, GoodAsk, AsksA
  <2> HIDE DEF t
  <2>2. QED  BY <1>1, <1>2, <2>1, TaskFacts, Continues
<1>3. CASE Continue(i, AfterA(t), AfterPollA(t.what, ui))
  <2>1. GoodTask(server, AfterA(t)) /\ GoodUi(server, AfterPollA(t.what, ui))
    BY <1>1, TaskFacts, GoesOnAfterA, PolledA
  <2>2. Ahead(ui, AfterPollA(t.what, ui)) /\ AfterPollA(t.what, ui).refreshed = ui.refreshed
    BY <1>1, SameIsAhead, PolledA
  <2> HIDE DEF t
  <2>3. QED  BY <1>1, <1>3, <2>1, <2>2, TaskFacts, Continues
<1>4. QED  BY <1>2, <1>3 DEF DeliverData

LEMMA FollowKeeps ==
    ASSUME SessionInv, NEW i \in Slots, Follow(i)
    PROVE  SessionInv' /\ Ahead(ui, ui')
<1> DEFINE t == tasks[i]
           run == t.a.snapshot.run
           next == [t EXCEPT !.a = Ask("get", run)]
<1>1. GoodTask(server, t) /\ GoodUi(server, ui) /\ t.a.served = "refused"
      /\ Continue(i, next, ui)
      /\ UNCHANGED <<server, refreshes, clicks, faults>>
  BY TaskFacts DEF Follow
<1> HIDE DEF t
<1>2. run \in 1..Len(server["a"])
  BY <1>1 DEF GoodTask, GoodRequest, Past
<1>3. run # 0
  BY <1>2, TaskFacts DEF GoodRuns
<1> HIDE DEF run
<1>4. GoodTask(server, next)
  BY <1>1, <1>2, <1>3, TaskFacts, GoodAsk, AsksA
<1> HIDE DEF next
<1>5. QED  BY <1>1, <1>4, TaskFacts, Continues

LEMMA CountedOnceMore ==
    ASSUME NEW counts, NEW seen, Counted(counts, seen), NEW n \in 1..MaxRuns, n \notin seen,
           NEW more, more = [counts EXCEPT ![n] = @ + 1]
    PROVE  Counted(more, seen \cup {n})
<1>1. DOMAIN counts = 1..MaxRuns /\ \A m \in 1..MaxRuns : counts[m] = IF m \in seen THEN 1 ELSE 0
  BY DEF Counted
<1>2. more = [m \in 1..MaxRuns |-> IF m = n THEN counts[n] + 1 ELSE counts[m]]
  BY <1>1
<1>3. \A m \in 1..MaxRuns :
          (IF m = n THEN counts[n] + 1 ELSE counts[m]) = IF m \in seen \cup {n} THEN 1 ELSE 0
  BY <1>1
<1>4. QED  BY <1>2, <1>3 DEF Counted

\* A terminal run that was not seen before resets the queues, once.
LEMMA DeliverAnalysisKeeps ==
    ASSUME SessionInv, NEW i \in Slots, DeliverAnalysis(i)
    PROVE  SessionInv' /\ Ahead(ui, ui')
<1> DEFINE t == tasks[i]
           s == t.a.snapshot
           shown == ShowAnalysis(ui, s)
<1>1. GoodTask(server, t) /\ GoodUi(server, ui)
      /\ UNCHANGED <<server, clicks, faults>>
  BY TaskFacts DEF DeliverAnalysis
<1>2. s \in Snapshots /\ Past(server["a"], s)
  BY <1>1 DEF GoodTask, GoodRequest, Requests
<1>3. \/ /\ Continue(i, AfterA(t), AfterPollA(t.what, ui)) /\ refreshes' = refreshes
      \/ /\ s # NoRun /\ Refreshes(ui, s)
         /\ Continue(i, [t EXCEPT !.a = Ask("data", 0)], shown)
         /\ refreshes' = [refreshes EXCEPT ![s.run] = @ + 1]
      \/ /\ s # NoRun /\ ~ Refreshes(ui, s)
         /\ Continue(i, AfterA(t), AfterPollA(t.what, shown)) /\ refreshes' = refreshes
  BY DEF DeliverAnalysis
<1>4. GoodTask(server, AfterA(t))
  BY <1>1, TaskFacts, GoesOnAfterA
<1>5. GoodTask(server, [t EXCEPT !.a = Ask("data", 0)])
  BY <1>1, TaskFacts, GoodAsk, AsksA
<1>6. s # NoRun =>
          /\ GoodUi(server, shown) /\ Ahead(ui, shown)
          /\ shown.refreshed = IF Refreshes(ui, s) THEN ui.refreshed \cup {s.run}
                                                   ELSE ui.refreshed
  BY <1>1, <1>2, TaskFacts, AnalysisShown, SameIsNotBack DEF Ahead, GoodUi, UiRows
<1>7. s # NoRun => s.run \in 1..MaxRuns
  BY <1>2, TaskFacts, RunShown
<1> HIDE DEF shown
<1>8. CASE /\ Continue(i, AfterA(t), AfterPollA(t.what, ui)) /\ refreshes' = refreshes
  <2>1. /\ GoodUi(server, AfterPollA(t.what, ui)) /\ Ahead(ui, AfterPollA(t.what, ui))
        /\ AfterPollA(t.what, ui).refreshed = ui.refreshed
    BY <1>1, SameIsAhead, PolledA
  <2> HIDE DEF t, s
  <2>2. QED  BY <1>1, <1>4, <1>8, <2>1, TaskFacts, Continues
<1>9. CASE /\ s # NoRun /\ Refreshes(ui, s)
           /\ Continue(i, [t EXCEPT !.a = Ask("data", 0)], shown)
           /\ refreshes' = [refreshes EXCEPT ![s.run] = @ + 1]
  <2>1. s.run \in 1..MaxRuns /\ s.run \notin ui.refreshed
    BY <1>7, <1>9 DEF Refreshes
  <2>2. shown.refreshed = ui.refreshed \cup {s.run}
    BY <1>6, <1>9
  <2>3. Counted(refreshes, ui.refreshed)
    BY TaskFacts
  <2> HIDE DEF t, s
  <2>4. Counted(refreshes', shown.refreshed)
    <3> DEFINE n == s.run  seen == ui.refreshed  more == refreshes'
    <3>1. n \in 1..MaxRuns /\ n \notin seen /\ Counted(refreshes, seen)
      BY <2>1, <2>3
    <3>2. more = [refreshes EXCEPT ![n] = @ + 1]
      BY <1>9
    <3>3. shown.refreshed = seen \cup {n}
      BY <2>2
    <3> HIDE DEF n, seen, more
    <3>4. Counted(more, seen \cup {n})
      BY <3>1, <3>2, CountedOnceMore
    <3>5. QED  BY <3>3, <3>4 DEF more
  <2>5. QED  BY <1>1, <1>5, <1>6, <1>9, <2>4, TaskFacts, Continues
<1>10. CASE /\ s # NoRun /\ ~ Refreshes(ui, s)
            /\ Continue(i, AfterA(t), AfterPollA(t.what, shown)) /\ refreshes' = refreshes
  <2>1. GoodUi(server, shown) /\ Ahead(ui, shown) /\ shown.refreshed = ui.refreshed
    BY <1>6, <1>10
  <2>2. /\ GoodUi(server, AfterPollA(t.what, shown)) /\ Ahead(ui, AfterPollA(t.what, shown))
        /\ AfterPollA(t.what, shown).refreshed = ui.refreshed
    BY <2>1, PolledA DEF Ahead
  <2> HIDE DEF t, s
  <2>3. QED  BY <1>1, <1>4, <1>10, <2>2, TaskFacts, Continues
<1>11. QED  BY <1>3, <1>8, <1>9, <1>10

LEMMA DeliverResumeKeeps ==
    ASSUME SessionInv, NEW i \in Slots, DeliverResume(i)
    PROVE  SessionInv' /\ Ahead(ui, ui')
<1> DEFINE t == tasks[i]
           s == t.r.snapshot
           shown == ShowResume(ui, s)
<1>1. GoodTask(server, t) /\ GoodUi(server, ui)
      /\ UNCHANGED <<server, refreshes, clicks, faults>>
  BY TaskFacts DEF DeliverResume
<1>2. s \in Snapshots /\ Past(server["r"], s)
  BY <1>1 DEF GoodTask, GoodRequest, Requests
<1>3. \/ Continue(i, [t EXCEPT !.r = NoRequest], ui)
      \/ Continue(i, [t EXCEPT !.r = Ask("latest", 0)], ui)
      \/ s # NoRun /\ Continue(i, [t EXCEPT !.r = NoRequest], shown)
  BY DEF DeliverResume
<1>4. /\ GoodTask(server, [t EXCEPT !.r = NoRequest])
      /\ GoodTask(server, [t EXCEPT !.r = Ask("latest", 0)])
  BY <1>1, TaskFacts, GoodAsk, GoodNone, AsksR
<1>5. s # NoRun =>
          GoodUi(server, shown) /\ Ahead(ui, shown) /\ shown.refreshed = ui.refreshed
  BY <1>1, <1>2, TaskFacts, ResumeShown, SameIsNotBack DEF Ahead, GoodUi, UiRows
<1> HIDE DEF t, s, shown
<1>6. QED  BY <1>1, <1>3, <1>4, <1>5, TaskFacts, Continues

LEMMA FailKeeps ==
    ASSUME SessionInv, NEW i \in Slots, NEW k \in Parts, Fail(i, k)
    PROVE  SessionInv' /\ Ahead(ui, ui')
<1> DEFINE t == tasks[i]
<1>1. GoodTask(server, t) /\ GoodUi(server, ui)
      /\ UNCHANGED <<server, refreshes, clicks>>
  BY TaskFacts DEF Fail
<1>2. faults' \in 0..MaxFaults
  BY TaskFacts, DashboardAssumption DEF Fail
<1>3. \/ Continue(i, [t EXCEPT !.r = NoRequest], ui)
      \/ Continue(i, NoTask, ui)
      \/ Continue(i, Loading, ui)
      \/ Continue(i, AfterA(t), AfterPollA(t.what, ui))
  BY DEF Fail, Parts
<1>4. /\ GoodTask(server, [t EXCEPT !.r = NoRequest]) /\ GoodTask(server, NoTask)
      /\ GoodTask(server, AfterA(t)) /\ GoodTask(server, Loading)
  BY <1>1, TaskFacts, GoodNone, NoTaskIsGood, LoadingIsGood, AsksR, GoesOnAfterA
<1>5. /\ GoodUi(server, AfterPollA(t.what, ui)) /\ Ahead(ui, AfterPollA(t.what, ui))
      /\ AfterPollA(t.what, ui).refreshed = ui.refreshed
  BY <1>1, SameIsAhead, PolledA
<1> HIDE DEF t
<1>6. CASE Continue(i, [t EXCEPT !.r = NoRequest], ui)
  BY <1>1, <1>2, <1>4, <1>6, TaskFacts, Continues
<1>7. ASSUME NEW task \in {NoTask, Loading}, Continue(i, task, ui)
      PROVE  SessionInv' /\ Ahead(ui, ui')
  BY <1>1, <1>2, <1>4, <1>7, TaskFacts, Continues
<1>8. CASE Continue(i, AfterA(t), AfterPollA(t.what, ui))
  BY <1>1, <1>2, <1>4, <1>5, <1>8, TaskFacts, Continues
<1>9. QED  BY <1>3, <1>6, <1>7, <1>8

\* A poll asks for runs that are shown as active, which are there.
LEMMA PolledIsGood ==
    ASSUME NEW runs, GoodRuns(runs), NEW s, Past(runs, s)
    PROVE  GoodRequest(runs, Polled(s))
<1>1. CASE IsActive(s)
  <2>1. s # NoRun
    BY <1>1, NoRunIs DEF IsActive
  <2>2. s.run \in 1..Len(runs) /\ s.run # 0
    BY <1>1, <2>1 DEF Past, IsActive
  <2>3. QED  BY <1>1, <2>2, GoodAsk DEF Polled
<1>2. CASE ~ IsActive(s)
  BY <1>2, GoodNone DEF Polled
<1>3. QED  BY <1>1, <1>2

LEMMA PollKeeps ==
    ASSUME SessionInv, NEW i \in Slots, Poll(i)
    PROVE  SessionInv' /\ Ahead(ui, ui')
<1> DEFINE a == IF Polling \/ ui.disposed THEN NoRequest ELSE Polled(ui.analysis)
           r == Polled(ui.resume)
           task == [what |-> "poll", a |-> a, r |-> r]
           u == [ui EXCEPT !.timer = FALSE]
<1>1. GoodUi(server, ui) /\ Continue(i, task, u)
      /\ UNCHANGED <<server, refreshes, clicks, faults>>
  BY TaskFacts DEF Poll
<1>2. GoodRequest(server["a"], a) /\ GoodRequest(server["r"], r)
  BY <1>1, TaskFacts, PolledIsGood, GoodNone DEF GoodUi
<1> HIDE DEF a, r
<1>3. GoodTask(server, task)
  BY <1>2 DEF GoodTask, GoodRequest, TaskRows
<1>4. u \in UiRows /\ u.analysis = ui.analysis /\ u.resume = ui.resume
      /\ u.refreshed = ui.refreshed /\ u.disposed = ui.disposed /\ ~u.timer
  BY <1>1 DEF GoodUi, UiRows
<1> HIDE DEF task, u
<1>5. GoodUi(server, u) /\ Ahead(ui, u)
  BY <1>1, <1>4, SameIsAhead DEF GoodUi
<1>6. QED  BY <1>1, <1>3, <1>4, <1>5, TaskFacts, Continues

-----------------------------------------------------------------------------
(* The operator                                                            *)

LEMMA ClickIs ==
    ASSUME SessionInv, Click
    PROVE  clicks' \in 0..MaxClicks
BY DashboardAssumption DEF SessionInv, Click

LEMMA Begins ==
    ASSUME SessionInv, Click, NEW i \in Slots, NEW task, GoodTask(server, task), Begin(i, task)
    PROVE  SessionInv' /\ Ahead(ui, ui')
<1>1. tasks' = [tasks EXCEPT ![i] = task] /\ UNCHANGED <<server, ui, refreshes, faults>>
  BY DEF Begin
<1>2. task \in TaskRows
  BY DEF GoodTask
<1>3. QED  BY <1>1, <1>2, ClickIs, TaskFacts DEF SessionInv

LEMMA OperatorKeeps ==
    ASSUME SessionInv, NEW i \in Slots,
           \/ Load(i) \/ RunAnalysis(i) \/ StartResumeRun(i)
           \/ CancelAnalysisRun(i) \/ CancelResumeRun(i)
    PROVE  SessionInv' /\ Ahead(ui, ui')
<1>1. GoodUi(server, ui) /\ GoodRuns(server["a"]) /\ GoodRuns(server["r"])
  BY TaskFacts
<1>2. /\ NoTask \in TaskRows /\ NoTask.a = NoRequest /\ NoTask.r = NoRequest
  BY NoTaskIsGood DEF GoodTask, NoTask
<1>3. \A what \in {"load", "start", "cancel"} : \A q : GoodRequest(server["a"], q) =>
          GoodTask(server, [NoTask EXCEPT !.what = what, !.a = q])
  BY <1>2, GoodNone DEF GoodTask, GoodRequest, TaskRows
<1>4. \A what \in {"load", "start", "cancel"} : \A q : GoodRequest(server["r"], q) =>
          GoodTask(server, [NoTask EXCEPT !.what = what, !.r = q])
  BY <1>2, GoodNone DEF GoodTask, GoodRequest, TaskRows
<1>5. CASE Load(i)
  <2>1. GoodTask(server, Loading)
    BY <1>1, LoadingIsGood
  <2>2. QED  BY <1>5, <2>1, Begins DEF Load
<1>6. CASE RunAnalysis(i)
  <2>1. GoodTask(server, [NoTask EXCEPT !.what = "start", !.a = Ask("start", 0)])
    BY <1>1, <1>3, GoodAsk
  <2>2. QED  BY <1>6, <2>1, Begins DEF RunAnalysis
<1>7. CASE StartResumeRun(i)
  <2>1. GoodTask(server, [NoTask EXCEPT !.what = "start", !.r = Ask("start", 0)])
    BY <1>1, <1>4, GoodAsk
  <2>2. QED  BY <1>7, <2>1, Begins DEF StartResumeRun
<1>8. CASE CancelAnalysisRun(i)
  <2> DEFINE run == ui.analysis.run
             task == [NoTask EXCEPT !.what = "cancel", !.a = Ask("cancel", run)]
  <2>1. ui.analysis # NoRun /\ run # 0 /\ run \in 1..Len(server["a"])
    BY <1>1, <1>8, NoRunIs DEF CancelAnalysisRun, IsActive, GoodUi, Past
  <2>2. Click /\ Begin(i, task)
    BY <1>8 DEF CancelAnalysisRun
  <2> HIDE DEF run
  <2>3. GoodTask(server, task)
    BY <1>1, <1>3, <2>1, GoodAsk
  <2> HIDE DEF task
  <2>4. QED  BY <2>2, <2>3, Begins
<1>9. CASE CancelResumeRun(i)
  <2> DEFINE run == ui.resume.run
             task == [NoTask EXCEPT !.what = "cancel", !.r = Ask("cancel", run)]
  <2>1. ui.resume # NoRun /\ run # 0 /\ run \in 1..Len(server["r"])
    BY <1>1, <1>9, NoRunIs DEF CancelResumeRun, IsActive, GoodUi, Past
  <2>2. Click /\ Begin(i, task)
    BY <1>9 DEF CancelResumeRun
  <2> HIDE DEF run
  <2>3. GoodTask(server, task)
    BY <1>1, <1>4, <2>1, GoodAsk
  <2> HIDE DEF task
  <2>4. QED  BY <2>2, <2>3, Begins
<1>10. QED  BY <1>5, <1>6, <1>7, <1>8, <1>9

\* The timer is cleared with the page.
LEMMA DisposeKeeps ==
    ASSUME SessionInv, Dispose
    PROVE  SessionInv' /\ Ahead(ui, ui')
<1> DEFINE left == [ui EXCEPT !.disposed = TRUE, !.timer = FALSE]
<1>1. GoodUi(server, ui) /\ ui' = left /\ UNCHANGED <<server, tasks, refreshes, faults>>
      /\ clicks' \in 0..MaxClicks
  BY ClickIs DEF SessionInv, Dispose
<1>2. left \in UiRows /\ left.analysis = ui.analysis /\ left.resume = ui.resume
      /\ left.refreshed = ui.refreshed /\ ~left.timer
  BY <1>1 DEF GoodUi, UiRows
<1> HIDE DEF left
<1>3. GoodUi(server, left) /\ Ahead(ui, left)
  BY <1>1, <1>2, SameIsAhead DEF GoodUi
<1>4. QED  BY <1>1, <1>2, <1>3 DEF SessionInv

-----------------------------------------------------------------------------
(* The API                                                                 *)

\* What was a snapshot stays one.
Later(runs, more) ==
    /\ GoodRuns(more)
    /\ Len(runs) <= Len(more)
    /\ \A s \in Snapshots : Past(runs, s) => Past(more, s)

LEMMA SameIsLater ==
    ASSUME NEW runs, GoodRuns(runs)
    PROVE  Later(runs, runs)
BY DEF Later, GoodRuns

\* A new run comes last.
LEMMA NewRunIsLater ==
    ASSUME NEW runs, GoodRuns(runs), Len(runs) < MaxRuns,
           NEW new, new = NewRun(Len(runs) + 1)
    PROVE  Later(runs, Append(runs, new)) /\ new \in Snapshots /\ new # NoRun
           /\ Past(Append(runs, new), new)
<1> DEFINE more == Append(runs, new)
<1>1. runs \in Seq(Snapshots) /\ Len(runs) \in Nat
  BY DEF GoodRuns
<1>2. /\ new \in Snapshots /\ new.run = Len(runs) + 1 /\ new # NoRun
      /\ new.stamp <= new.rev /\ new.rev <= new.rev /\ new.stamp <= new.stamp
  BY <1>1, NoRunIs, DashboardAssumption DEF Snapshots, NewRun
<1>3. /\ more \in Seq(Snapshots) /\ Len(more) = Len(runs) + 1 /\ more[Len(runs) + 1] = new
      /\ \A n \in 1..Len(runs) : more[n] = runs[n]
  BY <1>1, <1>2
<1> HIDE DEF more
<1>4. GoodRuns(more)
  BY <1>1, <1>2, <1>3, DashboardAssumption DEF GoodRuns
<1>5. \A s \in Snapshots : Past(runs, s) => Past(more, s)
  BY <1>1, <1>3 DEF Past
<1>6. Past(more, new)
  BY <1>1, <1>2, <1>3, DashboardAssumption DEF Past, Snapshots
<1>7. Later(runs, more)
  BY <1>1, <1>3, <1>4, <1>5 DEF Later
<1>8. QED  BY <1>2, <1>6, <1>7 DEF more

\* A run that is not over gets its next revision.
LEMMA NextRevIsLater ==
    ASSUME NEW runs, GoodRuns(runs), NEW n \in 1..Len(runs), ~ runs[n].finished,
           NEW next \in Snapshots, next.run = runs[n].run, next.rev = runs[n].rev + 1,
           next.stamp >= runs[n].stamp, next.stamp <= next.rev
    PROVE  Later(runs, [runs EXCEPT ![n] = next])
<1> DEFINE more == [runs EXCEPT ![n] = next]
<1>1. runs \in Seq(Snapshots) /\ Len(runs) \in Nat /\ runs[n] \in Snapshots
  BY DEF GoodRuns
<1>2. /\ more \in Seq(Snapshots) /\ Len(more) = Len(runs) /\ more[n] = next
      /\ \A m \in 1..Len(runs) : m # n => more[m] = runs[m]
  BY <1>1
<1> HIDE DEF more
<1>3. GoodRuns(more)
  BY <1>1, <1>2 DEF GoodRuns
<1>4. ASSUME NEW s \in Snapshots, Past(runs, s) PROVE Past(more, s)
  <2>1. CASE s = NoRun
    BY <2>1 DEF Past
  <2>2. CASE s.run \in 1..Len(runs) /\ s.run # n
    BY <1>2, <1>4, <2>2 DEF Past
  <2>3. CASE s # NoRun /\ s.run = n
    <3>1. s.rev <= runs[n].rev /\ s.stamp <= runs[n].stamp /\ ~ s.finished
      BY <1>4, <2>3 DEF Past
    <3>2. /\ s.rev \in Nat /\ runs[n].rev \in Nat
          /\ s.stamp \in Nat /\ runs[n].stamp \in Nat /\ next.stamp \in Nat
      BY <1>1, DashboardAssumption DEF Snapshots
    <3>3. s.rev <= next.rev /\ s.rev # next.rev /\ s.stamp <= next.stamp
      BY <3>1, <3>2
    <3>4. QED  BY <1>2, <2>3, <3>1, <3>3 DEF Past
  <2>4. QED  BY <1>4, <2>1, <2>2, <2>3 DEF Past
<1>5. Later(runs, more)
  BY <1>1, <1>2, <1>3, <1>4 DEF Later
<1>6. QED  BY <1>5 DEF more

\* What was known of the requests and of what is shown stays true when runs
\* are added and go on.
LEMMA ApiMoves ==
    ASSUME SessionInv, NEW k \in Parts, NEW more, Later(server[k], more),
           NEW srv, srv = [server EXCEPT ![k] = more]
    PROVE  /\ srv \in [Parts -> Seq(Snapshots)]
           /\ \A j \in Parts : GoodRuns(srv[j])
           /\ GoodUi(srv, ui)
           /\ \A i \in Slots : GoodTask(srv, tasks[i])
           /\ srv[k] = more
<1>1. server \in [Parts -> Seq(Snapshots)] /\ more \in Seq(Snapshots)
  BY DEF SessionInv, Later, GoodRuns
<1>2. srv \in [Parts -> Seq(Snapshots)] /\ srv[k] = more
      /\ \A j \in Parts \ {k} : srv[j] = server[j]
  BY <1>1
<1>3. \A j \in Parts : Later(server[j], srv[j])
  BY <1>2, SameIsLater DEF SessionInv
<1>4. Later(server["a"], srv["a"]) /\ Later(server["r"], srv["r"])
  BY <1>3 DEF Parts
<1>5. GoodUi(srv, ui)
  BY <1>4, TaskFacts DEF SessionInv, GoodUi, UiRows, Later
<1>6. ASSUME NEW i \in Slots PROVE GoodTask(srv, tasks[i])
  <2>1. \A runs, later, q : GoodRequest(runs, q) /\ GoodRuns(runs) /\ Later(runs, later) =>
            GoodRequest(later, q)
    BY DEF GoodRequest, Requests, Later, GoodRuns
  <2>2. GoodTask(server, tasks[i]) /\ GoodRuns(server["a"]) /\ GoodRuns(server["r"])
    BY TaskFacts
  <2>3. QED  BY <1>4, <2>1, <2>2 DEF GoodTask
<1>7. QED  BY <1>2, <1>3, <1>5, <1>6 DEF Later

\* A run that is shown as active is the last of its kind.
LEMMA ActiveIsLast ==
    ASSUME SessionInv, NEW k \in Parts, IsActive(Latest(k))
    PROVE  /\ Len(server[k]) \in 1..Len(server[k])
           /\ Latest(k) = server[k][Len(server[k])]
           /\ Latest(k) \in Snapshots /\ ~ Latest(k).finished
<1>1. server[k] \in Seq(Snapshots) /\ Len(server[k]) \in Nat
  BY DEF SessionInv
<1>2. server[k] # <<>>
  BY NoRunIs DEF Latest, IsActive
<1>3. QED  BY <1>1, <1>2 DEF Latest, IsActive

LEMMA ProceedKeeps ==
    ASSUME SessionInv, NEW k \in Parts, NEW finished \in BOOLEAN, Proceed(k, finished)
    PROVE  SessionInv' /\ Ahead(ui, ui')
<1> DEFINE runs == server[k]
           n == Len(runs)
           now == runs[n]
           rev == now.rev + 1
<1>0. PICK stamp \in NextStamps(k, now) :
          server' = [server EXCEPT ![k][n] =
             [now EXCEPT !.rev = rev, !.stamp = stamp, !.finished = finished]]
  BY ActiveIsLast DEF Proceed
<1> DEFINE next == [now EXCEPT !.rev = rev, !.stamp = stamp, !.finished = finished]
           more == [runs EXCEPT ![n] = next]
<1>1. /\ n \in 1..Len(runs) /\ ~ now.finished /\ now \in Snapshots
      /\ now.rev < MaxRev /\ GoodRuns(runs)
  BY ActiveIsLast DEF Proceed, SessionInv
<1>2. rev \in 0..MaxRev
  <2> HIDE DEF now
  <2>1. QED  BY <1>1, DashboardAssumption DEF Snapshots
<1>10. stamp \in Nat /\ stamp >= now.stamp /\ stamp <= rev
  <2>1. now.stamp \in Nat /\ now.rev \in Nat /\ now.stamp <= now.rev
    BY <1>1, DashboardAssumption DEF Snapshots, GoodRuns
  <2>2. stamp \in {now.stamp, now.stamp + 1, rev}
    BY <1>0 DEF NextStamps
  <2> HIDE DEF now
  <2>3. QED  BY <2>1, <2>2
<1>3. next \in Snapshots /\ next.run = now.run /\ next.rev = rev /\ next.stamp = stamp
  <2> HIDE DEF rev, now
  <2>1. QED  BY <1>1, <1>2, <1>10 DEF Snapshots
<1>4. server' = [server EXCEPT ![k] = more]
  <2>1. server' = [server EXCEPT ![k][n] = next]
    BY <1>0
  <2> HIDE DEF next, n
  <2>2. QED  BY <2>1
<1>5. UNCHANGED <<ui, tasks, refreshes, clicks, faults>>
  BY DEF Proceed
<1> HIDE DEF next
<1>6. Later(runs, more)
  BY <1>1, <1>3, <1>10, NextRevIsLater
<1> HIDE DEF more
<1>7. /\ server' \in [Parts -> Seq(Snapshots)]
      /\ \A j \in Parts : GoodRuns(server'[j])
      /\ GoodUi(server', ui)
      /\ \A i \in Slots : GoodTask(server', tasks[i])
  BY <1>4, <1>6, ApiMoves
<1>8. Ahead(ui, ui')
  BY <1>5, SameIsAhead DEF SessionInv
<1>9. QED  BY <1>5, <1>7, <1>8 DEF SessionInv

\* An answer: tasks[i] gets it in the place of part k.
LEMMA Replies ==
    ASSUME SessionInv, NEW i \in Slots, NEW k \in Parts, NEW srv,
           srv \in [Parts -> Seq(Snapshots)],
           \A j \in Parts : GoodRuns(srv[j]),
           GoodUi(srv, ui), \A j \in Slots : GoodTask(srv, tasks[j]),
           server' = srv,
           NEW served \in {"yes", "refused"}, NEW s \in Snapshots, Past(srv[k], s),
           served = "refused" => s # NoRun,
           Reply(i, k, served, s),
           UNCHANGED <<ui, refreshes, clicks, faults>>
    PROVE  SessionInv' /\ Ahead(ui, ui')
<1>1. tasks[i] \in TaskRows /\ GoodTask(srv, tasks[i]) /\ tasks \in [Slots -> TaskRows]
  BY DEF SessionInv
<1>2. ASSUME NEW task, GoodTask(srv, task), tasks' = [tasks EXCEPT ![i] = task]
      PROVE  SessionInv' /\ Ahead(ui, ui')
  <2>1. task \in TaskRows
    BY <1>2 DEF GoodTask
  <2>2. /\ tasks' \in [Slots -> TaskRows]
        /\ \A j \in Slots : GoodTask(srv, tasks'[j])
    BY <1>1, <1>2, <2>1
  <2>3. Ahead(ui, ui')
    BY TaskFacts
  <2>4. QED  BY <2>2, <2>3 DEF SessionInv
<1>3. CASE k = "a"
  <2> DEFINE q == [tasks[i].a EXCEPT !.served = served, !.snapshot = s]
             task == [tasks[i] EXCEPT !.a = q]
  <2>1. tasks' = [tasks EXCEPT ![i] = task]
    BY <1>1, <1>3 DEF Reply, TaskRows
  <2>2. GoodRequest(srv["a"], q)
    BY <1>1, <1>3 DEF GoodTask, GoodRequest, Requests
  <2> HIDE DEF q
  <2>3. GoodTask(srv, task)
    BY <1>1, <2>2, AsksA
  <2> HIDE DEF task
  <2>4. QED  BY <1>2, <2>1, <2>3
<1>4. CASE k = "r"
  <2> DEFINE q == [tasks[i].r EXCEPT !.served = served, !.snapshot = s]
             task == [tasks[i] EXCEPT !.r = q]
  <2>1. tasks' = [tasks EXCEPT ![i] = task]
    BY <1>1, <1>4 DEF Reply, TaskRows
  <2>2. GoodRequest(srv["r"], q)
    BY <1>1, <1>4 DEF GoodTask, GoodRequest, Requests
  <2> HIDE DEF q
  <2>3. GoodTask(srv, task)
    BY <1>1, <2>2, AsksR
  <2> HIDE DEF task
  <2>4. QED  BY <1>2, <2>1, <2>3
<1>5. QED  BY <1>3, <1>4 DEF Parts

LEMMA PartOfTask ==
    ASSUME NEW srv, NEW t, GoodTask(srv, t), NEW k \in Parts
    PROVE  GoodRequest(srv[k], t[k])
<1>1. CASE k = "a"
  BY <1>1 DEF GoodTask, TaskRows
<1>2. CASE k = "r"
  BY <1>2 DEF GoodTask, TaskRows
<1>3. QED  BY <1>1, <1>2 DEF Parts

\* Each run is a snapshot of itself, and so is the latest.
LEMMA RunsArePast ==
    ASSUME NEW runs, GoodRuns(runs), NEW n \in 1..Len(runs)
    PROVE  runs[n] \in Snapshots /\ Past(runs, runs[n])
<1>1. runs[n] \in Snapshots /\ runs[n].run = n
  BY DEF GoodRuns
<1>2. runs[n].rev <= runs[n].rev /\ runs[n].stamp <= runs[n].stamp
  BY <1>1, DashboardAssumption DEF Snapshots
<1>3. QED  BY <1>1, <1>2 DEF Past

LEMMA LatestIsPast ==
    ASSUME SessionInv, NEW k \in Parts
    PROVE  Latest(k) \in Snapshots /\ Past(server[k], Latest(k))
<1>1. GoodRuns(server[k]) /\ server[k] \in Seq(Snapshots)
  BY DEF SessionInv
<1>2. CASE server[k] = <<>>
  BY <1>2, NoRunIs DEF Latest, Past
<1>3. CASE server[k] # <<>>
  <2>1. Len(server[k]) \in 1..Len(server[k])
    BY <1>1, <1>3
  <2>2. QED  BY <1>1, <1>3, <2>1, RunsArePast DEF Latest
<1>4. QED  BY <1>2, <1>3

LEMMA ServeKeeps ==
    ASSUME SessionInv, NEW i \in Slots, NEW k \in Parts, Serve(i, k)
    PROVE  SessionInv' /\ Ahead(ui, ui')
<1> DEFINE runs == server[k]
           q == tasks[i][k]
<1>1. UNCHANGED <<ui, refreshes, clicks, faults>>
  BY DEF Serve
<1>2. GoodRuns(runs) /\ GoodRequest(runs, q)
  BY TaskFacts, PartOfTask DEF SessionInv
<1>3. /\ server \in [Parts -> Seq(Snapshots)] /\ \A j \in Parts : GoodRuns(server[j])
      /\ GoodUi(server, ui) /\ \A j \in Slots : GoodTask(server, tasks[j])
  BY DEF SessionInv
<1>4. Latest(k) \in Snapshots /\ Past(runs, Latest(k))
  BY LatestIsPast
<1>5. NoRun \in Snapshots /\ Past(runs, NoRun)
  BY NoRunIs DEF Past
<1>6. CASE ServeStart(i, k)
  <2> DEFINE new == NewRun(Len(runs) + 1)
             more == Append(runs, new)
             srv == [server EXCEPT ![k] = more]
  <2>1. CASE Len(runs) < MaxRuns /\ server' = srv /\ Reply(i, k, "yes", new)
    <3>1. Len(runs) < MaxRuns /\ server' = srv /\ Reply(i, k, "yes", new)
      BY <2>1
    <3>2. Later(runs, more) /\ new \in Snapshots /\ Past(more, new)
      BY <1>2, <2>1, NewRunIsLater
    <3> HIDE DEF new, more
    <3>3. /\ srv \in [Parts -> Seq(Snapshots)]
          /\ \A j \in Parts : GoodRuns(srv[j])
          /\ GoodUi(srv, ui)
          /\ \A j \in Slots : GoodTask(srv, tasks[j])
          /\ srv[k] = more
      BY <3>2, ApiMoves
    <3> HIDE DEF srv
    <3>4. QED  BY <1>1, <3>1, <3>2, <3>3, Replies
  <2>2. CASE IsActive(Latest(k)) /\ server' = server /\ Reply(i, k, "refused", Latest(k))
    <3>1. Latest(k) # NoRun
      BY <2>2, NoRunIs DEF IsActive
    <3>2. QED  BY <1>1, <1>3, <1>4, <2>2, <3>1, Replies
  <2>3. QED  BY <1>6, <2>1, <2>2 DEF ServeStart
<1>7. CASE ServeRead(i, k)
  <2> DEFINE s == CASE q.to \in {"get", "cancel"} -> runs[q.run]
                    [] q.to = "active" -> IF IsActive(Latest(k)) THEN Latest(k) ELSE NoRun
                    [] OTHER -> Latest(k)
  <2>1. q.to \in {"get", "cancel", "active", "latest"}
        /\ server' = server /\ Reply(i, k, "yes", s)
    BY <1>7 DEF ServeRead
  <2>2. s \in Snapshots /\ Past(runs, s)
    <3>1. CASE q.to \in {"get", "cancel"}
      <4>1. q.run \in 1..Len(runs)
        BY <1>2, <3>1 DEF GoodRequest
      <4>2. runs[q.run] \in Snapshots /\ Past(runs, runs[q.run])
        BY <1>2, <4>1, RunsArePast
      <4>3. s = runs[q.run]
        BY <3>1
      <4>4. QED  BY <4>2, <4>3
    <3>2. CASE q.to \in {"active", "latest"}
      <4>1. s \in {Latest(k), NoRun}
        BY <3>2
      <4>2. QED  BY <1>4, <1>5, <4>1
    <3>3. QED  BY <2>1, <3>1, <3>2
  <2> HIDE DEF s
  <2>3. QED  BY <1>1, <1>3, <2>1, <2>2, Replies
<1>8. QED  BY <1>6, <1>7 DEF Serve

-----------------------------------------------------------------------------
(* The theorems                                                            *)

LEMMA SessionStarts == Init => SessionInv
<1> SUFFICES ASSUME Init PROVE SessionInv
  OBVIOUS
<1> DEFINE one == NewRun(1)
<1>1. one \in Snapshots /\ one.run = 1 /\ one.stamp <= one.rev
  BY DashboardAssumption DEF Snapshots, NewRun
<1>2. GoodRuns(<<>>) /\ GoodRuns(<<one>>)
  <2> HIDE DEF one
  <2>1. <<>> \in Seq(Snapshots) /\ Len(<<>>) = 0
    OBVIOUS
  <2>2. <<one>> \in Seq(Snapshots) /\ Len(<<one>>) = 1 /\ <<one>>[1] = one
    BY <1>1
  <2>3. GoodRuns(<<>>)
    BY <2>1, DashboardAssumption DEF GoodRuns
  <2>4. GoodRuns(<<one>>)
    BY <1>1, <2>2, DashboardAssumption DEF GoodRuns
  <2>5. QED  BY <2>3, <2>4
<1>3. server \in [Parts -> {<<>>, <<one>>}]
  BY DEF Init
<1> HIDE DEF one
<1>4. /\ server \in [Parts -> Seq(Snapshots)]
      /\ \A k \in Parts : GoodRuns(server[k])
  <2>1. \A k \in Parts : server[k] = <<>> \/ server[k] = <<one>>
    BY <1>3
  <2>2. \A k \in Parts : GoodRuns(server[k])
    BY <1>2, <2>1
  <2>3. \A k \in Parts : server[k] \in Seq(Snapshots)
    BY <2>2 DEF GoodRuns
  <2>4. QED  BY <1>3, <2>2, <2>3
<1>5. GoodRuns(server["a"]) /\ GoodRuns(server["r"])
  BY <1>4 DEF Parts
<1>6. GoodUi(server, ui) /\ ui.refreshed = {}
  BY NoRunIs DEF Init, GoodUi, UiRows, Past
<1>7. GoodTask(server, NoTask)
  BY NoTaskIsGood
<1>8. GoodTask(server, Loading)
  BY <1>5, LoadingIsGood
<1>9. /\ tasks \in [Slots -> TaskRows] /\ \A i \in Slots : GoodTask(server, tasks[i])
  <2>1. PICK l, m \in Slots \ PollSlots :
            tasks = [i \in Slots |-> IF i \in {l, m} THEN Loading ELSE NoTask]
    BY DEF Init
  <2>2. QED  BY <1>7, <1>8, <2>1 DEF GoodTask
<1>10. Counted(refreshes, ui.refreshed)
  BY <1>6 DEF Init, Counted
<1>11. clicks \in 0..MaxClicks /\ faults \in 0..MaxFaults
  BY DashboardAssumption DEF Init
<1>12. QED  BY <1>4, <1>6, <1>9, <1>10, <1>11 DEF SessionInv

LEMMA SessionSteps ==
    ASSUME SessionInv, [Next]_vars
    PROVE  SessionInv' /\ Ahead(ui, ui')
<1>1. CASE UNCHANGED vars
  BY <1>1, SameIsAhead DEF vars, SessionInv
<1>2. ASSUME NEW k \in Parts, Proceed(k, TRUE) \/ Proceed(k, FALSE)
      PROVE  SessionInv' /\ Ahead(ui, ui')
  BY <1>2, ProceedKeeps
<1>3. ASSUME NEW i \in Slots, Poll(i) \/ Deliver(i)
      PROVE  SessionInv' /\ Ahead(ui, ui')
  BY <1>3, PollKeeps, DeliverDataKeeps, FollowKeeps, DeliverAnalysisKeeps, DeliverResumeKeeps
     DEF Deliver
<1>4. ASSUME NEW i \in Slots, NEW k \in Parts, Serve(i, k) \/ Fail(i, k)
      PROVE  SessionInv' /\ Ahead(ui, ui')
  BY <1>4, ServeKeeps, FailKeeps
<1>5. CASE Operator
  BY <1>5, DisposeKeeps, OperatorKeeps DEF Operator
<1>6. QED
  <2>1. CASE Next
    BY <1>2, <1>3, <1>4, <1>5, <2>1, Zenon DEF Next, Work
  <2>2. QED  BY <1>1, <2>1

LEMMA SessionInvHolds == Spec => []SessionInv
<1>1. SessionInv /\ [Next]_vars => SessionInv'
  BY SessionSteps
<1>2. QED  BY <1>1, SessionStarts, PTL DEF Spec

(* The session keeps its types: what it shows is a snapshot of a run the API *)
(* has, and a request that names a run names one of them.                    *)
THEOREM SessionTypes == Spec => []TypeOK
<1>1. SessionInv => TypeOK
  <2> SUFFICES ASSUME SessionInv PROVE TypeOK
    OBVIOUS
  <2>1. \A i \in Slots, k \in Parts :
           tasks[i][k].to \in {"get", "cancel"} => tasks[i][k].run \in 1..Len(server[k])
    BY PartOfTask DEF SessionInv, GoodRequest
  <2>2. refreshes \in [1..MaxRuns -> Nat]
    BY DEF SessionInv, Counted
  <2>3. QED  BY <2>1, <2>2 DEF SessionInv, TypeOK, GoodUi, UiRows, TaskRows
<1>2. QED  BY <1>1, SessionInvHolds, PTL

(* A terminal Analysis Run resets the queues once, whichever of polls, loads *)
(* and cancellations bring its end, and before it is shown as ended.         *)
THEOREM RefreshesOnce == Spec => []RefreshedOnce
<1>1. SessionInv => RefreshedOnce
  <2> SUFFICES ASSUME SessionInv PROVE RefreshedOnce
    OBVIOUS
  <2>1. refreshes = [n \in 1..MaxRuns |-> IF n \in ui.refreshed THEN 1 ELSE 0]
    BY DEF SessionInv, Counted
  <2>2. ui.refreshed \in SUBSET (1..MaxRuns)
        /\ (ui.analysis.finished => ui.analysis.run \in ui.refreshed)
    BY DEF SessionInv, GoodUi, UiRows
  <2>3. QED  BY <2>1, <2>2 DEF RefreshedOnce
<1>2. QED  BY <1>1, SessionInvHolds, PTL

(* Once dispose has run no answer sets the timer again.                      *)
THEOREM DisposedStaysQuiet == Spec => []DisposedIsQuiet
<1>1. SessionInv => DisposedIsQuiet
  BY DEF SessionInv, GoodUi, DisposedIsQuiet
<1>2. QED  BY <1>1, SessionInvHolds, PTL

-----------------------------------------------------------------------------
(* Snapshots in order                                                      *)

Rows(k) == {server[k][n] : n \in 1..Len(server[k])}

\* The snapshots the session has: shown, or in an answer.
Held(k) ==
    {IF k = "a" THEN ui.analysis ELSE ui.resume} \cup {tasks[i][k].snapshot : i \in Slots}

\* Of two snapshots of a run the later is not stamped earlier.
InOrder(s, t) == s.run = t.run /\ s.rev < t.rev => s.stamp <= t.stamp

HeldInv ==
    /\ \A s, t \in Held("a") : InOrder(s, t)
    /\ \A s \in Held("r") \cup Rows("r") : Numbered(s)

\* A task has what it or another had before, or what the API answers now; what
\* is shown was an answer or was shown before.
FromBefore ==
    /\ ui'.analysis \in Held("a")
    /\ ui'.resume \in Held("r")
    /\ \A i \in Slots : tasks'[i].a.snapshot \in Held("a") \cup {NoRun} \cup Rows("a")'
    /\ \A i \in Slots : tasks'[i].r.snapshot \in Held("r") \cup {NoRun} \cup Rows("r")'

LEMMA IsHeld ==
    /\ ui.analysis \in Held("a") /\ ui.resume \in Held("r")
    /\ \A i \in Slots : tasks[i].a.snapshot \in Held("a") /\ tasks[i].r.snapshot \in Held("r")
BY DEF Held

\* A task that has these snapshots goes on and shows those.
Keeps(task, u) ==
    /\ task \in TaskRows
    /\ task.a.snapshot \in Held("a") \cup {NoRun}
    /\ task.r.snapshot \in Held("r") \cup {NoRun}
    /\ u \in UiRows
    /\ u.analysis \in Held("a")
    /\ u.resume \in Held("r")

LEMMA ContinuesFromBefore ==
    ASSUME SessionInv, NEW i \in Slots, NEW task, NEW u, Keeps(task, u), Continue(i, task, u)
    PROVE  FromBefore
<1> DEFINE next == IF task.a = NoRequest /\ task.r = NoRequest THEN NoTask ELSE task
<1>1. tasks' = [tasks EXCEPT ![i] = next] /\ ui' \in {u, Schedule(u)}
  BY DEF Continue
<1>2. /\ next.a.snapshot \in Held("a") \cup {NoRun}
      /\ next.r.snapshot \in Held("r") \cup {NoRun}
  BY DEF Keeps, NoTask, NoRequest
<1> HIDE DEF next
<1>3. \A j \in Slots : tasks'[j] = IF j = i THEN next ELSE tasks[j]
  BY <1>1 DEF SessionInv
<1>4. ui'.analysis = u.analysis /\ ui'.resume = u.resume
  BY <1>1 DEF Schedule, Keeps, UiRows
<1>5. QED  BY <1>2, <1>3, <1>4, IsHeld DEF FromBefore, Keeps

LEMMA RequestsKeep ==
    ASSUME SessionInv, NEW i \in Slots, NEW q \in Requests, q.snapshot = NoRun,
           NEW u \in UiRows, u.analysis \in Held("a"), u.resume \in Held("r")
    PROVE  /\ Keeps([tasks[i] EXCEPT !.a = q], u)
           /\ Keeps([tasks[i] EXCEPT !.r = q], u)
           /\ Keeps(NoTask, u) /\ Keeps(Loading, u)
<1>1. tasks[i] \in TaskRows
  BY DEF SessionInv
<1>2. NoTask \in TaskRows /\ Loading \in TaskRows
  BY NoTaskIsGood, LoadingIsGood, TaskFacts DEF GoodTask
<1>3. /\ NoTask.a.snapshot = NoRun /\ NoTask.r.snapshot = NoRun
      /\ Loading.a.snapshot = NoRun /\ Loading.r.snapshot = NoRun
  BY DEF Loading, NoTask, Ask, NoRequest
<1>4. \A p \in {"a", "r"} :
          [tasks[i] EXCEPT ![p] = q] \in TaskRows
  BY <1>1 DEF TaskRows
<1>5. /\ [tasks[i] EXCEPT !.a = q].a = q /\ [tasks[i] EXCEPT !.a = q].r = tasks[i].r
      /\ [tasks[i] EXCEPT !.r = q].r = q /\ [tasks[i] EXCEPT !.r = q].a = tasks[i].a
  BY <1>1 DEF TaskRows
<1>6. QED  BY <1>2, <1>3, <1>4, <1>5, IsHeld DEF Keeps

\* A new request has no snapshot yet.
LEMMA AskedHasNone ==
    /\ NoRequest \in Requests /\ NoRequest.snapshot = NoRun
    /\ \A to \in {"data", "active", "latest", "get", "start", "cancel"}, run \in 0..MaxRuns :
          Ask(to, run) \in Requests /\ Ask(to, run).snapshot = NoRun
<1>1. NoRequest \in Requests /\ NoRequest.snapshot = NoRun
  BY NoRunIs, DashboardAssumption DEF Requests, NoRequest
<1>2. QED  BY <1>1 DEF Ask, Requests

LEMMA AfterAKeeps ==
    ASSUME SessionInv, NEW i \in Slots,
           NEW u \in UiRows, u.analysis \in Held("a"), u.resume \in Held("r")
    PROVE  Keeps(AfterA(tasks[i]), u)
<1> DEFINE t == tasks[i]
           q == IF t.what = "load" THEN Ask("active", 0) ELSE t.r
           next == [t EXCEPT !.a = NoRequest, !.r = q]
<1>1. t \in TaskRows /\ t.r \in Requests
  BY DEF SessionInv, TaskRows
<1>2. q \in Requests /\ q.snapshot \in Held("r") \cup {NoRun}
  BY <1>1, AskedHasNone, DashboardAssumption, IsHeld
<1>3. AfterA(t) = next
  BY DEF AfterA
<1> HIDE DEF q, t
<1>4. next \in TaskRows /\ next.a = NoRequest /\ next.r = q
  BY <1>1, <1>2, AskedHasNone DEF TaskRows
<1> HIDE DEF next
<1>5. QED  BY <1>2, <1>3, <1>4, AskedHasNone DEF Keeps, t

\* What is shown after an answer was shown before or is in the answer.
LEMMA ShowsHeld ==
    ASSUME SessionInv, NEW i \in Slots
    PROVE  /\ ui \in UiRows
           /\ tasks[i].a.snapshot # NoRun =>
                 LET u == ShowAnalysis(ui, tasks[i].a.snapshot)
                 IN  u \in UiRows /\ u.analysis \in Held("a") /\ u.resume \in Held("r")
           /\ tasks[i].r.snapshot # NoRun =>
                 LET u == ShowResume(ui, tasks[i].r.snapshot)
                 IN  u \in UiRows /\ u.analysis \in Held("a") /\ u.resume \in Held("r")
<1>1. GoodUi(server, ui) /\ GoodRuns(server["a"]) /\ GoodRuns(server["r"])
      /\ GoodTask(server, tasks[i])
  BY TaskFacts
<1>2. ui \in UiRows
  BY <1>1 DEF GoodUi
<1>3. ASSUME NEW s, s = tasks[i].a.snapshot, s # NoRun
      PROVE  LET u == ShowAnalysis(ui, s)
             IN  u \in UiRows /\ u.analysis \in Held("a") /\ u.resume \in Held("r")
  <2>1. s \in Snapshots /\ Past(server["a"], s)
    BY <1>1, <1>3 DEF GoodTask, GoodRequest, Requests
  <2>2. ShowAnalysis(ui, s) \in UiRows /\ ShowAnalysis(ui, s).resume = ui.resume
    BY <1>1, <1>3, <2>1, AnalysisShown DEF GoodUi
  <2>3. ShowAnalysis(ui, s).analysis \in {ui.analysis, s}
    BY <1>2 DEF ShowAnalysis, Schedule, UiRows
  <2>4. QED  BY <1>3, <2>2, <2>3, IsHeld
<1>4. ASSUME NEW s, s = tasks[i].r.snapshot, s # NoRun
      PROVE  LET u == ShowResume(ui, s)
             IN  u \in UiRows /\ u.analysis \in Held("a") /\ u.resume \in Held("r")
  <2>1. s \in Snapshots /\ Past(server["r"], s)
    BY <1>1, <1>4 DEF GoodTask, GoodRequest, Requests
  <2>2. ShowResume(ui, s) \in UiRows /\ ShowResume(ui, s).analysis = ui.analysis
    BY <1>1, <1>4, <2>1, ResumeShown DEF GoodUi
  <2>3. ShowResume(ui, s).resume \in {ui.resume, s}
    BY <1>2 DEF ShowResume, Schedule, UiRows
  <2>4. QED  BY <1>4, <2>2, <2>3, IsHeld
<1>5. QED  BY <1>2, <1>3, <1>4

LEMMA PollsHeld ==
    ASSUME NEW u \in UiRows, u.analysis \in Held("a"), u.resume \in Held("r"), NEW what
    PROVE  LET v == AfterPollA(what, u)
           IN  v \in UiRows /\ v.analysis \in Held("a") /\ v.resume \in Held("r")
<1>1. Due(u) \in BOOLEAN
  BY DEF Due, IsActive, UiRows, Snapshots
<1>2. QED  BY <1>1 DEF AfterPollA, Schedule, UiRows

LEMMA TasksFromBefore ==
    ASSUME SessionInv, NEW i \in Slots,
           Poll(i) \/ Deliver(i) \/ \E k \in Parts : Fail(i, k)
    PROVE  FromBefore
<1> DEFINE t == tasks[i]
           A == t.a.snapshot
           R == t.r.snapshot
<1>1. ui \in UiRows /\ ui.analysis \in Held("a") /\ ui.resume \in Held("r")
  BY ShowsHeld, IsHeld
<1>2. \A to \in {"data", "active", "latest", "get", "start", "cancel"}, run \in 0..MaxRuns :
          /\ Keeps([t EXCEPT !.a = Ask(to, run)], ui)
          /\ Keeps([t EXCEPT !.r = Ask(to, run)], ui)
  BY <1>1, AskedHasNone, RequestsKeep
<1>0. 0 \in 0..MaxRuns
  BY DashboardAssumption
<1>3. Keeps([t EXCEPT !.r = NoRequest], ui) /\ Keeps(NoTask, ui) /\ Keeps(Loading, ui)
  BY <1>1, AskedHasNone, RequestsKeep
<1>4. Keeps(AfterA(t), AfterPollA(t.what, ui))
  BY <1>1, PollsHeld, AfterAKeeps
<1>5. CASE DeliverData(i)
  <2>1. \/ Continue(i, [t EXCEPT !.a = Ask("active", 0)], ui)
        \/ Continue(i, AfterA(t), AfterPollA(t.what, ui))
    BY <1>5 DEF DeliverData
  <2>2. Keeps([t EXCEPT !.a = Ask("active", 0)], ui)
    BY <1>0, <1>2
  <2> HIDE DEF t
  <2>3. QED  BY <1>4, <2>1, <2>2, ContinuesFromBefore
<1>6. CASE Follow(i)
  <2>1. A.run \in 0..MaxRuns
    BY DEF SessionInv, TaskRows, Requests, Snapshots
  <2>2. QED  BY <1>2, <1>6, <2>1, ContinuesFromBefore DEF Follow
<1>7. CASE DeliverAnalysis(i)
  <2> DEFINE shown == ShowAnalysis(ui, A)
  <2>1. A # NoRun => shown \in UiRows /\ shown.analysis \in Held("a")
                     /\ shown.resume \in Held("r")
    BY ShowsHeld
  <2>2. A # NoRun => Keeps(AfterA(t), AfterPollA(t.what, shown))
    BY <2>1, PollsHeld, AfterAKeeps
  <2>3. A # NoRun => Keeps([t EXCEPT !.a = Ask("data", 0)], shown)
    <3>1. Ask("data", 0) \in Requests /\ Ask("data", 0).snapshot = NoRun
      BY <1>0, AskedHasNone
    <3> HIDE DEF shown
    <3>2. QED  BY <2>1, <3>1, RequestsKeep
  <2>4. \/ Continue(i, AfterA(t), AfterPollA(t.what, ui))
        \/ A # NoRun /\ Continue(i, [t EXCEPT !.a = Ask("data", 0)], shown)
        \/ A # NoRun /\ Continue(i, AfterA(t), AfterPollA(t.what, shown))
    BY <1>7 DEF DeliverAnalysis
  <2> HIDE DEF t, shown
  <2>5. QED  BY <1>4, <2>2, <2>3, <2>4, ContinuesFromBefore
<1>8. CASE DeliverResume(i)
  <2> DEFINE shown == ShowResume(ui, R)
  <2>1. R # NoRun => shown \in UiRows /\ shown.analysis \in Held("a")
                     /\ shown.resume \in Held("r")
    BY ShowsHeld
  <2>2. R # NoRun => Keeps([t EXCEPT !.r = NoRequest], shown)
    BY <2>1, AskedHasNone, RequestsKeep
  <2>3. Keeps([t EXCEPT !.r = Ask("latest", 0)], ui)
    BY <1>0, <1>2
  <2>4. \/ Continue(i, [t EXCEPT !.r = NoRequest], ui)
        \/ Continue(i, [t EXCEPT !.r = Ask("latest", 0)], ui)
        \/ R # NoRun /\ Continue(i, [t EXCEPT !.r = NoRequest], shown)
    BY <1>8 DEF DeliverResume
  <2> HIDE DEF t, shown
  <2>5. QED  BY <1>3, <2>2, <2>3, <2>4, ContinuesFromBefore
<1>9. ASSUME NEW k \in Parts, Fail(i, k) PROVE FromBefore
  <2>1. \/ Continue(i, [t EXCEPT !.r = NoRequest], ui)
        \/ Continue(i, NoTask, ui)
        \/ Continue(i, Loading, ui)
        \/ Continue(i, AfterA(t), AfterPollA(t.what, ui))
    BY <1>9 DEF Fail, Parts
  <2> HIDE DEF t
  <2>2. QED  BY <1>3, <1>4, <2>1, ContinuesFromBefore
<1>10. CASE Poll(i)
  <2> DEFINE a == IF Polling \/ ui.disposed THEN NoRequest ELSE Polled(ui.analysis)
             r == Polled(ui.resume)
             task == [what |-> "poll", a |-> a, r |-> r]
             u == [ui EXCEPT !.timer = FALSE]
  <2>1. Continue(i, task, u)
    BY <1>10 DEF Poll
  <2>2. ui.analysis.run \in 0..MaxRuns /\ ui.resume.run \in 0..MaxRuns
    BY <1>1 DEF UiRows, Snapshots
  <2>3. a \in Requests /\ a.snapshot = NoRun /\ r \in Requests /\ r.snapshot = NoRun
    BY <2>2, AskedHasNone DEF Polled
  <2> HIDE DEF a, r
  <2>4. task \in TaskRows /\ task.a = a /\ task.r = r
    BY <2>3 DEF TaskRows
  <2>5. u \in UiRows /\ u.analysis = ui.analysis /\ u.resume = ui.resume
    BY <1>1 DEF UiRows
  <2> HIDE DEF task, u
  <2>6. QED  BY <1>1, <2>1, <2>3, <2>4, <2>5, ContinuesFromBefore DEF Keeps
<1>11. QED  BY <1>5, <1>6, <1>7, <1>8, <1>9, <1>10 DEF Deliver

\* The API answers with a run, or with none.
LEMMA ServesFromRows ==
    ASSUME SessionInv, NEW i \in Slots, NEW k \in Parts, Serve(i, k)
    PROVE  FromBefore
<1>1. PICK served, s : Reply(i, k, served, s) /\ s \in {NoRun} \cup Rows(k)'
  <2>1. Latest(k) \in {NoRun} \cup Rows(k)
    BY DEF Latest, Rows, SessionInv
  <2>2. CASE ServeStart(i, k)
    <3> DEFINE new == NewRun(Len(server[k]) + 1)
               more == Append(server[k], new)
    <3>1. CASE server' = [server EXCEPT ![k] = more] /\ Reply(i, k, "yes", new)
      <4>1. server[k] \in Seq(Snapshots) /\ server'[k] = more
        BY <3>1 DEF SessionInv
      <4>2. Len(more) = Len(server[k]) + 1 /\ more[Len(more)] = new /\ Len(more) \in 1..Len(more)
        <5> HIDE DEF new
        <5>1. Len(server[k]) \in Nat
          BY <4>1
        <5>2. QED  BY <4>1, <5>1
      <4> HIDE DEF new, more
      <4>3. new \in Rows(k)'
        BY <4>1, <4>2 DEF Rows
      <4>4. QED  BY <3>1, <4>3
    <3>2. CASE server' = server /\ Reply(i, k, "refused", Latest(k))
      BY <2>1, <3>2 DEF Rows
    <3>3. QED  BY <2>2, <3>1, <3>2 DEF ServeStart
  <2>3. CASE ServeRead(i, k)
    <3> DEFINE q == tasks[i][k]
               s == CASE q.to \in {"get", "cancel"} -> server[k][q.run]
                      [] q.to = "active" -> IF IsActive(Latest(k)) THEN Latest(k) ELSE NoRun
                      [] OTHER -> Latest(k)
    <3>1. server' = server /\ Reply(i, k, "yes", s)
      BY <2>3 DEF ServeRead
    <3>2. s \in {NoRun} \cup Rows(k)
      <4>1. CASE q.to \in {"get", "cancel"}
        <5>1. q.run \in 1..Len(server[k])
          BY <4>1, TaskFacts, PartOfTask DEF GoodRequest
        <5>2. QED  BY <4>1, <5>1 DEF Rows
      <4>2. CASE q.to \notin {"get", "cancel"}
        BY <2>1, <4>2
      <4>3. QED  BY <4>1, <4>2
    <3> HIDE DEF s
    <3>3. QED  BY <3>1, <3>2 DEF Rows
  <2>4. QED  BY <2>2, <2>3 DEF Serve
<1>2. tasks \in [Slots -> TaskRows] /\ ui' = ui
  BY DEF SessionInv, Serve
<1>3. CASE k = "a"
  <2>1. \A j \in Slots : /\ tasks'[j].a.snapshot = IF j = i THEN s ELSE tasks[j].a.snapshot
                         /\ tasks'[j].r = tasks[j].r
    BY <1>1, <1>2, <1>3 DEF Reply, TaskRows, Requests
  <2>2. QED  BY <1>1, <1>2, <1>3, <2>1, IsHeld DEF FromBefore
<1>4. CASE k = "r"
  <2>1. \A j \in Slots : /\ tasks'[j].r.snapshot = IF j = i THEN s ELSE tasks[j].r.snapshot
                         /\ tasks'[j].a = tasks[j].a
    BY <1>1, <1>2, <1>4 DEF Reply, TaskRows, Requests
  <2>2. QED  BY <1>1, <1>2, <1>4, <2>1, IsHeld DEF FromBefore
<1>5. QED  BY <1>3, <1>4 DEF Parts

LEMMA OperatorFromBefore ==
    ASSUME SessionInv, Operator
    PROVE  FromBefore
<1>1. CASE Dispose
  <2>1. ui'.analysis = ui.analysis /\ ui'.resume = ui.resume /\ tasks' = tasks
    BY <1>1 DEF Dispose, SessionInv, GoodUi, UiRows
  <2>2. QED  BY <2>1, IsHeld DEF FromBefore
<1>2. ASSUME NEW i \in Slots, NEW task, Begin(i, task),
             task.a.snapshot = NoRun, task.r.snapshot = NoRun
      PROVE  FromBefore
  <2>1. ui' = ui /\ \A j \in Slots : tasks'[j] = IF j = i THEN task ELSE tasks[j]
    BY <1>2 DEF Begin, SessionInv
  <2>2. QED  BY <1>2, <2>1, IsHeld DEF FromBefore
<1>3. ASSUME NEW i \in Slots, NEW what, NEW to, NEW run,
             \/ Begin(i, [NoTask EXCEPT !.what = what, !.a = Ask(to, run)])
             \/ Begin(i, [NoTask EXCEPT !.what = what, !.r = Ask(to, run)])
      PROVE  FromBefore
  <2> DEFINE a == [NoTask EXCEPT !.what = what, !.a = Ask(to, run)]
             r == [NoTask EXCEPT !.what = what, !.r = Ask(to, run)]
  <2>1. /\ a.a.snapshot = NoRun /\ a.r.snapshot = NoRun
        /\ r.a.snapshot = NoRun /\ r.r.snapshot = NoRun
    BY DEF NoTask, NoRequest, Ask
  <2>2. Begin(i, a) \/ Begin(i, r)
    BY <1>3
  <2> HIDE DEF a, r
  <2>3. QED  BY <1>2, <2>1, <2>2
<1>4. ASSUME NEW i \in Slots,
             \/ Load(i) \/ RunAnalysis(i) \/ StartResumeRun(i)
             \/ CancelAnalysisRun(i) \/ CancelResumeRun(i)
      PROVE  FromBefore
  <2>1. CASE Load(i)
    BY <1>3, <2>1 DEF Load, Loading
  <2>2. CASE RunAnalysis(i)
    BY <1>3, <2>2 DEF RunAnalysis
  <2>3. CASE StartResumeRun(i)
    BY <1>3, <2>3 DEF StartResumeRun
  <2>4. CASE CancelAnalysisRun(i)
    <3>1. Begin(i, [NoTask EXCEPT !.what = "cancel", !.a = Ask("cancel", ui.analysis.run)])
      BY <2>4 DEF CancelAnalysisRun
    <3>2. QED  BY <1>3, <3>1
  <2>5. CASE CancelResumeRun(i)
    <3>1. Begin(i, [NoTask EXCEPT !.what = "cancel", !.r = Ask("cancel", ui.resume.run)])
      BY <2>5 DEF CancelResumeRun
    <3>2. QED  BY <1>3, <3>1
  <2>6. QED  BY <1>4, <2>1, <2>2, <2>3, <2>4, <2>5
<1>5. QED  BY <1>1, <1>4 DEF Operator

\* Runs begin and go on: a Resume Run with the next revision.
LEMMA RowsNumbered ==
    ASSUME SessionInv, HeldInv, [Next]_vars
    PROVE  \A s \in Rows("r")' : Numbered(s)
<1>1. \A n \in 1..Len(server["r"]) : Numbered(server["r"][n])
  BY DEF HeldInv, Rows
<1>2. GoodRuns(server["r"]) /\ server \in [Parts -> Seq(Snapshots)]
  BY DEF SessionInv, Parts
<1>3. ASSUME server'["r"] = server["r"] PROVE \A s \in Rows("r")' : Numbered(s)
  BY <1>1, <1>3 DEF Rows
<1>4. ASSUME NEW k \in Parts, NEW finished \in BOOLEAN, Proceed(k, finished)
      PROVE  \A s \in Rows("r")' : Numbered(s)
  <2>1. CASE k = "a"
    BY <1>2, <1>3, <1>4, <2>1 DEF Proceed, Parts
  <2>2. CASE k = "r"
    <3> DEFINE runs == server["r"]
               n == Len(runs)
               now == runs[n]
               next == [now EXCEPT !.rev = now.rev + 1, !.stamp = now.rev + 1,
                                   !.finished = finished]
    <3>1. n \in 1..Len(runs) /\ Latest("r") = now /\ now \in Snapshots
      BY <1>4, <2>2, ActiveIsLast DEF Proceed
    <3>2. server' = [server EXCEPT !["r"][n] = next]
      BY <1>4, <2>2, <3>1 DEF Proceed, NextStamps
    <3>3. Numbered(next)
      <4> HIDE DEF now
      <4>1. QED  BY <3>1 DEF Numbered, Snapshots
    <3> HIDE DEF next, now
    <3>4. server'["r"] = [runs EXCEPT ![n] = next]
      BY <1>2, <3>2 DEF Parts
    <3>5. \A m \in 1..Len(server'["r"]) : Numbered(server'["r"][m])
      <4>1. runs \in Seq(Snapshots)
        BY <1>2 DEF GoodRuns
      <4>2. QED  BY <1>1, <3>1, <3>3, <3>4, <4>1
    <3>6. QED  BY <3>5 DEF Rows
  <2>3. QED  BY <2>1, <2>2 DEF Parts
<1>5. ASSUME NEW i \in Slots, NEW k \in Parts, Serve(i, k)
      PROVE  \A s \in Rows("r")' : Numbered(s)
  <2>1. CASE server'["r"] = server["r"]
    BY <1>3, <2>1
  <2>2. CASE k = "r" /\ server' = [server EXCEPT !["r"] = Append(@, NewRun(Len(@) + 1))]
    <3> DEFINE runs == server["r"]
               new == NewRun(Len(runs) + 1)
    <3>1. server'["r"] = Append(runs, new) /\ runs \in Seq(Snapshots)
      BY <1>2, <2>2 DEF Parts, GoodRuns
    <3>2. Numbered(new)
      BY DEF Numbered, NewRun
    <3> HIDE DEF new
    <3>3. \A m \in 1..Len(server'["r"]) : Numbered(server'["r"][m])
      BY <1>1, <3>1, <3>2
    <3>4. QED  BY <3>3 DEF Rows
  <2>3. QED
    BY <1>2, <1>5, <2>1, <2>2 DEF Serve, ServeStart, ServeRead, Parts
<1>6. QED
  <2>1. CASE UNCHANGED vars
    BY <1>3, <2>1 DEF vars
  <2>2. CASE Work
    BY <1>4, <2>2 DEF Work
  <2>3. CASE Operator
    BY <1>3, <2>3 DEF Operator, Dispose, Load, RunAnalysis, StartResumeRun,
                      CancelAnalysisRun, CancelResumeRun, Begin
  <2>4. ASSUME NEW i \in Slots, Poll(i) \/ Deliver(i) \/ \E k \in Parts : Fail(i, k)
        PROVE  \A s \in Rows("r")' : Numbered(s)
    BY <1>3, <2>4 DEF Poll, Deliver, DeliverData, Follow, DeliverAnalysis, DeliverResume, Fail
  <2>5. CASE Next
    BY <1>5, <2>2, <2>3, <2>4, <2>5, Zenon DEF Next
  <2>6. QED  BY <2>1, <2>5

LEMMA StepsFromBefore ==
    ASSUME SessionInv, [Next]_vars
    PROVE  FromBefore
<1>1. CASE UNCHANGED vars
  BY <1>1, IsHeld DEF vars, FromBefore
<1>2. ASSUME UNCHANGED <<ui, tasks>> PROVE FromBefore
  BY <1>2, IsHeld DEF FromBefore
<1>3. ASSUME NEW k \in Parts, Proceed(k, TRUE) \/ Proceed(k, FALSE) PROVE FromBefore
  BY <1>2, <1>3 DEF Proceed
<1>4. ASSUME NEW i \in Slots, Poll(i) \/ Deliver(i) PROVE FromBefore
  BY <1>4, TasksFromBefore
<1>5. ASSUME NEW i \in Slots, NEW k \in Parts, Serve(i, k) \/ Fail(i, k) PROVE FromBefore
  BY <1>5, ServesFromRows, TasksFromBefore
<1>6. CASE Operator
  BY <1>6, OperatorFromBefore
<1>7. QED
  <2>1. CASE Next
    BY <1>3, <1>4, <1>5, <1>6, <2>1, Zenon DEF Next, Work
  <2>2. QED  BY <1>1, <2>1

LEMMA HeldStarts == Init => HeldInv
<1> SUFFICES ASSUME Init PROVE HeldInv
  OBVIOUS
<1>1. /\ ui.analysis = NoRun /\ ui.resume = NoRun
      /\ \A i \in Slots : tasks[i].a.snapshot = NoRun /\ tasks[i].r.snapshot = NoRun
  BY DEF Init, Loading, NoTask, Ask, NoRequest
<1>2. Held("a") = {NoRun} /\ Held("r") = {NoRun}
  BY <1>1 DEF Held
<1>3. \A s \in Rows("r") : s = NewRun(1)
  <2>1. server["r"] = <<>> \/ server["r"] = <<NewRun(1)>>
    BY DEF Init, Parts
  <2>2. Len(<<>>) = 0 /\ Len(<<NewRun(1)>>) = 1 /\ <<NewRun(1)>>[1] = NewRun(1)
    OBVIOUS
  <2>3. QED  BY <2>1, <2>2 DEF Rows
<1>4. Numbered(NoRun) /\ Numbered(NewRun(1)) /\ InOrder(NoRun, NoRun)
  BY DEF Numbered, NoRun, NewRun, InOrder
<1>5. QED  BY <1>2, <1>3, <1>4 DEF HeldInv

LEMMA HeldSteps ==
    ASSUME SessionInv, SessionInv', HeldInv, [Next]_vars
    PROVE  HeldInv'
<1>1. FromBefore
  BY StepsFromBefore
<1>2. Held("a")' \subseteq Held("a") \cup {NoRun} \cup Rows("a")'
  BY <1>1 DEF FromBefore, Held
<1>3. Held("r")' \subseteq Held("r") \cup {NoRun} \cup Rows("r")'
  BY <1>1 DEF FromBefore, Held
<1>4. \A s \in Held("r")' \cup Rows("r")' : Numbered(s)
  <2>1. Numbered(NoRun)
    BY DEF Numbered, NoRun
  <2>2. QED  BY <1>3, <2>1, RowsNumbered DEF HeldInv
<1>5. ASSUME NEW s \in Held("a")', NEW t \in Held("a")' PROVE InOrder(s, t)
  <2>1. /\ s \in Snapshots /\ Past(server'["a"], s)
        /\ t \in Snapshots /\ Past(server'["a"], t)
    BY DEF Held, SessionInv, GoodUi, UiRows, GoodTask, GoodRequest, Requests
  <2>2. CASE s \in Held("a") /\ t \in Held("a")
    BY <2>2 DEF HeldInv
  <2>3. CASE s = NoRun \/ t = NoRun
    <3>1. \A m \in 1..Len(server'["a"]) : m # 0
      OBVIOUS
    <3>2. s.run = t.run => s = NoRun /\ t = NoRun
      BY <2>1, <2>3, <3>1, NoRunIs DEF Past
    <3>3. QED  BY <3>2 DEF InOrder, NoRun
  <2>4. CASE s \in Rows("a")' /\ t # NoRun
    <3>1. s = server'["a"][s.run]
      BY <2>4 DEF Rows, SessionInv, GoodRuns, Parts
    <3>2. s.run = t.run => t.rev <= s.rev
      BY <2>1, <2>4, <3>1 DEF Past
    <3>3. s.rev \in Nat /\ t.rev \in Nat
      BY <2>1, DashboardAssumption DEF Snapshots
    <3>4. QED  BY <3>2, <3>3 DEF InOrder
  <2>5. CASE t \in Rows("a")' /\ s # NoRun
    <3>1. t = server'["a"][t.run]
      BY <2>5 DEF Rows, SessionInv, GoodRuns, Parts
    <3>2. s.run = t.run => s.stamp <= t.stamp
      BY <2>1, <2>5, <3>1 DEF Past
    <3>3. QED  BY <3>2 DEF InOrder
  <2>6. QED  BY <1>2, <2>2, <2>3, <2>4, <2>5
<1>6. QED  BY <1>4, <1>5 DEF HeldInv

LEMMA HeldInvHolds == Spec => []HeldInv
<1>1. SessionInv /\ SessionInv' /\ HeldInv /\ [Next]_vars => HeldInv'
  BY HeldSteps
<1>2. QED  BY <1>1, SessionInvHolds, HeldStarts, PTL DEF Spec

(* However answers pass each other, acceptAnalysisRun takes back what it     *)
(* shows of a run only for another snapshot of the same updatedAt, and never *)
(* its end; acceptResumeRun, whose revisions tell all snapshots apart, never *)
(* goes back.  For any number of tasks, runs and changes.                    *)
THEOREM NeverStepsBack == Spec => NoStepBack
<1> DEFINE Forward ==
        /\ ui'.analysis.run = ui.analysis.run =>
              /\ ui'.analysis.rev < ui.analysis.rev => ui'.analysis.stamp = ui.analysis.stamp
              /\ ui.analysis.finished => ui'.analysis.finished
        /\ ui'.resume.run = ui.resume.run =>
              /\ ui'.resume.rev >= ui.resume.rev
              /\ ui.resume.finished => ui'.resume.finished
<1>1. SessionInv /\ SessionInv' /\ HeldInv /\ [Next]_vars => [Forward]_vars
  <2> SUFFICES ASSUME SessionInv, SessionInv', HeldInv, [Next]_vars PROVE Forward
    OBVIOUS
  <2>1. Ahead(ui, ui')
    BY SessionSteps
  <2>2. ui'.analysis \in Held("a") /\ ui'.resume \in Held("r")
    BY StepsFromBefore DEF FromBefore
  <2>3. Numbered(ui.resume) /\ Numbered(ui'.resume)
    BY <2>2, IsHeld DEF HeldInv
  <2>4. InOrder(ui'.analysis, ui.analysis)
    BY <2>2, IsHeld DEF HeldInv
  <2>5. /\ ui.analysis.stamp \in Nat /\ ui'.analysis.stamp \in Nat
    BY DEF SessionInv, GoodUi, UiRows, Snapshots
  <2>6. ui'.analysis.run = ui.analysis.run =>
            /\ ui'.analysis.rev < ui.analysis.rev => ui'.analysis.stamp = ui.analysis.stamp
            /\ ui.analysis.finished => ui'.analysis.finished
    BY <2>1, <2>4, <2>5 DEF Ahead, Accepted, InOrder
  <2>7. QED  BY <2>1, <2>3, <2>6 DEF Ahead, NotBack
<1>2. QED  BY <1>1, SessionInvHolds, HeldInvHolds, PTL DEF Spec, NoStepBack

-----------------------------------------------------------------------------
(* A run that is shown is followed                                         *)

Busy == \E i \in PollSlots : ~Idle(i)

Followed(u) == IsActive(u.analysis) /\ ~u.disposed => u.timer \/ Busy

FollowInv ==
    /\ \A i \in PollSlots : Idle(i) \/ tasks[i].what = "poll"
    /\ AnalysisIsFollowed

LEMMA ScheduledFollows ==
    ASSUME NEW u \in UiRows
    PROVE  Followed(Schedule(u)) /\ Schedule(u) \in UiRows
<1> DEFINE due == Due(u)
<1>1. due \in BOOLEAN /\ (IsActive(u.analysis) /\ ~u.disposed => due)
  BY DEF Due, IsActive, UiRows, Snapshots
<1>2. Schedule(u) = [u EXCEPT !.timer = due]
  BY DEF Schedule
<1> HIDE DEF due
<1>3. QED  BY <1>1, <1>2 DEF Followed, UiRows

LEMMA ShownFollows ==
    ASSUME NEW u \in UiRows, Followed(u), NEW s \in Snapshots, NEW t \in Snapshots,
           s.run \in 1..MaxRuns
    PROVE  /\ Followed(ShowAnalysis(u, s)) /\ ShowAnalysis(u, s) \in UiRows
           /\ Followed(ShowResume(u, t)) /\ ShowResume(u, t) \in UiRows
<1> DEFINE a == [u EXCEPT !.analysis = s]
           over == [a EXCEPT !.timer = FALSE, !.refreshed = @ \cup {s.run}]
           r == [u EXCEPT !.resume = t]
<1>1. a \in UiRows /\ over \in UiRows /\ over.analysis = s
  BY DEF UiRows
<1>2. r \in UiRows /\ Followed(r)
  BY DEF UiRows, Followed
<1>3. s.finished => Followed(over)
  BY <1>1 DEF Followed, IsActive
<1>4. /\ ShowAnalysis(u, s) = IF StaleAnalysis(u.analysis, s) THEN u
                              ELSE IF s.finished THEN over ELSE Schedule(a)
      /\ ShowResume(u, t) = IF StaleResume(u.resume, t) THEN u
                            ELSE IF t.finished THEN r ELSE Schedule(r)
  BY DEF ShowAnalysis, ShowResume
<1> HIDE DEF a, over, r
<1>5. QED  BY <1>1, <1>2, <1>3, <1>4, ScheduledFollows

LEMMA PolledAFollows ==
    ASSUME NEW u \in UiRows, Followed(u), NEW what
    PROVE  Followed(AfterPollA(what, u)) /\ AfterPollA(what, u) \in UiRows
BY ScheduledFollows DEF AfterPollA

\* A poll ends with the timer set; another task leaves the polls alone.
LEMMA ContinuesFollow ==
    ASSUME SessionInv, FollowInv, NEW i \in Slots, NEW task, NEW u \in UiRows,
           Continue(i, task, u),
           i \in PollSlots => task.what = "poll",
           i \notin PollSlots => Followed(u)
    PROVE  FollowInv'
<1> DEFINE ended == task.a = NoRequest /\ task.r = NoRequest
<1>1. /\ tasks' = [tasks EXCEPT ![i] = IF ended THEN NoTask ELSE task]
      /\ ui' = IF ended /\ task.what = "poll" THEN Schedule(u) ELSE u
  BY DEF Continue
<1>2. tasks \in [Slots -> TaskRows] /\ PollSlots \subseteq Slots
  BY DashboardAssumption DEF SessionInv
<1>3. tasks'[i] = (IF ended THEN NoTask ELSE task)
      /\ \A j \in Slots : j # i => tasks'[j] = tasks[j]
  BY <1>1, <1>2
<1> HIDE DEF ended
<1>4. \A j \in PollSlots : Idle(j)' \/ tasks'[j].what = "poll"
  BY <1>2, <1>3 DEF FollowInv, Idle
<1>5. i \notin PollSlots => (Busy' <=> Busy)
  BY <1>2, <1>3 DEF Busy, Idle
<1>6. i \in PollSlots /\ ~ended => Busy'
  BY <1>2, <1>3 DEF Busy, Idle, NoTask
<1>7. Followed(ui)'
  <2>1. CASE ended /\ task.what = "poll"
    <3>1. Due(u) => ui'.timer
      BY <1>1, <2>1 DEF Schedule, UiRows
    <3>2. ui'.analysis = u.analysis /\ ui'.disposed = u.disposed
      BY <1>1, <2>1 DEF Schedule, UiRows
    <3>3. QED  BY <3>1, <3>2 DEF Due, Followed
  <2>2. CASE ~(ended /\ task.what = "poll")
    <3>1. ui' = u
      BY <1>1, <2>2
    <3>2. QED  BY <1>5, <1>6, <2>2, <3>1 DEF Followed
  <2>3. QED  BY <2>1, <2>2
<1>8. QED  BY <1>4, <1>7 DEF FollowInv, AnalysisIsFollowed, Followed, Busy

LEMMA TasksFollow ==
    ASSUME SessionInv, FollowInv, NEW i \in Slots,
           Deliver(i) \/ \E k \in Parts : Fail(i, k)
    PROVE  FollowInv'
<1> DEFINE t == tasks[i]
           A == t.a.snapshot
           R == t.r.snapshot
<1>1. /\ ui \in UiRows /\ Followed(ui) /\ t \in TaskRows
      /\ A \in Snapshots /\ R \in Snapshots
      /\ A # NoRun => A.run \in 1..MaxRuns
  <2>1. GoodTask(server, t) /\ GoodUi(server, ui) /\ GoodRuns(server["a"])
    BY TaskFacts
  <2>2. QED
    BY <2>1, RunShown DEF GoodTask, GoodRequest, GoodUi, TaskRows, Requests, FollowInv,
                          AnalysisIsFollowed, Followed, Busy
<1>2. i \in PollSlots => t.what = "poll" \/ t = NoTask
  BY DEF FollowInv, Idle
<1>3. t # NoTask
  BY DEF Deliver, DeliverData, Follow, DeliverAnalysis, DeliverResume, Fail, Parts, NoTask, NoRequest
<1>4. \A q : /\ [t EXCEPT !.a = q].what = t.what
             /\ [t EXCEPT !.r = q].what = t.what
  BY <1>1 DEF TaskRows
<1>5. AfterA(t).what = t.what
  BY <1>1 DEF AfterA, TaskRows
<1>6. Followed(AfterPollA(t.what, ui)) /\ AfterPollA(t.what, ui) \in UiRows
  BY <1>1, PolledAFollows
<1>7. CASE DeliverData(i) \/ Follow(i)
  <2>1. \E task : /\ task.what = t.what
                  /\ Continue(i, task, ui) \/ Continue(i, task, AfterPollA(t.what, ui))
    BY <1>4, <1>5, <1>7 DEF DeliverData, Follow
  <2> HIDE DEF t
  <2>2. QED  BY <1>1, <1>2, <1>3, <1>6, <2>1, ContinuesFollow
<1>8. CASE DeliverAnalysis(i)
  <2> DEFINE shown == ShowAnalysis(ui, A)
  <2>1. A # NoRun => Followed(shown) /\ shown \in UiRows
    BY <1>1, ShownFollows
  <2>2. A # NoRun => Followed(AfterPollA(t.what, shown)) /\ AfterPollA(t.what, shown) \in UiRows
    BY <2>1, PolledAFollows
  <2>3. \E task : /\ task.what = t.what
                  /\ \/ Continue(i, task, AfterPollA(t.what, ui))
                     \/ A # NoRun /\ Continue(i, task, shown)
                     \/ A # NoRun /\ Continue(i, task, AfterPollA(t.what, shown))
    BY <1>4, <1>5, <1>8 DEF DeliverAnalysis
  <2> HIDE DEF t, A, shown
  <2>4. QED  BY <1>2, <1>3, <1>6, <2>1, <2>2, <2>3, ContinuesFollow
<1>9. CASE DeliverResume(i)
  <2> DEFINE shown == ShowResume(ui, R)
  <2>1. Followed(shown) /\ shown \in UiRows
    <3>1. NewRun(1) \in Snapshots /\ NewRun(1).run \in 1..MaxRuns
      BY DashboardAssumption DEF NewRun, Snapshots
    <3>2. QED  BY <1>1, <3>1, ShownFollows
  <2>2. \E task : /\ task.what = t.what
                  /\ Continue(i, task, ui) \/ Continue(i, task, shown)
    BY <1>4, <1>9 DEF DeliverResume
  <2> HIDE DEF t, shown
  <2>3. QED  BY <1>1, <1>2, <1>3, <2>1, <2>2, ContinuesFollow
<1>10. CASE \E k \in Parts : Fail(i, k)
  <2>1. \/ t.what = "load" /\ (Continue(i, NoTask, ui) \/ Continue(i, Loading, ui))
        \/ \E task : /\ task.what = t.what
                     /\ Continue(i, task, ui) \/ Continue(i, task, AfterPollA(t.what, ui))
    BY <1>4, <1>5, <1>10 DEF Fail, Parts
  <2> HIDE DEF t
  <2>2. t.what = "load" => i \notin PollSlots
    BY <1>2, <1>3
  <2>3. QED  BY <1>1, <1>2, <1>3, <1>6, <2>1, <2>2, ContinuesFollow
<1>11. QED  BY <1>7, <1>8, <1>9, <1>10 DEF Deliver

LEMMA PollFollows ==
    ASSUME SessionInv, FollowInv, NEW i \in Slots, Poll(i)
    PROVE  FollowInv'
<1> DEFINE u == [ui EXCEPT !.timer = FALSE]
<1>1. \E task : task.what = "poll" /\ Continue(i, task, u)
  BY DEF Poll
<1>2. u \in UiRows
  BY DEF SessionInv, GoodUi, UiRows
<1> HIDE DEF u
<1>3. i \in PollSlots
  BY DEF Poll
<1>4. QED  BY <1>1, <1>2, <1>3, ContinuesFollow

\* The operator's tasks are none of the timer's.
LEMMA OperatorFollows ==
    ASSUME SessionInv, FollowInv, Operator
    PROVE  FollowInv'
<1>1. tasks \in [Slots -> TaskRows] /\ PollSlots \subseteq Slots
  BY DashboardAssumption DEF SessionInv
<1>2. CASE Dispose
  <2>1. tasks' = tasks /\ ui'.disposed
    BY <1>2 DEF Dispose, SessionInv, GoodUi, UiRows
  <2>2. QED  BY <2>1 DEF FollowInv, AnalysisIsFollowed, Idle
<1>3. ASSUME NEW i \in Slots, NEW task, Begin(i, task) PROVE FollowInv'
  <2>1. \A j \in PollSlots : tasks'[j] = tasks[j]
    BY <1>1, <1>3 DEF Begin
  <2>2. ui' = ui
    BY <1>3 DEF Begin
  <2>3. QED  BY <2>1, <2>2 DEF FollowInv, AnalysisIsFollowed, Idle
<1>4. QED
  BY <1>2, <1>3 DEF Operator, Load, RunAnalysis, StartResumeRun, CancelAnalysisRun, CancelResumeRun

LEMMA ServesFollow ==
    ASSUME SessionInv, FollowInv, NEW i \in Slots, NEW k \in Parts, Serve(i, k)
    PROVE  FollowInv'
<1>1. PICK served, s : Reply(i, k, served, s)
  BY DEF Serve, ServeStart, ServeRead
<1>2. tasks[i] # NoTask /\ ui' = ui
  BY DEF Serve, ServeStart, ServeRead, NoTask, NoRequest, Parts
<1>3. /\ tasks \in [Slots -> TaskRows] /\ PollSlots \subseteq Slots
  BY DashboardAssumption DEF SessionInv
<1>4. /\ tasks'[i].what = tasks[i].what
      /\ \A j \in Slots : j # i => tasks'[j] = tasks[j]
  BY <1>1, <1>3 DEF Reply, TaskRows, Parts
<1>5. \A j \in PollSlots : Idle(j) <=> tasks'[j] = NoTask
  <2>1. i \in PollSlots => tasks'[i] # NoTask
    BY <1>2, <1>4 DEF FollowInv, Idle, NoTask
  <2>2. QED  BY <1>2, <1>3, <1>4, <2>1 DEF Idle
<1>6. QED  BY <1>2, <1>3, <1>4, <1>5 DEF FollowInv, AnalysisIsFollowed, Idle

(* However many tasks, clicks and failures there are, an Analysis Run that is *)
(* shown as active has its timer set, or a poll that sets it when it ends.    *)
THEOREM ActiveIsFollowed == Spec => []AnalysisIsFollowed
<1>1. Init => FollowInv
  BY DashboardAssumption DEF Init, FollowInv, AnalysisIsFollowed, IsActive, NoRun, Idle
<1>2. SessionInv /\ FollowInv /\ [Next]_vars => FollowInv'
  <2> SUFFICES ASSUME SessionInv, FollowInv, [Next]_vars PROVE FollowInv'
    OBVIOUS
  <2>1. ASSUME UNCHANGED <<ui, tasks>> PROVE FollowInv'
    BY <2>1 DEF FollowInv, AnalysisIsFollowed, Idle
  <2>2. CASE UNCHANGED vars
    BY <2>1, <2>2 DEF vars
  <2>3. ASSUME NEW k \in Parts, Proceed(k, TRUE) \/ Proceed(k, FALSE) PROVE FollowInv'
    BY <2>1, <2>3 DEF Proceed
  <2>4. ASSUME NEW i \in Slots, Poll(i) \/ Deliver(i) PROVE FollowInv'
    BY <2>4, PollFollows, TasksFollow
  <2>5. ASSUME NEW i \in Slots, NEW k \in Parts, Serve(i, k) \/ Fail(i, k) PROVE FollowInv'
    BY <2>5, ServesFollow, TasksFollow
  <2>6. CASE Operator
    BY <2>6, OperatorFollows
  <2>7. CASE Next
    BY <2>3, <2>4, <2>5, <2>6, <2>7, Zenon DEF Next, Work
  <2>8. QED  BY <2>2, <2>7
<1>3. FollowInv => AnalysisIsFollowed
  BY DEF FollowInv
<1>4. QED  BY <1>1, <1>2, <1>3, SessionInvHolds, PTL DEF Spec

=============================================================================
