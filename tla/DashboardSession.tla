---------------------------- MODULE DashboardSession ----------------------------
(***************************************************************************)
(* The Dashboard session: createDashboardSession of                        *)
(* apps/web/src/features/dashboard/dashboardSession.ts, with the two       *)
(* durable runs it shows, polls, starts and cancels.                       *)
(*                                                                         *)
(* An async function is a task: it runs up to its next request without an  *)
(* interruption and goes on with the answer.  A request is served (the API *)
(* takes a snapshot, or an action takes effect) and answered in two steps, *)
(* so answers of different tasks pass each other.  Part "a" of a task      *)
(* talks to the API about Analysis Runs, part "r" about Resume Runs; a     *)
(* poll does both at once.                                                 *)
(*                                                                         *)
(* Abstractions.  rev counts the changes of what the API answers about a   *)
(* run; stamp is what the session can tell of it: updatedAt of an Analysis *)
(* Run, revision of a Resume Run.  analysisStarting, the pending flags and *)
(* polling are read off the tasks.  Health, queues, cursors, quarantines   *)
(* and errors are left out: nothing here depends on them.                  *)
(***************************************************************************)
EXTENDS Integers, Sequences, FiniteSets

CONSTANTS
    Slots,          \* tasks of the operator and of the timer at one time
    PollSlots,      \* those of the timer
    MaxRuns,        \* bound: runs of each kind
    MaxRev,         \* bound: changes of a run
    MaxClicks,      \* bound: how often the operator does something
    MaxFaults       \* bound: how often a request fails

VARIABLES
    server,         \* the runs of each kind, by their snapshots
    ui,             \* what the session shows, its timer, its disposal
    tasks,          \* async functions in progress
    refreshes,      \* how often a terminal Analysis Run reset the queues
    clicks, faults

vars == <<server, ui, tasks, refreshes, clicks, faults>>

ASSUME DashboardAssumption ==
    /\ PollSlots \subseteq Slots
    /\ MaxRuns \in Nat \ {0} /\ MaxRev \in Nat \ {0}
    /\ MaxClicks \in Nat /\ MaxFaults \in Nat

Parts == {"a", "r"}

NoRun == [run |-> 0, rev |-> 0, stamp |-> 0, finished |-> FALSE]

\* A run that was just created.
NewRun(n) == [run |-> n, rev |-> 1, stamp |-> 1, finished |-> FALSE]

NoRequest == [to |-> "none", run |-> 0, served |-> "no", snapshot |-> NoRun]

Ask(to, run) == [NoRequest EXCEPT !.to = to, !.run = run]

NoTask == [what |-> "none", a |-> NoRequest, r |-> NoRequest]

Loading == [NoTask EXCEPT !.what = "load", !.a = Ask("data", 0)]

Idle(i) == tasks[i] = NoTask

-----------------------------------------------------------------------------
(* The API                                                                 *)

Latest(k) == IF server[k] = <<>> THEN NoRun ELSE server[k][Len(server[k])]

\* isAnalysisRunActive, and the same test of a Resume Run
IsActive(s) == s.run # 0 /\ ~s.finished

\* What a change does to the stamp.  Every write of a Resume Run raises its
\* revision.  A reservation and a settlement change the spend an Analysis Run
\* answers with and leave updatedAt; two writes may fall in one millisecond,
\* which is all Date.parse keeps.
NextStamps(k, now) == IF k = "a" THEN {now.stamp, now.stamp + 1} ELSE {now.rev + 1}

\* Work on a run goes on, or it ends.
Proceed(k, finished) ==
    LET now == Latest(k)
    IN  /\ IsActive(now)
        /\ now.rev < MaxRev
        /\ finished \/ now.rev + 1 < MaxRev
        /\ \E stamp \in NextStamps(k, now) :
              server' = [server EXCEPT ![k][Len(server[k])] =
                 [now EXCEPT !.rev = now.rev + 1, !.stamp = stamp, !.finished = finished]]
        /\ UNCHANGED <<ui, tasks, refreshes, clicks, faults>>

Reply(i, k, served, snapshot) ==
    tasks' = [tasks EXCEPT ![i][k].served = served, ![i][k].snapshot = snapshot]

\* A new run, unless one is active.
ServeStart(i, k) ==
    /\ tasks[i][k].to = "start"
    /\ LET new == NewRun(Len(server[k]) + 1)
       IN  \/ /\ ~IsActive(Latest(k))
              /\ Len(server[k]) < MaxRuns
              /\ server' = [server EXCEPT ![k] = Append(@, new)]
              /\ Reply(i, k, "yes", new)
           \/ /\ IsActive(Latest(k))
              /\ server' = server
              /\ Reply(i, k, "refused", Latest(k))

\* A snapshot; a cancellation is answered with one too.
ServeRead(i, k) ==
    /\ tasks[i][k].to \in {"get", "cancel", "active", "latest"}
    /\ server' = server
    /\ Reply(i, k, "yes",
          CASE tasks[i][k].to \in {"get", "cancel"} -> server[k][tasks[i][k].run]
            [] tasks[i][k].to = "active" -> IF IsActive(Latest(k)) THEN Latest(k) ELSE NoRun
            [] OTHER -> Latest(k))

Serve(i, k) ==
    /\ tasks[i][k].served = "no"
    /\ ServeStart(i, k) \/ ServeRead(i, k)
    /\ UNCHANGED <<ui, refreshes, clicks, faults>>

-----------------------------------------------------------------------------
(* What the session shows                                                  *)

\* Mutant: only a Resume Run keeps the timer going.
DueForResume(u) == ~u.disposed /\ IsActive(u.resume)

\* Mutant: the timer is set although the page was left.
DueOnceLeft(u) == IsActive(u.analysis) \/ IsActive(u.resume)

Due(u) == ~u.disposed /\ (IsActive(u.analysis) \/ IsActive(u.resume))

\* schedulePoll: the pending timer is replaced.
Schedule(u) == [u EXCEPT !.timer = Due(u)]

\* Mutant: the lifecycle is not compared, only the time.
StaleByTime(current, s) == current.run = s.run /\ s.stamp < current.stamp

\* What acceptAnalysisRun refuses: about the run that is shown, something of
\* an earlier updatedAt, and anything active after its end.  About another run
\* it refuses nothing.
StaleAnalysis(current, s) ==
    /\ current.run = s.run
    /\ s.stamp < current.stamp \/ (current.finished /\ ~s.finished)

\* What acceptResumeRun refuses: an earlier revision of the run that is shown.
StaleResume(current, s) == current.run = s.run /\ s.stamp < current.stamp

ShowResume(u, s) ==
    LET shown == [u EXCEPT !.resume = s]
    IN  IF StaleResume(u.resume, s) THEN u
        ELSE IF s.finished THEN shown ELSE Schedule(shown)

\* The end of an Analysis Run stops the timer, whatever it was set for.
ShowAnalysis(u, s) ==
    LET shown == [u EXCEPT !.analysis = s]
    IN  IF StaleAnalysis(u.analysis, s) THEN u
        ELSE IF s.finished
             THEN [shown EXCEPT !.timer = FALSE, !.refreshed = @ \cup {s.run}]
             ELSE Schedule(shown)

\* Mutant: the terminal refresh is not remembered.
RefreshesAgain(u, s) == ~StaleAnalysis(u.analysis, s) /\ s.finished

\* refreshedTerminalRuns
Refreshes(u, s) == ~StaleAnalysis(u.analysis, s) /\ s.finished /\ s.run \notin u.refreshed

-----------------------------------------------------------------------------
(* Tasks                                                                   *)

\* The finally clause of pollAnalysisRun
AfterPollA(what, u) ==
    IF what = "poll" /\ IsActive(u.analysis) THEN Schedule(u) ELSE u

\* A task goes on with the requests it has left, or ends.  A poll ends with
\* schedulePoll.
Continue(i, task, u) ==
    LET ended == task.a = NoRequest /\ task.r = NoRequest
    IN  /\ tasks' = [tasks EXCEPT ![i] = IF ended THEN NoTask ELSE task]
        /\ ui' = IF ended /\ task.what = "poll" THEN Schedule(u) ELSE u

\* What follows part "a": load goes on with the Resume Runs, the others end.
AfterA(task) ==
    [task EXCEPT !.a = NoRequest,
                 !.r = IF task.what = "load" THEN Ask("active", 0) ELSE @]

\* Health and queues arrive: first in a load, last in a terminal refresh.
DeliverData(i) ==
    LET t == tasks[i]
    IN  /\ t.a.to = "data"
        /\ IF t.what = "load"
           THEN Continue(i, [t EXCEPT !.a = Ask("active", 0)], ui)
           ELSE Continue(i, AfterA(t), AfterPollA(t.what, ui))
        /\ UNCHANGED <<server, refreshes, clicks, faults>>

\* Another run is active: it is followed.
Follow(i) ==
    LET t == tasks[i]
    IN  /\ t.a.served = "refused"
        /\ Continue(i, [t EXCEPT !.a = Ask("get", t.a.snapshot.run)], ui)
        /\ UNCHANGED <<server, refreshes, clicks, faults>>

\* acceptAnalysisRun with an answer, and the caller's rest.
DeliverAnalysis(i) ==
    LET t == tasks[i]
        s == t.a.snapshot
        shown == ShowAnalysis(ui, s)
    IN  /\ t.a.served = "yes"
        /\ IF s = NoRun \/ (t.what = "poll" /\ ui.disposed)
           THEN Continue(i, AfterA(t), AfterPollA(t.what, ui)) /\ refreshes' = refreshes
           ELSE IF Refreshes(ui, s)
           THEN /\ Continue(i, [t EXCEPT !.a = Ask("data", 0)], shown)
                /\ refreshes' = [refreshes EXCEPT ![s.run] = @ + 1]
           ELSE Continue(i, AfterA(t), AfterPollA(t.what, shown)) /\ refreshes' = refreshes
        /\ UNCHANGED <<server, clicks, faults>>

\* acceptResumeRun with an answer; without an active run load asks for the
\* latest, and a refused start is an error.
DeliverResume(i) ==
    LET t == tasks[i]
        s == t.r.snapshot
    IN  /\ t.r.served # "no"
        /\ IF t.r.served = "refused" \/ (s = NoRun /\ t.r.to = "latest")
           THEN Continue(i, [t EXCEPT !.r = NoRequest], ui)
           ELSE IF s = NoRun
           THEN Continue(i, [t EXCEPT !.r = Ask("latest", 0)], ui)
           ELSE Continue(i, [t EXCEPT !.r = NoRequest], ShowResume(ui, s))
        /\ UNCHANGED <<server, refreshes, clicks, faults>>

Deliver(i) == DeliverData(i) \/ Follow(i) \/ DeliverAnalysis(i) \/ DeliverResume(i)

\* A request fails, before or after it was served.  A failed refresh ends
\* like an answered one.  A failed load of health and queues ends it, or, when
\* it was the cursors that failed, asks again without them.
Fail(i, k) ==
    LET t == tasks[i]
    IN  /\ t[k].to # "none"
        /\ faults < MaxFaults
        /\ faults' = faults + 1
        /\ CASE k = "r" -> Continue(i, [t EXCEPT !.r = NoRequest], ui)
             [] k = "a" /\ t.what = "load" /\ t.a.to = "data" ->
                   Continue(i, NoTask, ui) \/ Continue(i, Loading, ui)
             [] OTHER -> Continue(i, AfterA(t), AfterPollA(t.what, ui))
        /\ UNCHANGED <<server, refreshes, clicks>>

\* Mutant: the run that is polled need not be there.
PolledWhatever(s) == IF s.finished THEN NoRequest ELSE Ask("get", s.run)

\* What pollDurableResources asks for: the run that is shown, while active.
Polled(s) == IF IsActive(s) THEN Ask("get", s.run) ELSE NoRequest

\* polling: pollAnalysisRun is in progress, its refresh included.
Polling == \E i \in PollSlots : tasks[i].a # NoRequest

\* The timer fires.
Poll(i) ==
    /\ Idle(i)
    /\ i \in PollSlots
    /\ ui.timer
    /\ Continue(i,
          [what |-> "poll",
           a |-> IF Polling \/ ui.disposed THEN NoRequest ELSE Polled(ui.analysis),
           r |-> Polled(ui.resume)],
          [ui EXCEPT !.timer = FALSE])
    /\ UNCHANGED <<server, refreshes, clicks, faults>>

-----------------------------------------------------------------------------
(* The operator                                                            *)

Click ==
    /\ ~ui.disposed
    /\ clicks < MaxClicks
    /\ clicks' = clicks + 1

Begin(i, task) ==
    /\ Idle(i)
    /\ i \notin PollSlots
    /\ tasks' = [tasks EXCEPT ![i] = task]
    /\ UNCHANGED <<server, ui, refreshes, faults>>

\* load: the page is refreshed or turned.
Load(i) == Click /\ Begin(i, Loading)

\* analysisStarting: until the start, or the look at the other run, is answered.
Starting(k) == \E i \in Slots : tasks[i].what = "start" /\ tasks[i][k].to \in {"start", "get"}

RunAnalysis(i) ==
    /\ Click
    /\ ~Starting("a") /\ ~IsActive(ui.analysis)
    /\ Begin(i, [NoTask EXCEPT !.what = "start", !.a = Ask("start", 0)])

StartResumeRun(i) ==
    /\ Click
    /\ ~Starting("r") /\ ~IsActive(ui.resume)
    /\ Begin(i, [NoTask EXCEPT !.what = "start", !.r = Ask("start", 0)])

\* analysisCancelPending and resumeCancelPending
Cancelling(k) == \E i \in Slots : tasks[i].what = "cancel" /\ tasks[i][k].to = "cancel"

CancelAnalysisRun(i) ==
    /\ Click
    /\ IsActive(ui.analysis) /\ ~Cancelling("a")
    /\ Begin(i, [NoTask EXCEPT !.what = "cancel", !.a = Ask("cancel", ui.analysis.run)])

CancelResumeRun(i) ==
    /\ Click
    /\ IsActive(ui.resume) /\ ~Cancelling("r")
    /\ Begin(i, [NoTask EXCEPT !.what = "cancel", !.r = Ask("cancel", ui.resume.run)])

\* dispose: the page is left, answers may still come.
Dispose ==
    /\ Click
    /\ ui' = [ui EXCEPT !.disposed = TRUE, !.timer = FALSE]
    /\ UNCHANGED <<server, tasks, refreshes, faults>>

-----------------------------------------------------------------------------

\* The page opens with a load, or with two in React's strict mode, which
\* subscribes, disposes and subscribes again before anything is answered.  The
\* API may have runs from before.
Init ==
    /\ server \in [Parts -> {<<>>, <<NewRun(1)>>}]
    /\ ui = [analysis |-> NoRun, resume |-> NoRun, timer |-> FALSE,
             refreshed |-> {}, disposed |-> FALSE]
    /\ \E i, j \in Slots \ PollSlots :
          tasks = [l \in Slots |-> IF l \in {i, j} THEN Loading ELSE NoTask]
    /\ refreshes = [n \in 1..MaxRuns |-> 0]
    /\ clicks = 0
    /\ faults = 0

Work == \E k \in Parts : Proceed(k, TRUE) \/ Proceed(k, FALSE)

Operator ==
    \/ Dispose
    \/ \E i \in Slots :
          \/ Load(i) \/ RunAnalysis(i) \/ StartResumeRun(i)
          \/ CancelAnalysisRun(i) \/ CancelResumeRun(i)

Next ==
    \/ Work
    \/ Operator
    \/ \E i \in Slots :
          \/ Poll(i) \/ Deliver(i)
          \/ \E k \in Parts : Serve(i, k) \/ Fail(i, k)

Spec == Init /\ [][Next]_vars

\* Runs end, requests are answered or fail, timers fire.  The operator need
\* not do anything.
FairSpec ==
    /\ Spec
    /\ \A k \in Parts : WF_vars(Proceed(k, TRUE))
    /\ \A i \in Slots : WF_vars(Deliver(i)) /\ \A k \in Parts : WF_vars(Serve(i, k))
    /\ WF_vars(\E i \in PollSlots : Poll(i))

-----------------------------------------------------------------------------
(* Properties                                                              *)

Snapshots == [run : 0..MaxRuns, rev : 0..MaxRev, stamp : Nat, finished : BOOLEAN]

Requests ==
    [to : {"none", "data", "active", "latest", "get", "start", "cancel"}, run : 0..MaxRuns,
     served : {"no", "yes", "refused"}, snapshot : Snapshots]

(* Every variable holds a value the code could hold; a request about a run   *)
(* names one.                                                                *)
TypeOK ==
    /\ server \in [Parts -> Seq(Snapshots)]
    /\ ui \in [analysis : Snapshots, resume : Snapshots, timer : BOOLEAN,
               refreshed : SUBSET (1..MaxRuns), disposed : BOOLEAN]
    /\ tasks \in [Slots -> [what : {"none", "load", "start", "cancel", "poll"},
                            a : Requests, r : Requests]]
    /\ \A i \in Slots, k \in Parts :
          tasks[i][k].to \in {"get", "cancel"} => tasks[i][k].run \in 1..Len(server[k])
    /\ refreshes \in [1..MaxRuns -> Nat]
    /\ clicks \in 0..MaxClicks
    /\ faults \in 0..MaxFaults

(* However the answers of polls, loads, starts and cancellations pass each   *)
(* other: as long as one run is shown it goes back only between snapshots of *)
(* one updatedAt, which the session cannot tell apart, and never from its    *)
(* end; a Resume Run never goes back.                                        *)
NoStepBack ==
    [][/\ ui'.analysis.run = ui.analysis.run =>
             /\ ui'.analysis.rev < ui.analysis.rev => ui'.analysis.stamp = ui.analysis.stamp
             /\ ui.analysis.finished => ui'.analysis.finished
       /\ ui'.resume.run = ui.resume.run =>
             /\ ui'.resume.rev >= ui.resume.rev
             /\ ui.resume.finished => ui'.resume.finished]_vars

(* docs/frontend.md: "Refresh health and reset both queue cursors once when  *)
(* a run becomes terminal", also when a poll and a cancellation both bring   *)
(* its end, and when it is shown again after another run.                    *)
RefreshedOnce ==
    /\ \A n \in 1..MaxRuns : refreshes[n] <= 1
    /\ ui.analysis.finished => refreshes[ui.analysis.run] = 1

(* Once the page is left no timer is set, although answers still come.       *)
DisposedIsQuiet == ui.disposed => ~ui.timer

(* Whatever requests fail and whatever answers pass each other: an Analysis  *)
(* Run that is shown as active has the timer set, or a poll in progress that *)
(* sets it when it ends.  So it is followed until its end is shown or an     *)
(* answer about another run takes its place.                                 *)
AnalysisIsFollowed ==
    IsActive(ui.analysis) /\ ~ui.disposed => ui.timer \/ \E i \in PollSlots : ~Idle(i)

\* The Analysis Run n is shown as active.
Shown(n) == ui.analysis.run = n /\ ~ui.analysis.finished

(* docs/frontend.md: "The UI continues polling until the durable terminal    *)
(* snapshot arrives."  An Analysis Run that is shown as active is seen to    *)
(* end, or gives way to a newer one.                                         *)
AnalysisIsSeenToFinish ==
    \A n \in 1..MaxRuns :
        Shown(n) ~> n \in ui.refreshed \/ ui.disposed \/ ui.analysis.run > n

(* docs/frontend.md: a Resume Run queued or running is treated the same way: *)
(* "Follow the durable run, show progress and Committed Spend".              *)
ResumeIsSeenToFinish ==
    IsActive(ui.resume) ~> ~IsActive(ui.resume) \/ ui.disposed

=============================================================================
