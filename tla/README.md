# Merida, modelled

A TLA+ model of Merida, a local job-application assistant: what runs while an
Analysis or a Resume is produced, what is written where, what is paid for, and
what survives a crash. Paths below are relative to the repository; the backend
is `apps/api/merida_api`, abbreviated `api`.

Contents: [the system](#1-the-system) · [the modules](#2-the-modules) ·
[the runs](#3-the-runs) · [findings](#4-findings) · [the proofs](#5-the-proofs)
· [abstractions](#6-abstractions) · [what is left](#7-plan)

## 1. The system

Merida has one backend process (FastAPI, asyncio, one SQLite database), a web
dashboard and a browser extension. Notion holds the user's data: Applications,
Resumes, the Master Resume. DeepSeek is the paid provider.

| component | state it keeps | operations | interacts with |
|---|---|---|---|
| Analysis Run Store (`api/features/applications/analysis_run_store.py`) | SQLite tables of runs, candidates, provider calls, commit quarantine | about twenty write methods, each one `BEGIN IMMEDIATE` transaction | written by everything below |
| Analysis Run Service and Worker (`analysis_runs.py`) | nothing durable; one asyncio task that polls, a heartbeat task per evaluation | `start`, `cancel`, `process_next_run`, `stop` | store, evaluator, Notion |
| Analysis graph and authorized model (`analysis_graph.py`, `analysis_authorization.py`) | the pass of one candidate: attempts, pending settlement | load, generate, validate, append, finalize, recover | store, provider, Notion |
| Analysis queue (`analysis.py`) | none | `get_queue`, which also reconciles quarantines | store, Notion |
| Spend policies (`analysis_spend.py`, `api/shared/provider_spend.py`) | the rate card in force | estimate, settle | called before and after each provider call |
| Provider client (`deepseek_analysis.py`, `deepseek_gateway.py`) | none | one request, errors classified as transmitted or not | the graph |
| Notion workspace (`api/integrations/notion_workspace.py`) | none; the transport retries what is safe to retry | reads, append, finalize, create, archive | everything |
| Resume Run Store (`api/features/resumes/run_store.py`) | SQLite tables of runs, candidates, counters, artifact sets | its write methods | Resume service |
| Resume Run Service and Worker (`resumes/runs.py`) | one asyncio task woken by start | `start`, `cancel`, `process`, `_dispatcher` | Resume store, commit, provider |
| Artifact commit and recovery (`resumes/commit.py`, `creation.py`, `shared/recovery.py`, `integrations/pdf_export.py`) | a JSON journal of external effects | journal, create, publish, note, attach, resolve, clean up, reconcile | Notion, PDF export |
| Application Capture (`applications/capture.py`, `shared/execution.py`) | JSON journal, keys under exclusive execution | prepare, confirm, reconcile | Notion |
| Dashboard session (`apps/web/src/features/dashboard/dashboardSession.ts`) | snapshots of queues and runs | load, poll, start, cancel | HTTP |
| Capture session (`apps/extension/src/session/captureSession.ts`) | draft, match, review | prepare, match, edit, confirm | HTTP |

**What is hard.**

- *Leases.* A run belongs to whichever worker holds its lease. A worker may
  stall, crash, or be stopped at any `await`; another takes the run over when
  the lease has run out, and the first may wake up in the middle of anything.
- *Money.* A provider call is charged its worst case before it is sent, and
  settled, released or left indeterminate later, possibly by another worker or
  after a restart. It must be counted from reservation to the end.
- *Mutations with unknown outcome.* The answer to an append to Notion may never
  arrive. The body may be there, may never be, or may appear an hour later, in
  the middle of the next run. The commit quarantine is the defence.
- *Cancellation* from an HTTP request between any two steps of the worker.
- *Two-step starts.* `start` reads, awaits Notion, and then writes.
- *Effects in three places.* A Resume is a page, a note, a relation and a file;
  each is made by itself, and a journal tells a restarted process what it may undo.
- *Work done again.* A Resume Run has no lease: after a restart its one worker
  goes through the candidates from the start, and must meet what is there.
- *Two runs, one timer*, in the dashboard, and answers that overtake each other.
- *Counts kept beside what they count*: completions, transmissions, spend.
- *Rounding*: worst case and cost are rounded up differently.

`PROJECT.json` lists every such place, at its line, with the properties that
would notice it going wrong.

**What makes each part correct.**

- *Store*: runs, candidates and calls are serial; spend stays under the ceiling;
  what is finished or final stays so; a write needs a current lease; a
  cancellation stops dispatch.
- *Service and graph*: no second Analysis body, no second purchase, no claimed
  result Notion does not show, target met but not passed, an outcome that is
  true, and every run finishes.
- *Spend policies*: what is within the bounds of its estimate settles, and costs
  exactly what was metered, rounded up.
- *Resume runs*: the counters of spend agree with the calls, whatever crashes; a
  candidate's end and a run's end are final; every run finishes.
- *Artifact commit*: a completed candidate keeps its Resume, relation, note and
  PDF; an Application has one live Resume; what is called cleaned is gone.
- *Capture*: one page per Job URL, and none archived that was reported or is not ours.
- *Dashboard session*: an older answer about a run does not replace a newer one, a run
  shown as active is followed to its end, its end is refreshed once, a page that was left is quiet.

## 2. The modules

| module | models |
|---|---|
| `SpendLedger` | abstract: what any store of paid calls promises |
| `AnalysisRunStore` | the store's tables and every write transaction, under arbitrary callers |
| `SetSums` | nothing of the code: lemmas about sums over finite sets, for the two stores' proofs |
| `AnalysisRuns` | extends the store: workers, evaluator and graph, `start`, queue view, cancellation, Notion, provider, faults, clock |
| `SpendPolicy` | estimate and settlement of one call |
| `ResumeRunStore` | the tables of Resume Runs and their write transactions |
| `ResumeRuns` | extends it: `start`, the worker and `process`, the builder's two stages, the artifact commit, cleanup and reconciliation, Notion, the PDF directory, crashes |
| `ApplicationCapture` | `confirm` and `reconcile` over the journal and Notion's pages, the lock by Job URL |
| `DashboardSession` | the session's tasks and timer, and the API as far as they see it |
| `AnalysisRunStoreProofs`, `AnalysisRunsProofs`, `SpendPolicyProofs`, `ResumeRunStoreProofs`, `ResumeRunsProofs`, `ApplicationCaptureProofs`, `DashboardSessionProofs` | the theorems of the module each is named after, with their proofs |
| `MCAnalysisRunStore`, `MCAnalysisRuns`, `MCResumeRuns`, `MCApplicationCapture`, `MCDashboardSession` | instances for TLC |

**AnalysisRunStore.** Its four variables are the four tables. A method of
`SqliteAnalysisRunStore` that writes is one action of the same name: it runs in
one `BEGIN IMMEDIATE` transaction, so nothing comes between its statements, and
one that raises rolls back and is no step. Guards are the method's checks
(`CurrentLease` is `_require_current_lease`). A replay of a request already
honoured (the same idempotency key, a result recorded again as it was) changes
nothing and is no action either. `StoreSpec` lets anyone call anything, more
than the service ever does; the properties are therefore the store's own.

**SpendLedger** has accounts, charges and open calls; it may hold a worst case
if the account bears it, and close a call for no more than it held. `KeepsSpendLedger`
is the refinement: a call's charge is its reservation while it is active or
indeterminate, its cost once settled, nothing once released. The ledger's step
may close several calls, as `ReconcileInterruptedCalls` and `FinishRun` do.

**AnalysisRuns.** A worker is a program counter with locals. Every step is one
store transaction, the arrival of one answer, or a decision between two of
them:

| pc | code |
|---|---|
| `idle` → `interrupted` → `recorded` → `loop` | `process_next_run` claims; calls interrupted are reconciled; recorded responses are settled |
| `loop`, `renew`, `claim` | `_process_claimed`: snapshot, lease renewal, next candidate |
| `recovering`, `confirm`, `judge` | `GraphAnalysisCandidateEvaluator.recover` |
| `load`, `reserve`, `dispatch`, `transmit`, `answered` | the graph's load and generate nodes; `AuthorizedAnalysisModel` |
| `protect`, `guard`, `append`/`finalize`, `appended`/`finalized`, `settle`, `rejected`, `unsettled` | `_commit_with_lease`: protecting renewal, quarantine, Notion, confirmation |
| `record`, `finish` | the candidate's result; the run's outcome |

`page[a]` is Notion's side: how many Analysis bodies an Application has, whether
its final properties are set, and how many appends are still on their way
(`late`). `LandLate` and `LoseLate` decide about these at any later time.
At the start any of the Applications may have been analyzed before.
`starter[s]` is a `start` request with its two awaits: the Applications under
quarantine it still has to look at, then the quarantine list it will leave out.

Faults, bounded together by `MaxFaults`: a crash, a stop of the task, a stall of
one lease unit (`StallTick`), an answer that never comes (`CommitUnknown`), a
request that never left (`Unsent`). What crash, stop and lost lease leave behind
at Notion is one operator, `Abandoned`. Error answers of the provider, invalid
drafts, rejections and unreadable pages are not faults and not bounded. A worker
that is not stalled keeps its lease (`FreeTick` waits for it): the heartbeat
renews at a fraction of the term.

**SpendPolicy.** One behaviour is one call: approval, estimate, receipt,
settlement.

**ResumeRunStore.** The tables `resume_runs` (with its three spend buckets),
`resume_candidates`, `resume_calls`, and of artifact sets their state. Actions have the
methods' names. Unlike the Analysis store it has no leases, and few methods look
at a state before they write one: what keeps `fail_candidate` off a completed
candidate is the order of `process`. So TLC checks it with its service only; what is
the store's own (types, counters, ceiling, the order of attempts) is proved under arbitrary callers too.

**ResumeRuns.** `worker` is `ResumeRunWorker` and the `process` call it is in:

| pc | code |
|---|---|
| `idle` | `_run` waits for `wake`, clears it, reads `active()` |
| `next`, `first_read`, `second_read`, `ineligible` | the loop's head, the two reads, admission or rejection |
| `restore` | the checkpoints of an admission, of this pass or an earlier one |
| `build`, `reserved`, `dispatching` | one provider call of a stage: `_require_unchanged` and `reserve_call`, `mark_call_dispatching`, the answer and `resolve_call`; `stage` and `tries` say where the builder's graph is |
| `recheck`, `intent` | the comparison before artifact work, `start_artifact_set`, the journal entry |
| `resume` … `attach_sent` | `commit`: each request is sent (and takes effect) and answered (and journalled) |
| `cleaning`, `failing`, `ending` | `_cleanup`; `fail_candidate`; `finish` or `finish_cancellation` |

`art[r][a]` is what a run has left for an Application: Resume page, relation, note,
PDF. `server` is the process: while it is `reconciling`, `ReconcileEntry` does what
`ResumeCreation.reconcile` does with each unresolved entry, and only then the worker
starts. A crash may fall between any two steps. `Edit`, failed requests, unusable or
unmetered answers, cancellations, repeated starts and crashes share `MaxFaults`.

Whatever the dispatcher raises, `ResumeSpendLimitReached` included, leaves the builder
as `ResumeGenerationError`; that is why `Dispatch` abandons a candidate with
`run_execution_failure` when the ceiling is reached. `Recheck` recognises a run that is
being cancelled, and leaves its candidate to `FinishCancellation`.

**ApplicationCapture.** A confirmation makes at most one page, so pages and journal
entries are named after confirmations. `Find`, `Inspect`, `Archive`, `Create`, `Created`,
`Append`, `Finish` are the requests of `confirm` in order; `Free` is the lock.
`late` holds POSTs whose answer was given up, by deadline or crash: `Land` applies
them at any later time. `ReconcileEntry` is one entry of `reconcile`.

**DashboardSession.** A task is one call of `load`, a start, a cancellation or a poll,
with the request it waits for about the Analysis Run (`a`) and the Resume Run (`r`).
A request is served at one moment (`Serve`) and answered at a later one
(`Deliver`), and tasks overtake each other in both. `ShowAnalysis`
and `ShowResume` are `acceptAnalysisRun` and `acceptResumeRun`; `timer` is
the one pending timer. The API has, of each kind, at most one active run, whose snapshot
changes by `Proceed`. A snapshot has a `rev`, which counts every change of what the API
answers, and a `stamp`, which is all the session can tell: `revision` of a Resume Run,
which each of its writes raises, and `updatedAt` of an Analysis Run. That one stands still when a
call is reserved or settled, although the snapshot's spend changes
(`transition_provider_call` writes the calls alone), and when two writes fall in the millisecond
`Date.parse` keeps; so two snapshots may have one stamp, and the older one is accepted.
The page opens with one load or with two: in strict mode (`main.tsx:8`) React subscribes,
disposes and subscribes again before anything is answered, which is the only way to be
disposed and come back. A load whose cursors were refused begins again (`Fail`).

## 3. The runs

| run | instance | shows |
|---|---|---|
| `StoreRuns` | 1 run, 2 candidates, 2 workers, 3 calls of 2 micros, ceiling 5, 2 transmissions | types, one call in flight, slots distinct, spend under the ceiling, the ledger refinement, cancellation stops dispatch, serial candidates, finished runs are quiet, counts, finality, lease fencing |
| `RunsTakeover` | 1 run, 1 Application, 2 workers, 5 calls, 2 transmissions, 3 faults | quarantine while an append is out, results match Notion, no second purchase |
| `RunsAgain` | 2 runs over 1 Application, 2 workers, 1 start request at a time, 2 faults | no second Analysis body |
| `RunsBatch` | 3 Applications, any of them analyzed before, target 1, budget 2, 1 worker that crashes and comes back, 2 faults, fairness | the target is not passed, the outcome is earned, every run finishes |
| `RunsStartRace` | 2 runs, 2 start requests, 1 worker, 1 fault | *violation*: a second Analysis body |
| `SpendBounds` | unit 3, three rates, counts 0 to 3 | bounded receipts settle, cost is the ceiling of what was metered |
| `ResumeRuns` | 2 runs, 2 Applications of one PDF name, target 1, ceiling 6 for calls of 2, 2 calls per stage, 2 faults, fairness | completed candidates stay whole, one live Resume, cleaned is gone, counters, ceiling, finality, every run finishes |
| `ResumeUncounted` | the same, without fairness | *violation*: a committed Resume whose candidate is given up |
| `ApplicationCapture` | 4 confirmations of 1 Job URL, 3 faults | one page but for late ones, reported pages are kept, only our own are archived, cleaned is gone |
| `DashboardSession` | 2 runs of each kind, 3 revisions, 2 operator tasks and 1 poll at a time, 1 click, 1 fault | no step back within a run but between equal stamps, a run shown as active keeps its timer or a poll, one refresh, a page that was left is quiet |
| `DashboardAnalysis` | 2 runs of each kind, 2 revisions, 1 operator task and 1 poll, 2 clicks, no fault, fairness | *violation*: a run shown as active is not seen to end |
| `DashboardResume` | 1 operator task and 2 polls at a time, 2 clicks, 1 fault, fairness | *violation*: the end of a Resume Run is not seen |

**Why the bounds suffice.** A ceiling of 5 with reservations of 2 admits two
calls and refuses the third, until one settles for less: refusal, admission and
admission after settlement all happen. Of two transmissions an
interrupted one keeps its slot and one given back returns it, so the third call
meets every mixture of the two. Two workers
are enough for every take-over, since at most one holds the lease and a third
would only repeat what the second can do; a worker may also succeed itself.
What crosses runs needs two, in `RunsAgain` and `RunsStartRace`: the store keeps runs from
overlapping (`RunsAreSerial`, proved), so `StoreRuns` looks at one. Three faults let a worker lose an answer, its successor crash and the next
take over again; in `RunsTakeover` two transmissions let a pass go on after a
first call failed. In `RunsAgain` one transmission per run is enough, since the
second body must come from the late append of the first run. In `RunsBatch` three
Applications exceed the budget; since any of them may have been analyzed before, the queue
that `start` reads has from none to three, and is cut or not: runs end as
`attempt_budget_exhausted` and as `queue_exhausted`. With a unit of
three, each remainder of every division occurs, alone and together.
The leases last one unit, protected commits two: only the order of their ends
matters.

In `ResumeRuns` a target of one takes two candidates, of which the second
replaces the first; a second run meets what the first left behind, in the workspace, the
journal and the directory. A ceiling of six bears the two
calls of one candidate and one repeated call without a receipt, and refuses the next. Two
faults are a crash and a failure of the cleanup after it, or a lost answer and
a failed cleanup, or two crashes. In `ApplicationCapture` four confirmations are one
that leaves a page, one that finds it, one that replaces it and one that finds
that; three faults let a POST be lost, an archive fail and the process crash. One
Job URL is enough, since locks, look-ups and entries are by Job URL. In
`DashboardResume` two polls overlap when the first waits for its refresh; with two
runs an answer about the first may come when the second is shown. Three revisions in
`DashboardSession` let a run change, with and without a new stamp, before it ends: two
active snapshots and the finished one may overtake each other. Its two operator tasks are
two loads of strict mode, or a load beside a start or a cancellation.

Symmetry: the store's instances permute runs, keys, workers, calls; the
service's permute workers only, since it picks fresh runs, keys and calls with
`CHOOSE`; `ApplicationCapture` permutes confirmations, `DashboardSession` the tasks of the
operator and those of the timer. The runs with liveness
properties use none.

`CHECK_DEADLOCK FALSE` throughout: all calls and keys of the instance get used,
and then nothing need happen. That nothing stops early is `EveryRunFinishes` and
`EveryResumeRunFinishes`; that the timer is not lost, `AnalysisIsFollowed`.

**Fairness.** `WF(WorkerStep(w))`: `AnalysisRunWorker` polls once a second as
long as its process lives and survives exceptions of a pass; whatever a pass
awaits answers or times out (the HTTP clients have timeouts), and one that never answers is
`CommitUnknown`. `WF(FreeTick)`: time passes, and leases run out. No fairness for start requests, cancellations, the queue view, late
appends or faults: nobody owes them. `EveryRunFinishes` holds with faults
bounded; a process that crashes for ever finishes nothing.

In `ResumeRuns`, `WF(WorkerStep)`: provider calls and Notion requests have deadlines, so
every await of the one worker ends; `WF(Reconciliation)`: the operator starts the API again,
and its startup does not wait for anybody. Requests, edits and faults owe nothing. In
`DashboardAnalysis` and `DashboardResume`: a run ends (which is what `EveryRunFinishes` and
`EveryResumeRunFinishes` say of the API),
requests are answered or fail, timers fire; the operator need not do anything, and may leave the page.

**Mutants.** Each property of a passing run comes with a changed definition that
it catches (`PROJECT.json`, "mutants"; the changed forms stand before the real
ones in the modules, marked *Mutant*): a guard forgotten, a bucket of spend left out, a
stale count, two fields swapped.

## 4. Findings

1. **A second Analysis body** (`RunsStartRace`, `analysis_runs.py:137`). `start`
   lists the quarantines, then awaits the snapshot of the queue. If another
   start's run comes and goes in between and leaves the Application under
   quarantine with an append outstanding, the first `start` creates a run over
   it. The page is blank when the new run looks, and the outstanding append
   lands afterwards. `docs/operations.md:108` promises the quarantine protects
   from this. With one start at a time, it does: `RunsAgain`. Comparing the
   candidates with `analysis_commit_quarantine` inside `create_run` would close it.
2. **A committed Resume given up** (`ResumeUncounted`, `resumes/runs.py:284`). After a crash
   between the journal's "completed" and `complete_candidate`, the candidate is still
   evaluating. The next pass takes it up again and gives it up as
   `run_execution_failure`: the Application no longer equals its admitted proof since it has a
   Resume now, or, where that is not noticed at once and stages are paid for once more,
   `start_artifact_set` meets its own row. The run is finished with a
   failed candidate whose artifacts are all there. ADR 0001 of the Resume feature and
   `CONTEXT.md:80` promise forward completion by the owning run.
3. **A Resume Run nobody follows** (`DashboardResume`, `dashboardSession.ts:166`). The end
   of an Analysis Run cancels the timer both runs share. When that end comes with the answer
   to a start, a look at the active run or a cancellation, and not with a poll, nothing
   sets the timer again, although a Resume Run is active. It stays so until the operator reloads
   or starts something.
4. **An Analysis Run nobody follows** (`DashboardAnalysis`, `dashboardSession.ts:147`).
   `acceptAnalysisRun` compares times only when an answer is about the run that is shown. The
   answer to a poll about run 1, finished, may come after a cancellation has brought the same
   end and run 2 was started: it takes the place of run 2 and stops the timer, and run 2 is
   not followed until the page is loaded again. `docs/frontend.md:168` says the UI continues
   polling until the terminal snapshot arrives. What holds is `AnalysisIsFollowed`: a run
   shown as active has the timer set, or a poll that sets it, so only an answer about another
   run can do this. By the same omission a load that was answered about run 1 may put it in the place of run
   2's terminal result, which `docs/frontend.md:174` says is kept visible; run 1 is then followed
   to its end, and run 2's result does not come back, since only active runs are asked for. Refusing
   answers about runs other than the one last asked for would close both.

One smaller divergence met on the way has no run: `build()` hides
`ResumeSpendLimitReached` (`resume_builder.py:157`), so that no Resume Run ends as `spend_limited`.

## 5. The proofs

Every invariant and action property of the passing runs is also a theorem of its
specification, for every value of the constants (three of them for one start request at a
time, `OneStarter` below); `PROJECT.json` lists the theorems.
Eight modules hold them. In each, one invariant is inductive, and what the runs check
is one of its conjuncts or follows from it.

| module | inductive invariant | theorems |
|---|---|---|
| `SetSums` | – | lemmas only: a sum over a finite set is a natural; one summand taken out, changed, gained, lost |
| `SpendPolicyProofs` | `SpendInv` | `BoundedReceiptsSettle`, `CostCoversMetered` |
| `AnalysisRunStoreProofs` | `StoreInv`, `SpendInv`, `TransmissionsInOrder` | all that `StoreRuns` checks, the refinement of `SpendLedger` included, and `RunsAreSerial` |
| `AnalysisRunsProofs` | `ServiceInv`; `ApplicationsInv` | `Spec => StoreSpec`; all that the passing runs of `AnalysisRuns` check except liveness |
| `ResumeRunStoreProofs` | `SpendInv` with the types | counters, ceiling, types, attempts in order, under arbitrary callers |
| `ResumeRunsProofs` | `RunsInv` | all that `ResumeRuns` checks except liveness |
| `ApplicationCaptureProofs` | `CaptureInv` | all that `ApplicationCapture` checks |
| `DashboardSessionProofs` | `SessionInv`, `HeldInv`, `FollowInv` | all that `DashboardSession` checks |

**The Analysis store.** `OneCallInFlight`, `TransmissionsNumbered`, `OneActiveRun`,
`OneCandidateEvaluated` and `FinishedRunIsQuiet` are not inductive alone. A created run
must not find candidates or calls waiting for it (`CandidatesHaveRuns`, `CallsHaveRuns`:
a call that exists belongs to a run and an Application, one that does not holds
nothing), and every step needs the types. Their conjunction, `StoreInv`, is. `StoreNext` has
some twenty actions, and most do one of few things. `StepKinds` puts every step under
one of them: a run moves and keeps its identity, a run ends quiet, a candidate
moves, a call moves, a run is created, the calls of a run are reconciled, the quarantine or
the clock changes. Each conjunct is then proved per kind. The lemmas on operators
(`NextSlotIsFree`, `LeastOfIsLeast`, `NextCandidateIsPending`) say what the queries
return. `ProgressStaysCounted` needs that a count moves exactly with a candidate that becomes
complete. The action properties follow from the kinds and the invariant.

*Spend.* What a run has committed is a sum over its calls. `SetSums` proves what is needed of
such sums without an induction theorem, whose operator argument no installed prover
can instantiate: if a claim failed for some subset of a finite set, it would fail for one of least
cardinality, and taking one element out of that contradicts it. `SumChanges` (one summand
changes, the sum changes by the difference) then gives the ceiling, and that each
step of the store is a step of the ledger.

*Transmissions* (`TransmissionsInOrder`): the slots used for a candidate have no gap
below them, and the call in flight has the last. The service's
`NoSecondPurchase` needs it, since it speaks of an earlier and a later slot.

**The service.** `ServiceKeepsStore` says `Spec => StoreSpec`: workers, requests and queue views
do to the store what the store allows, whatever faults occur. So all the theorems of the store are
theorems of the service, the fence of the lease and the ceiling among them. It needs an
invariant, since a store action has to be found for what a worker's locals ask for. `ServiceInv` adds to the
store's invariants four things:

- `Located`: what the locals say by themselves (a call it holds is one of its run and
  Application; a completed verdict comes only by certain paths).
- `Seen`: what a worker's reads and writes have shown it of the page. It holds with or
  without a lease, since bodies and final properties are never taken away.
- `Leading`: what a worker knows while its lease is current. Its candidate is
  evaluating, the target is not met where it claims, its outcome is true of the candidates where it finishes.
- `RunAccount`: each run's target, completions, candidates and outcome agree. `TargetNotExceeded`
  and `OutcomeIsEarned` are in it; completions are below the target while a candidate is evaluating.

A step of a worker gives `Stepped`: it writes under its lease (`Fenced`) or leaves runs,
candidates and calls alone. Where it is fenced nobody else leads (`NobodyElseLeads`), so
nobody else's knowledge is touched; where it is not, nothing changed. Requests, the clock, late
appends and the queue view are `Aside`: no worker moves, and whatever a cancellation or the end of a lease does
makes leaders know less, never something false.

*Applications.* That no second body is written depends on what crosses runs, and so on `start`.
With two requests at once it does happen (finding 1), so `OneBodyPerApplication`,
`OutstandingAppendsAreQuarantined` and `NeverBuysTwice` assume `OneStarter`: at most one start
request is under way. `ApplicationsInv` has the rest of the argument:

- `AppendsApart`: bodies and outstanding appends of an Application are one together at most, an outstanding one is under
  quarantine, and the one worker that appends does so to a blank page with nothing outstanding.
- `DraftsShow`: a settled draft is in the page or under quarantine.
- `PendingUntouched`: a candidate nobody evaluated yet is under no quarantine. `StartAlone` is
  where it comes from: during a start no run is active, so the list of quarantines it read is not outdated.
- `LeadersBuy`: who leads and is about to buy has nothing bought before it.

**Resume runs.** `ResumeRunStoreProofs` treats the store alone: its three counters are
kept by increments in `settle`, `release` and the like, and are proved to be the sums over its calls, with the ceiling, for any
caller. `ResumeRunsProofs` uses the same lemmas, operation by operation, for the service. `RunsInv` joins

- the store's part (`StoreInv`; also that calls are bounded, runs follow each other and proofs are of a page without a Resume);
- `EffectsInv`: an unresolved journal entry names a candidate whose artifact work was begun and
  that is not completed; nothing is made before its Artifact Set; an Application is related to the Resume
  of one run at most; `CompletedIsWhole`, `CleanedIsUnrelated`;
- `WorkerInv` and `CommitInv`: at each pc of the commit, exactly which of page, note, relation and PDF exist (`Made`), and
  that the entry is active and names the candidate;
- `EntriesInv`: startup works on entries that are still unresolved;
- `EditsAreFaults`: an Application has at most one version more than there were faults, so that a proof is one of `Versions`.

`OneResumePerApplication` then follows: two completed candidates of one Application would both be
related to it. A crash anywhere leaves `EffectsInv`, and the worker at rest.

**Capture.** `CaptureInv`: one confirmation at most is pending per Job URL (`LockInv`); until a confirmation
has posted, no page or entry bears its name; where it creates, every other live page of its URL came late, and where
it inspects or archives, every one but the page it looks at (`StageInv`); the
page somebody was told of is live, or deleted by its user, and its entry is not active (`ReportInv`: hence no later
confirmation or startup archives it); entries are reconciled only while nothing is pending.

**Dashboard.** `SessionInv` rests on `Past(runs, s)`: a snapshot anywhere (shown, or in an answer under way) is one
of the server's runs, at a revision and with a stamp not after its present ones, and with an equal revision
or as finished it is that run as it is now. `Counted` relates the refreshes to the runs remembered.
What an answer may take back is a matter of two snapshots, and so of a second invariant.
`HeldInv` says of any two snapshots of an Analysis Run which the session holds that the later is not stamped
earlier (`InOrder`), and of those of Resume Runs that the stamp is the revision (`Numbered`). It is inductive
since a step brings the session only what it held before or a row as the server has it now
(`FromBefore`), which `Past` puts after all others. An answer that is accepted has no
earlier stamp, so one that goes back has the same: `NeverStepsBack`. `FollowInv` adds to `AnalysisIsFollowed` that
the timer's tasks are polls: each ends with `schedulePoll`, and an answer that is shown as active sets the timer at once.

**Spend policies.** The point is that the reservation rounds input and
output up apart, the settlement their sum: `CeilingCovers` (a ceiling, times the
unit, covers its numerator), `CeilingIsLeast` (it is the least such) and
`ProductGrows` (a cached token is no dearer) give that the cost never exceeds
the reservation. `SpendInv` records how estimate and settlement came about.

**Assumptions**, all named where the constants are declared and evaluated by TLC on every
run of the module:

- `StoreAssumption`, `ResumeStoreAssumption`: sentinels are not identities, the sets counted
  over are finite, queues do not repeat, amounts and terms are positive naturals; the builder's stages differ from each other.
- `RunsAssumption`, `ResumeRunsAssumption`: the arguments that the store leaves to its callers are those the service
  uses (`AskedResults`, `AskedOutcomes`, `Results`, `LeaseTerms`); every Application has a file name; there is a version for each edit.
- `CaptureAssumption`, `DashboardAssumption`: "none" is no Job URL, bounds are naturals, there may be a run.
- `OneStarter`, in three theorems of the service, as explained. It is a hypothesis of theirs and not of the module: the others
  hold for any number of start requests.

**Only model-checked.**

- Liveness (`EveryRunFinishes`, `EveryResumeRunFinishes`): it rests on fairness and `ENABLED`,
  outside the prover.
- The four findings, which are counterexamples.

Two definitions were written differently for the provers, to the same effect: `ResumeRuns` says
which Applications a start selects by their positions in the page's order (`Keep`), where it had `SelectSeq`; and `Proceed` of `DashboardSession` names the new row instead of nesting `@`.

## 6. Abstractions

- *Time* is what is left of a lease. Timestamps are compared with the clock and
  with nothing else.
- *Text* (postings, drafts, prompts, reports) is absent: a response is a draft, an invalid draft, or
  unmetered; an Application is blank, has a body, or is complete.
- *Result codes* are grouped by what `recover` tells apart (`ResultCodes`).
- *Costs* are 1 in `AnalysisRuns` and anything up to the reservation in the
  store; how they are computed is `SpendPolicy`.
- *An append is one request.* An Analysis renders to at most sixteen blocks, below the
  batch of ninety, so there is no half-written body.
- *`failed` and `indeterminate`* of a pass that ends in the graph differ only in the report and are both `failed`.
- *The two reads* of an Application at the head of a pass are one: the first only adds another way to fail.
- *Reads* of the store are the guards of those who read, in the step that reads, and kept in locals when they are used later.
- *One `Stop`* per place where a `finally` clause writes; elsewhere a stop leaves what a crash leaves.
- *`MaxFaults`, the sets of keys and calls* bound the instances, not the code.
- *Late Resume requests.* A request of the artifact commit takes effect before its answer
  is given up, or never; that one lands after the cleanup looked is modelled for
  `ApplicationCapture` and for appends, not here.
- *Store steps of a Resume pass* that follow each other without an await are steps of their own,
  since a crash tells them apart; a cancellation may then also fall between them, which
  the event loop would not allow. It adds behaviours, and takes none away.
- *Failures of SQLite and of the journal's file* are absent.
- *Retries of the transport* repeat what is idempotent (reads, page properties): a request that
  failed in the end is one failed request. Creations and appends are never repeated.
- *Artifact requests* (`request_artifact_action`) are about quarantined sets, and nothing in
  the source writes a quarantine; `ResumeCreation.create` has no route. Both are left out.
- *The page of the queue*: scores at or above 70 are `ready`, others `low`.
- *Capture's content* is how many PATCHes it takes; the first 80 blocks always make a page
  complete to `capture_is_complete`, even when the rest is missing.
- *The dashboard's queues and cursors* are one request, `data`.
- *One page*: the runs the API has are those from before the page was opened and those started
  from it, not those of another tab. `dispose` and `subscribe` alternate only in strict mode's mount.

## 7. Plan

Done: Analysis Runs and their store, the spend policies, Resume Runs with their store and
artifact commit, Application Capture, the dashboard session; and the proofs of all
their invariants and action properties.

Left, proofs:

1. What two start requests at once still guarantee: that a run which finds its candidate free of
   outstanding appends at its start writes no second body. `OneStarter` would become the
   absence of that one overlap.
2. `ApplicationCapture`: an exact form of `OnePageUnlessLate`, which says of each late page which
   confirmation gave it up.
3. `ResumeRuns`: that a finished run has no recoverable Artifact Set but those whose cleanup failed
   or whose commit was interrupted, the positive side of finding 2.

**Not modelled**, and why:

- *The capture session* of the extension: what a form shows while answers overtake each other.
  Nothing durable is behind it; the durable half is `ApplicationCapture`.
- *Matching*: a pure function whose difficulty is the normalisation of text.
- *The migration of the calls table*: its input was left by versions whose code is not here.

Also not: job posting extraction, prompts, the Resume's text selection
and document layout, schemas, generated clients and UI components. They keep no
state a step of another could meet; what they return is an input of the models.
HTTP wiring and settings appear as the environment: the lifespan starts and stops the
workers, routes call `start`, `cancel` and the queue view.
