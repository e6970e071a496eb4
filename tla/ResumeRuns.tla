------------------------------ MODULE ResumeRuns ------------------------------
(***************************************************************************)
(* One Resume Run at a time, from the request that starts it to the        *)
(* artifacts it leaves: the Resume Run Service and its worker              *)
(* (features/resumes/runs.py), the builder's two provider stages           *)
(* (resume_builder.py), the artifact commit and its recovery (commit.py,   *)
(* creation.py, shared/recovery.py) and what they leave in Notion and in   *)
(* the export directory, over the store of ResumeRunStore.                 *)
(*                                                                         *)
(* The API is one asyncio event loop.  What happens between two awaits is  *)
(* one action unless a crash in it can be told apart: a store transaction, *)
(* a journal entry and a file are durable each on its own, so they are     *)
(* steps of their own.  A Notion request that changes a page is two steps, *)
(* for it may take effect and its answer be lost.                          *)
(*                                                                         *)
(* Everything that interferes (an edit of the Application, a failed        *)
(* request, an unusable answer, evidence that does not suffice, a          *)
(* cancellation, a repeated start, a crash) uses up one of MaxFaults.      *)
(***************************************************************************)
EXTENDS ResumeRunStore

CONSTANTS
    FileName,       \* the PDF name an Application's company and role give
    Reservation,    \* the worst case of a call
    Costs,          \* what a receipt may prove a call to have cost
    MaxFaults       \* bound: how often something interferes

VARIABLES
    starter,        \* a start request between its reading of the queue and its end
    wake,           \* the worker's asyncio.Event
    worker,         \* ResumeRunWorker and the process() call it is in
    server,         \* the process: down, reconciling, or up
    apps,           \* the Applications in Notion, as their owner edits them
    art,            \* the artifacts of each run and Application
    journal,        \* the effect journal, keyed by run
    faults

environment == <<apps, art, journal, faults>>

vars == <<storeVars, starter, wake, worker, server, environment>>

Idle == [pc |-> "idle", run |-> "none", todo |-> <<>>, seen |-> <<0, {}>>,
         stage |-> 0, tries |-> 0, doubt |-> FALSE, reason |-> "none"]

NoStarter == [pc |-> "none", queue |-> <<>>, target |-> 0, exhausted |-> FALSE]

NoArtifacts == [resume |-> "none", linked |-> FALSE, note |-> "none", pdf |-> FALSE]

NoEntry == [app |-> "none", resume |-> FALSE, pdf |-> FALSE, note |-> FALSE,
            resolution |-> "none"]

ASSUME ResumeRunsAssumption ==
    /\ Stages # <<>>
    /\ DOMAIN FileName = Applications
    /\ Reservation \in Nat \ {0}
    /\ Costs \subseteq 0..Reservation
    /\ Runs \subseteq Keys
    /\ MaxFaults \in Nat
    /\ (1..MaxFaults + 1) \X SUBSET Runs \subseteq Versions

Fault == faults < MaxFaults /\ faults' = faults + 1

NoFault == faults' = faults

-----------------------------------------------------------------------------
(* Notion                                                                  *)

\* The resume_ids of an Application: every page related to it, archived or not.
Related(a) == {r \in Runs : art[r][a].linked}

\* find_completed_resume
CompletedResumes(a) == {r \in Related(a) : art[r][a].resume = "live"}

\* source_proof of application_document: any difference in the record shows.
Source(a) == <<apps[a].version, Related(a)>>

Readable(a) == apps[a].kind # "unreadable"

Nth(places, n) == CHOOSE i \in places : Cardinality({j \in places : j <= i}) = n

\* What of order is in S, in its order.
Keep(order, S) ==
    LET places == {i \in DOMAIN order : order[i] \in S}
    IN  [n \in 1..Cardinality(places) |-> order[Nth(places, n)]]

\* list_resume_queue leaves out an Application that cannot be read or has a
\* live Resume; the service then drops what scores below 70.
Listed(order) ==
    Keep(order, {a \in Applications : Readable(a) /\ CompletedResumes(a) = {}})

\* The owner edits an Application: its text, its score, its status.
Edit(a) ==
    /\ Fault
    /\ \E kind \in {"ready", "low", "unreadable"} :
          apps' = [apps EXCEPT ![a] = [version |-> @.version + 1, kind |-> kind]]
    /\ UNCHANGED <<storeVars, starter, wake, worker, server, art, journal>>

-----------------------------------------------------------------------------
(* Requests                                                                *)

Up == server.state = "up"

\* ResumeRunService.start up to its reading of the queue.
ReadQueue(order, target) ==
    LET listed == Listed(order)
        page == SubSeq(listed, 1, Min({Len(listed), 2 * target}))
    IN  /\ Up
        /\ starter = NoStarter
        /\ starter' = [pc |-> "selected",
                       queue |-> Keep(page, {a \in Applications : apps[a].kind = "ready"}),
                       target |-> target,
                       exhausted |-> Len(listed) <= 2 * target]
        /\ UNCHANGED <<storeVars, wake, worker, server, environment>>

\* run_id_factory: which of the unused identities it gives does not matter.
NewRun == CHOOSE r \in Runs : runs[r].lifecycle = "absent"

\* The rest of it, and the wake of start_resume_run.  A client makes a new
\* key for a new request, here the name of the run it gets.
Start ==
    /\ starter.pc = "selected"
    /\ \E r \in Runs : runs[r].lifecycle = "absent"
    /\ StartRun(NewRun, NewRun, starter.target, starter.queue, starter.exhausted)
    /\ starter' = NoStarter
    /\ wake' = TRUE
    /\ UNCHANGED <<worker, server, environment>>

\* Another run is active, or a prerequisite is missing: no run, no wake.
StartRefused ==
    /\ starter.pc = "selected"
    /\ \E r \in Runs : Unfinished(r)
    /\ starter' = NoStarter
    /\ UNCHANGED <<storeVars, wake, worker, server, environment>>

\* A start repeated with its key, for want of an answer, is answered from
\* its row and wakes the worker again.
Replay ==
    /\ Up
    /\ \E r \in Runs : runs[r].lifecycle # "absent"
    /\ Fault
    /\ wake' = TRUE
    /\ UNCHANGED <<storeVars, starter, worker, server, apps, art, journal>>

\* cancel_resume_run
RequestCancel(r) ==
    /\ Up
    /\ Cancel(r)
    /\ wake' = TRUE
    /\ Fault
    /\ UNCHANGED <<starter, worker, server, apps, art, journal>>

-----------------------------------------------------------------------------
(* The worker: process() up to the admission of a candidate                *)

At(pc) == Up /\ worker.pc = pc

Goto(pc) == worker' = [worker EXCEPT !.pc = pc]

Candidate == Head(worker.todo)

NextCandidate == worker' = [worker EXCEPT !.pc = "next", !.todo = Tail(@)]

\* One of the except clauses: the candidate fails, the loop is left.
Abandon(reason) == worker' = [worker EXCEPT !.pc = "failing", !.reason = reason]

WorkerRest == UNCHANGED <<starter, wake, server>>

\* _run and the head of process
Wake ==
    /\ At("idle")
    /\ wake
    /\ wake' = FALSE
    /\ \/ /\ ~ \E r \in Runs : Unfinished(r)
          /\ UNCHANGED <<storeVars, worker>>
       \/ \E r \in Runs :
             \/ /\ runs[r].lifecycle = "cancelling"
                /\ FinishCancellation(r)
                /\ worker' = worker
             \/ /\ runs[r].lifecycle \in {"queued", "running"}
                /\ Begin(r)
                /\ worker' = [Idle EXCEPT
                      !.run = r, !.todo = runs[r].queue,
                      !.pc = IF runs[r].queue = <<>> THEN "ending" ELSE "next"]
    /\ UNCHANGED <<starter, server, environment>>

\* The head of the loop; a final candidate of an earlier pass is passed over.
Select ==
    LET r == worker.run
    IN  /\ At("next")
        /\ IF worker.todo = <<>> \/ runs[r].outcome # "none"
           THEN Goto("ending")
           ELSE CASE candidates[r][Candidate].state = "pending" -> Goto("first_read")
                  [] candidates[r][Candidate].state = "evaluating" -> Goto("restore")
                  [] OTHER -> NextCandidate
        /\ WorkerRest
        /\ UNCHANGED <<storeVars, environment>>

\* The first of the two reads an admission compares.
FirstRead ==
    /\ At("first_read")
    /\ \/ /\ Readable(Candidate)
          /\ worker' = [worker EXCEPT !.pc = "second_read", !.seen = Source(Candidate)]
          /\ NoFault
       \/ /\ ~Readable(Candidate)
          /\ Abandon("run_execution_failure")
          /\ NoFault
       \/ /\ Abandon("run_execution_failure")
          /\ Fault
    /\ WorkerRest
    /\ UNCHANGED <<storeVars, apps, art, journal>>

\* Mutant: the Resumes already related to the Application are not looked at.
EligibleWhateverRelated(a) == worker.seen = Source(a) /\ apps[a].kind = "ready"

Eligible(a) ==
    /\ worker.seen = Source(a)
    /\ apps[a].kind = "ready"
    /\ Related(a) = {}

\* The second read and the decision: admitted, not eligible, or stopped.
SecondRead ==
    LET r == worker.run  a == Candidate
    IN  /\ At("second_read")
        /\ \/ /\ Readable(a) /\ Eligible(a)
              /\ IF Proceeding(r)
                 THEN AdmitCandidate(r, a, Source(a)) /\ Goto("restore")
                 ELSE UNCHANGED storeVars /\ NextCandidate
              /\ NoFault
           \/ /\ Readable(a) /\ ~Eligible(a)
              /\ IF Proceeding(r)
                 THEN BeginCandidate(r, a)
                 ELSE UNCHANGED storeVars
              /\ Goto("ineligible")
              /\ NoFault
           \/ /\ ~Readable(a)
              /\ Abandon("run_execution_failure")
              /\ UNCHANGED storeVars
              /\ NoFault
           \/ /\ Abandon("run_execution_failure")
              /\ UNCHANGED storeVars
              /\ Fault
        /\ WorkerRest
        /\ UNCHANGED <<apps, art, journal>>

Ineligible ==
    /\ At("ineligible")
    /\ FailCandidate(worker.run, Candidate, "candidate_became_ineligible")
    /\ NextCandidate
    /\ WorkerRest
    /\ UNCHANGED environment

\* The checkpoints an admission leaves, of this pass or of one that crashed.
Restore ==
    /\ At("restore")
    /\ IF candidates[worker.run][Candidate].proof = NoProof
       THEN Abandon("run_execution_failure")
       ELSE worker' = [worker EXCEPT !.pc = "build", !.stage = 1, !.tries = 0]
    /\ WorkerRest
    /\ UNCHANGED <<storeVars, environment>>

-----------------------------------------------------------------------------
(* The builder: two provider stages, two answers each                      *)

Stage == Stages[worker.stage]

\* _require_unchanged
Unchanged(a) == Readable(a) /\ Source(a) = candidates[worker.run][a].proof

LastCall == <<worker.run, Candidate, Stage, NextAttempt(worker.run, Candidate, Stage) - 1>>

\* The dispatcher from _require_unchanged to reserve_call.  Whatever is
\* raised here, ResumeRunStopping and ResumeSpendLimitReached too, reaches
\* process() as the builder's ResumeGenerationError.
Dispatch ==
    LET r == worker.run  a == Candidate
        allowed ==
            /\ Unchanged(a)
            /\ NextAttempt(r, a, Stage) <= DispatchLimit
            /\ Proceeding(r)
            /\ Fits(r, Reservation)
    IN  /\ At("build")
        /\ \/ /\ allowed
              /\ ReserveCall(r, a, Stage, Reservation)
              /\ Goto("reserved")
              /\ NoFault
           \/ /\ ~allowed
              /\ Abandon("run_execution_failure")
              /\ UNCHANGED storeVars
              /\ NoFault
           \/ /\ Abandon("run_execution_failure")
              /\ UNCHANGED storeVars
              /\ Fault
        /\ WorkerRest
        /\ UNCHANGED <<apps, art, journal>>

Transmit ==
    /\ At("reserved")
    /\ MarkCallDispatching(LastCall)
    /\ Goto("dispatching")
    /\ WorkerRest
    /\ UNCHANGED environment

NextStage ==
    worker' = [worker EXCEPT !.pc = IF worker.stage = Len(Stages) THEN "recheck" ELSE "build",
                             !.stage = @ + 1, !.tries = 0]

AskAgain == worker.tries = 0 /\ worker' = [worker EXCEPT !.pc = "build", !.tries = 1]

\* A draft, the last stage, is made from the evidence when it is unusable
\* for the second time.
CompleteRoles == worker.tries = 1 /\ worker.stage = Len(Stages) /\ NextStage

\* The requirements are given up then, and with them the candidate.
Repair ==
    \/ AskAgain
    \/ CompleteRoles
    \/ worker.tries = 1 /\ worker.stage # Len(Stages) /\ Abandon("run_execution_failure")

\* The answer: usable and paid for, unusable, or the end of the candidate: a
\* transport error, or a fit too low for a Resume (_evaluate_gate).  Without
\* a receipt the whole reservation stays committed.
Answer ==
    /\ At("dispatching")
    /\ \/ /\ \E cost \in Costs : ResolveCall(LastCall, "settled", cost)
          /\ NextStage
          /\ NoFault
       \/ /\ \/ \E cost \in Costs : ResolveCall(LastCall, "settled", cost)
             \/ ResolveCall(LastCall, "indeterminate", 0)
          /\ Repair
          /\ Fault
       \/ /\ \/ \E cost \in Costs : ResolveCall(LastCall, "settled", cost)
             \/ ResolveCall(LastCall, "not_transmitted", 0)
             \/ ResolveCall(LastCall, "indeterminate", 0)
          /\ Abandon("run_execution_failure")
          /\ Fault
    /\ WorkerRest
    /\ UNCHANGED <<apps, art, journal>>

-----------------------------------------------------------------------------
(* The commit: draft, PDF, note, relation                                  *)

\* The comparison before artifact work, and start_artifact_set.  Here a run
\* that is stopping is recognised as one.
Recheck ==
    LET r == worker.run  a == Candidate
    IN  /\ At("recheck")
        /\ \/ /\ Unchanged(a) /\ Proceeding(r)
              /\ IF candidates[r][a].set = "none"
                 THEN StartArtifactSet(r, a) /\ Goto("intent")
                 ELSE UNCHANGED storeVars /\ Abandon("run_execution_failure")
              /\ NoFault
           \/ /\ Readable(a) /\ ~(Unchanged(a) /\ Proceeding(r))
              /\ IF runs[r].lifecycle = "cancelling"
                 THEN Goto("ending")
                 ELSE Abandon("spend_limited")
              /\ UNCHANGED storeVars
              /\ NoFault
           \/ /\ ~Readable(a)
              /\ Abandon("run_execution_failure")
              /\ UNCHANGED storeVars
              /\ NoFault
           \/ /\ Abandon("run_execution_failure")
              /\ UNCHANGED storeVars
              /\ Fault
        /\ WorkerRest
        /\ UNCHANGED <<apps, art, journal>>

\* JsonEffectJournal.start: the entry of the run, whatever it held.
WriteIntent ==
    /\ At("intent")
    /\ journal' = [journal EXCEPT ![worker.run] =
          [NoEntry EXCEPT !.app = Candidate, !.resolution = "active"]]
    /\ Goto("resume")
    /\ WorkerRest
    /\ UNCHANGED <<storeVars, apps, art, faults>>

\* commit's except clause.  A page asked for and not known of is in doubt.
CleanUp(doubt) == worker' = [worker EXCEPT !.pc = "cleaning", !.doubt = doubt]

\* A request that changes a page takes effect, or fails without effect.
Send(pc, sent, field, value, doubt) ==
    /\ At(pc)
    /\ \/ /\ art' = [art EXCEPT ![worker.run][Candidate][field] = value]
          /\ Goto(sent)
          /\ NoFault
       \/ /\ art' = art
          /\ CleanUp(doubt)
          /\ Fault
    /\ WorkerRest
    /\ UNCHANGED <<storeVars, apps, journal>>

\* Its answer arrives, and the journal records what it names, or is lost.
Receive(sent, pc, entry, doubt) ==
    /\ At(sent)
    /\ \/ /\ journal' = [journal EXCEPT ![worker.run] = entry]
          /\ Goto(pc)
          /\ NoFault
       \/ /\ journal' = journal
          /\ CleanUp(doubt)
          /\ Fault
    /\ WorkerRest
    /\ UNCHANGED <<storeVars, apps, art>>

Entry == journal[worker.run]

CreateResume == Send("resume", "resume_sent", "resume", "live", TRUE)

ResumeCreated == Receive("resume_sent", "publish", [Entry EXCEPT !.resume = TRUE], TRUE)

\* The artifacts whose PDF has the name this candidate's would have.
SameName(a) ==
    {x \in Runs \X Applications : FileName[x[2]] = FileName[a] /\ art[x[1]][x[2]].pdf}

\* Mutant: a PDF of that name is replaced, and its index entry with it.
PublishOver ==
    /\ At("publish")
    /\ art' = [r \in Runs |-> [a \in Applications |->
          [art[r][a] EXCEPT !.pdf = IF <<r, a>> = <<worker.run, Candidate>> THEN TRUE
                                    ELSE @ /\ <<r, a>> \notin SameName(Candidate)]]]
    /\ Goto("published")
    /\ WorkerRest
    /\ UNCHANGED <<storeVars, apps, journal, faults>>

\* LocalPdfArtifacts.publish
Publish ==
    /\ At("publish")
    /\ IF SameName(Candidate) = {}
       THEN /\ art' = [art EXCEPT ![worker.run][Candidate].pdf = TRUE]
            /\ Goto("published")
       ELSE /\ art' = art
            /\ CleanUp(FALSE)
    /\ WorkerRest
    /\ UNCHANGED <<storeVars, apps, journal, faults>>

PdfPublished ==
    /\ At("published")
    /\ journal' = [journal EXCEPT ![worker.run].pdf = TRUE]
    /\ Goto("note")
    /\ WorkerRest
    /\ UNCHANGED <<storeVars, apps, art, faults>>

CreateNote == Send("note", "note_sent", "note", "live", TRUE)

NoteCreated == Receive("note_sent", "attach", [Entry EXCEPT !.note = TRUE], TRUE)

\* attach_resume_to_application: the commit marker, set last.
Attach == Send("attach", "attach_sent", "linked", TRUE, FALSE)

Attached == Receive("attach_sent", "complete", [Entry EXCEPT !.resolution = "completed"], FALSE)

Complete ==
    /\ At("complete")
    /\ CompleteCandidate(worker.run, Candidate)
    /\ NextCandidate
    /\ WorkerRest
    /\ UNCHANGED environment

\* What an entry names, in the order of _cleanup.
Named(entry) ==
    {"linked"} \cup (IF entry.note THEN {"note"} ELSE {})
               \cup (IF entry.pdf THEN {"pdf"} ELSE {})

Undone(artifacts, entry, undo) ==
    [artifacts EXCEPT
        !.linked = @ /\ ~(entry.resume /\ "linked" \in undo),
        !.note = IF entry.note /\ "note" \in undo THEN "archived" ELSE @,
        !.pdf = @ /\ ~(entry.pdf /\ "pdf" \in undo),
        !.resume = IF entry.resume /\ "resume" \in undo THEN "archived" ELSE @]

Effects == {"linked", "note", "pdf", "resume"}

\* Mutant: an effect that could not be undone is not counted.
ResolvedWhateverFailed(failed, doubt) ==
    IF doubt THEN "active" ELSE "cleaned"

\* The resolution of a cleanup that found errors or had doubts.
Resolved(failed, doubt) ==
    IF failed \/ doubt THEN "active" ELSE "cleaned"

\* _cleanup of what the entry names, each effect on its own: some fail, and
\* one that is reported to fail may have been undone all the same.
CleanEntry(r, failed, doubt) ==
    \E undo \in SUBSET Effects :
        /\ ~failed => undo = Effects
        /\ art' = [art EXCEPT ![r][journal[r].app] = Undone(@, journal[r], undo)]
        /\ journal' = [journal EXCEPT ![r].resolution = Resolved(failed, doubt)]

Clean ==
    /\ At("cleaning")
    /\ \/ CleanEntry(worker.run, FALSE, worker.doubt) /\ NoFault
       \/ CleanEntry(worker.run, TRUE, worker.doubt) /\ Fault
    /\ Abandon("artifact_commit_failed")
    /\ WorkerRest
    /\ UNCHANGED <<storeVars, apps>>

-----------------------------------------------------------------------------
(* The end of process()                                                    *)

Fail ==
    /\ At("failing")
    /\ FailCandidate(worker.run, Candidate, worker.reason)
    /\ Goto("ending")
    /\ WorkerRest
    /\ UNCHANGED environment

End ==
    /\ At("ending")
    /\ IF runs[worker.run].lifecycle = "cancelling"
       THEN FinishCancellation(worker.run)
       ELSE Finish(worker.run)
    /\ worker' = Idle
    /\ WorkerRest
    /\ UNCHANGED environment

-----------------------------------------------------------------------------
(* Crash and restart                                                       *)

\* The process dies, or its startup ends with an exception of reconcile.
Crash ==
    /\ server.state # "down"
    /\ Fault
    /\ server' = [state |-> "down", entries |-> {}]
    /\ starter' = NoStarter
    /\ wake' = FALSE
    /\ worker' = Idle
    /\ UNCHANGED <<storeVars, apps, art, journal>>

Unresolved == {r \in Runs : journal[r].resolution = "active"}

\* lifespan, up to ResumeCreation.reconcile
Restart ==
    /\ server.state = "down"
    /\ server' = [state |-> "reconciling", entries |-> Unresolved]
    /\ UNCHANGED <<storeVars, starter, wake, worker, environment>>

\* The Application's Resume is the one the entry names: it was committed.
ReconciledAsCompleted(r) ==
    journal[r].resume /\ CompletedResumes(journal[r].app) = {r}

\* ResumeCreation.reconcile of one entry, with ResumeArtifactCommitter's.
ReconcileEntry(r) ==
    LET a == journal[r].app
        keep == UNCHANGED <<art, journal>>
    IN  /\ server.state = "reconciling"
        /\ r \in server.entries
        /\ server' = [server EXCEPT !.entries = @ \ {r}]
        /\ \/ \* the Application or its Resumes cannot be read
              /\ keep
              /\ IF Readable(a) THEN Fault ELSE NoFault
           \/ /\ Readable(a) /\ ReconciledAsCompleted(r)
              /\ journal' = [journal EXCEPT ![r].resolution = "completed"]
              /\ art' = art
              /\ NoFault
           \/ \* another Resume is there, or nothing on record to clean up
              /\ Readable(a) /\ ~ReconciledAsCompleted(r)
              /\ CompletedResumes(a) # {} \/ ~journal[r].resume
              /\ keep
              /\ NoFault
           \/ /\ Readable(a) /\ ~ReconciledAsCompleted(r)
              /\ CompletedResumes(a) = {} /\ journal[r].resume
              /\ \/ CleanEntry(r, FALSE, FALSE) /\ NoFault
                 \/ CleanEntry(r, TRUE, FALSE) /\ Fault
        /\ UNCHANGED <<storeVars, starter, wake, worker, apps>>

\* Mutant: the worker is started without a wake of its own.
ServeAsleep ==
    /\ server.state = "reconciling"
    /\ server.entries = {}
    /\ server' = [server EXCEPT !.state = "up"]
    /\ UNCHANGED <<storeVars, starter, wake, worker, environment>>

\* ResumeRunWorker.start wakes the worker.
Serve ==
    /\ server.state = "reconciling"
    /\ server.entries = {}
    /\ server' = [server EXCEPT !.state = "up"]
    /\ wake' = TRUE
    /\ UNCHANGED <<storeVars, starter, worker, environment>>

-----------------------------------------------------------------------------

Init ==
    /\ StoreInit
    /\ starter = NoStarter
    /\ wake = TRUE
    /\ worker = Idle
    /\ server = [state |-> "up", entries |-> {}]
    /\ apps = [a \in Applications |-> [version |-> 1, kind |-> "ready"]]
    /\ art = [r \in Runs |-> [a \in Applications |-> NoArtifacts]]
    /\ journal = [r \in Runs |-> NoEntry]
    /\ faults = 0

\* The builder and the commit, a step at a time.
WorkerStep ==
    \/ Wake \/ Select \/ FirstRead \/ SecondRead \/ Ineligible \/ Restore
    \/ Dispatch \/ Transmit \/ Answer \/ Recheck \/ WriteIntent
    \/ CreateResume \/ ResumeCreated \/ Publish \/ PdfPublished
    \/ CreateNote \/ NoteCreated \/ Attach \/ Attached
    \/ Complete \/ Clean \/ Fail \/ End

Reconciliation == Restart \/ (\E r \in Runs : ReconcileEntry(r)) \/ Serve

Request ==
    \/ \E order \in Queues, target \in Targets : ReadQueue(order, target)
    \/ Start \/ StartRefused \/ Replay
    \/ \E r \in Runs : RequestCancel(r)

Next ==
    \/ WorkerStep
    \/ Reconciliation
    \/ Request
    \/ \E a \in Applications : Edit(a)
    \/ Crash

Spec == Init /\ [][Next]_vars

\* Every await of the worker ends: provider calls and Notion requests have
\* deadlines.  The operator starts the API again.  Nobody has to send a request.
FairSpec == Spec /\ WF_vars(WorkerStep) /\ WF_vars(Reconciliation)

-----------------------------------------------------------------------------
(* Properties                                                              *)

Pages == {"none", "live", "archived"}

WorkerPcs ==
    {"idle", "next", "first_read", "second_read", "ineligible", "restore", "build",
     "reserved", "dispatching", "recheck", "intent", "resume", "resume_sent", "publish",
     "published", "note", "note_sent", "attach", "attach_sent", "complete", "cleaning",
     "failing", "ending"}

(* Every variable holds a value the code could hold. *)
TypeOK ==
    /\ runs \in [Runs ->
          [lifecycle : Lifecycles \cup {"absent"}, key : Keys \cup {"absent"},
           target : Targets \cup {0}, queue : Seq(Applications),
           exhausted : BOOLEAN, outcome : Outcomes \cup {"none"},
           reason : Outcomes \cup {"none", "operator_cancelled"},
           verified : 0..Ceiling, active : 0..Ceiling, indeterminate : 0..Ceiling]]
    /\ \A r \in Runs, a \in Applications :
          /\ candidates[r][a].state \in
                {"absent", "pending", "evaluating"} \cup TerminalCandidateStates
          /\ candidates[r][a].proof \in Versions \cup {NoProof}
          /\ candidates[r][a].set \in {"none", "recoverable", "sealed"}
    /\ calls \in [CallIds -> [state : CallStates \cup {"absent"},
                              reservation : 0..Reservation, cost : 0..Reservation]]
    /\ wake \in BOOLEAN
    /\ worker.pc \in WorkerPcs
    /\ server.state \in {"down", "reconciling", "up"}
    /\ art \in [Runs -> [Applications ->
          [resume : Pages, linked : BOOLEAN, note : Pages, pdf : BOOLEAN]]]
    /\ journal \in [Runs ->
          [app : Applications \cup {"none"}, resume : BOOLEAN, pdf : BOOLEAN, note : BOOLEAN,
           resolution : {"none", "active", "completed", "cleaned"}]]
    /\ faults \in 0..MaxFaults

(* A completed candidate has all it was sealed with: a live Resume related   *)
(* to its Application, a live note, a PDF of its own.  No cleanup, no        *)
(* restart and no later candidate of the same PDF name takes any of it away. *)
CompletedIsWhole ==
    \A r \in Runs, a \in Applications :
        candidates[r][a].state = "completed" =>
            /\ candidates[r][a].set = "sealed"
            /\ art[r][a] = [resume |-> "live", linked |-> TRUE, note |-> "live", pdf |-> TRUE]

(* However runs crash, are cancelled and repeated, an Application is never   *)
(* related to two live Resumes.                                              *)
OneResumePerApplication ==
    \A a \in Applications : Cardinality(CompletedResumes(a)) <= 1

(* What the journal calls cleaned is: no live Resume and no relation are     *)
(* left of it, although an answer may have been lost on either side of each  *)
(* effect and a cleanup may end half-way, in the run or after a restart.     *)
CleanedIsUnrelated ==
    \A r \in Runs :
        journal[r].resolution = "cleaned" =>
            /\ art[r][journal[r].app].resume # "live"
            /\ ~art[r][journal[r].app].linked

(* docs/adr/0001: "Interruption and cancellation alone preserve forward      *)
(* recovery."  A Resume whose commit the journal calls completed belongs to  *)
(* a completed candidate when its run is over.                               *)
CommitIsCounted ==
    \A r \in Runs :
        runs[r].lifecycle = "finished" /\ journal[r].resolution = "completed" =>
            candidates[r][journal[r].app].state = "completed"

(* Every Resume Run that is started is finished: the wake of its start, of   *)
(* a cancellation or of a restart is never lost.                             *)
EveryResumeRunFinishes ==
    \A r \in Runs : runs[r].lifecycle = "queued" ~> runs[r].lifecycle = "finished"

=============================================================================
