----------------------------- MODULE AnalysisRuns -----------------------------
(***************************************************************************)
(* Analysis Runs at work: AnalysisRunService, its candidate evaluator and  *)
(* graph, and AnalysisRunWorker (features/applications/analysis_runs.py,   *)
(* analysis_graph.py, analysis_authorization.py), composed with the store  *)
(* they write and with Notion and the provider, which they do not control. *)
(*                                                                         *)
(* A worker is one backend process: each of its steps is one store         *)
(* transaction, one answer it waits for, or one decision between two of    *)
(* them, so that another process, an HTTP request or a crash can come      *)
(* between any two.  Faults (crashes, stalls that let a lease run out,     *)
(* answers that never arrive, calls that are not transmitted) are bounded  *)
(* together by MaxFaults.                                                  *)
(***************************************************************************)
EXTENDS AnalysisRunStore

CONSTANTS
    Starters,         \* clients of start(), each with one request at a time
    LeaseTerm,        \* _lease_duration
    Protection,       \* _REMOTE_COMMIT_LEASE_PROTECTION
    AttemptsPerTarget,    \* attempt_budget = target * 2
    PretransmissionLimit, \* _PRETRANSMISSION_RECOVERY_LIMIT (3)
    MaxFaults         \* bound of the model, not of the code

VARIABLES
    worker,   \* the workers' program counters and locals
    page,     \* the Applications in Notion
    starter,  \* the start() requests
    faults

serviceVars == <<worker, page, starter, faults>>
vars == <<storeVars, serviceVars>>

\* The result codes recover() tells apart: response_received; response_invalid;
\* response_valid; response_valid_commit_unknown;
\* response_valid_source_unreadable; response_valid_storage_rejected or
\* response_processing_failed; rate limits, timeouts and outages; refused
\* authentication or balance; invalid_request or provider_error.
ResultCodes == {"received", "invalid", "valid", "commit_unknown", "source", "rejected",
                "systemic", "authorization", "terminal"}

ASSUME RunsAssumption ==
    /\ Results = ResultCodes
    /\ Reasons = {"cancelled", "stopped"}
    /\ AskedResults = TerminalCandidateStates /\ AskedOutcomes = Outcomes
    /\ LeaseTerms = {LeaseTerm, Protection}
    /\ "none" \notin Calls
    /\ AttemptsPerTarget \in Nat /\ PretransmissionLimit \in Nat /\ MaxFaults \in Nat

NoVerdict == [state |-> "none", stop |-> "none"]

AtRest == [pc |-> "idle", run |-> "none", app |-> "none", resumed |-> FALSE,
           retry |-> TRUE, stage |-> "append", call |-> "none", tries |-> 0,
           unsent |-> 0, result |-> "none", verdict |-> NoVerdict]

NoRequest == [pc |-> "idle", todo |-> {}, seen |-> {}]

FreshRun == CHOOSE r \in Runs : runs[r].lifecycle = "absent"

UsedKeys == {runs[r].key : r \in Runs}

FreshCall == CHOOSE c \in Calls : calls[c].state = "absent"

Mine(w) == worker[w].run

\* The calls recover() considers.
UnreleasedCalls(r, a) ==
    {c \in Calls : /\ calls[c].run = r /\ calls[c].application = a
                   /\ calls[c].state \notin {"absent", "released"}}

\* The result of the last call that was transmitted.
LastResult(r, a) ==
    LET last == {c \in Transmitted(r, a) :
                    \A d \in Transmitted(r, a) : calls[d].slot <= calls[c].slot}
    IN  IF last = {} THEN "none" ELSE calls[CHOOSE c \in last : TRUE].result

\* What load_analysis_input shows of an Application: nothing yet, an Analysis
\* body without its final properties, or both.
Blank(a) == page[a].bodies = 0
Complete(a) == page[a].bodies > 0 /\ page[a].analyzed
Partial(a) == page[a].bodies > 0 /\ ~page[a].analyzed

-----------------------------------------------------------------------------
(* Where a worker goes next                                                *)

Goes(w, pc) == worker' = [worker EXCEPT ![w].pc = pc]

Rests(w) == worker' = [worker EXCEPT ![w] = AtRest]

\* Mutant: state and stop_outcome change places.
ConcludesSwapped(w, state, stop) ==
    worker' = [worker EXCEPT ![w] =
        [AtRest EXCEPT !.pc = "record", !.run = Mine(w), !.app = worker[w].app,
                       !.retry = worker[w].retry,
                       !.verdict = [state |-> stop, stop |-> state]]]

\* The evaluation is over: AnalysisCandidateEvaluation(state, stop_outcome).
\* evaluate() says indeterminate for failed when a call of its pass was; no
\* decision depends on which, so the graph's failures are all kept as failed.
Concludes(w, state, stop) ==
    worker' = [worker EXCEPT ![w] =
        [AtRest EXCEPT !.pc = "record", !.run = Mine(w), !.app = worker[w].app,
                       !.retry = worker[w].retry,
                       !.verdict = [state |-> state, stop |-> stop]]]

\* A defect of the candidate; a defect that every candidate would meet.
FailsCandidate(w) == Concludes(w, "failed", "none")
FailsRun(w) == Concludes(w, "failed", "failed")

\* A page that cannot be read: gone or malformed, or Notion is unavailable (or
\* the Master Resume evidence is, which fails the run too).
CannotRead(w) == FailsCandidate(w) \/ FailsRun(w)

ToFinish(outcome, w) ==
    [AtRest EXCEPT !.pc = "finish", !.run = Mine(w),
                   !.verdict = [state |-> "none", stop |-> outcome]]

Finishes(w, outcome) == worker' = [worker EXCEPT ![w] = ToFinish(outcome, w)]

\* finalize_application_analysis is next; result is what its success means.
Finalizes(w, result) ==
    worker' = [worker EXCEPT ![w].pc = "protect", ![w].stage = "finalize",
                             ![w].result = result]

\* _route_after_validation: another call or the end, after a call that did not
\* give a valid draft.  tries and unsent count this pass of the graph alone.
CallsAgain(w, tries, unsent, Otherwise) ==
    IF tries < TransmissionLimit /\ unsent < PretransmissionLimit
        THEN worker' = [worker EXCEPT ![w].pc = "reserve", ![w].call = "none",
                                      ![w].tries = tries, ![w].unsent = unsent]
        ELSE Otherwise

-----------------------------------------------------------------------------
(* AnalysisRunService._process_claimed                                     *)

\* process_next_run
Claim(w) ==
    /\ worker[w].pc = "idle"
    /\ \E r \in Runs :
          /\ ClaimRecoverableRun(r, w, LeaseTerm)
          /\ worker' = [worker EXCEPT ![w].pc = "interrupted", ![w].run = r]
    /\ UNCHANGED <<page, starter, faults>>

ReconcileCalls(w) ==
    /\ worker[w].pc = "interrupted"
    /\ ReconcileInterruptedCalls(Mine(w), w)
    /\ Goes(w, "recorded")
    /\ UNCHANGED <<page, starter, faults>>

\* The recorded responses reconcile_recorded_calls or recover has to settle.
RecordedCalls(w) ==
    {c \in Calls : /\ calls[c].run = Mine(w) /\ calls[c].state = "response_recorded"
                   /\ worker[w].pc = "recovering" => calls[c].application = worker[w].app}

\* _settle_recorded_response: settled from its receipt, or indeterminate when
\* the receipt does not hold.
SettleRecorded(w) ==
    /\ worker[w].pc \in {"recorded", "recovering"}
    /\ \E c \in RecordedCalls(w) :
          \/ SettleProviderCall(c, w, 1, "none")
          \/ MarkIndeterminate(c, w, "none")
    /\ UNCHANGED serviceVars

EnterLoop(w) ==
    /\ worker[w].pc = "recorded"
    /\ RecordedCalls(w) = {}
    /\ Goes(w, "loop")
    /\ UNCHANGED <<storeVars, page, starter, faults>>

\* Mutant: the target is only looked at after a result.
SurveyWithoutTarget(w) ==
    LET r == Mine(w)
        open == Evaluating(r)
    IN  /\ worker[w].pc = "loop"
        /\ runs[r].lifecycle \in Leased
        /\ CASE runs[r].lifecycle = "cancelling" /\ open # {} ->
                   worker' = [worker EXCEPT ![w].pc = "recovering", ![w].retry = FALSE,
                                            ![w].app = CHOOSE a \in open : TRUE]
             [] runs[r].lifecycle = "cancelling" /\ open = {} -> Finishes(w, "cancelled")
             [] OTHER -> worker' = [worker EXCEPT ![w].pc = "renew",
                                                  ![w].resumed = (open # {})]
        /\ UNCHANGED <<storeVars, page, starter, faults>>

\* The snapshot at the head of the loop.
Survey(w) ==
    LET r == Mine(w)
        open == Evaluating(r)
    IN  /\ worker[w].pc = "loop"
        /\ runs[r].lifecycle \in Leased
        /\ CASE runs[r].lifecycle = "cancelling" /\ open # {} ->
                   worker' = [worker EXCEPT ![w].pc = "recovering", ![w].retry = FALSE,
                                            ![w].app = CHOOSE a \in open : TRUE]
             [] runs[r].lifecycle = "cancelling" /\ open = {} -> Finishes(w, "cancelled")
             [] runs[r].lifecycle = "running" /\ runs[r].completions >= runs[r].target ->
                   Finishes(w, "target_met")
             [] OTHER -> worker' = [worker EXCEPT ![w].pc = "renew",
                                                  ![w].resumed = (open # {})]
        /\ UNCHANGED <<storeVars, page, starter, faults>>

Renew(w) ==
    /\ worker[w].pc = "renew"
    /\ RenewLease(Mine(w), w, LeaseTerm)
    /\ Goes(w, "claim")
    /\ UNCHANGED <<page, starter, faults>>

\* claim_next_candidate: the one under evaluation, or the next pending one, or
\* None, also when the run is not running any more.
Candidate(w) ==
    LET r == Mine(w)
        Takes(a) == worker' = [worker EXCEPT
            ![w].app = a, ![w].resumed = FALSE,
            ![w].pc = IF worker[w].resumed THEN "recovering" ELSE "load"]
    IN  /\ worker[w].pc = "claim"
        /\ \/ /\ CurrentLease(r, w, {"running"})
              /\ \E a \in Evaluating(r) : Takes(a)
              /\ UNCHANGED storeVars
           \/ /\ ClaimNextCandidate(r, w)
              /\ \E a \in Applications : candidates'[r][a] = "evaluating" /\ Takes(a)
           \/ /\ \/ runs[r].lifecycle # "running"
                 \/ CurrentLease(r, w, {"running"}) /\ Evaluating(r) = {}
                       /\ PendingOrdinals(r) = {}
              /\ Finishes(w, IF runs[r].truncated THEN "attempt_budget_exhausted"
                                                  ELSE "queue_exhausted")
              /\ UNCHANGED storeVars
        /\ UNCHANGED <<page, starter, faults>>

\* record_candidate_result and what its snapshot says to do next.  A run being
\* cancelled from the start (_finish_cancelling_run) ignores the stop.
Record(w) ==
    LET r == Mine(w)
        a == worker[w].app
        v == worker[w].verdict
    IN  /\ worker[w].pc = "record"
        /\ IF v.stop = "none" \/ ~worker[w].retry
             THEN /\ RecordCandidateResult(r, a, w, v.state)
                  /\ worker' = [worker EXCEPT ![w] =
                        IF runs[r].lifecycle = "cancelling" THEN ToFinish("cancelled", w)
                        ELSE IF runs'[r].completions >= runs[r].target
                               THEN ToFinish("target_met", w)
                               ELSE [AtRest EXCEPT !.pc = "loop", !.run = r]]
             ELSE /\ RecordResultAndStop(r, a, w, v.state, v.stop, "stopped")
                  /\ Rests(w)
        /\ UNCHANGED <<page, starter, faults>>

Finish(w) ==
    LET outcome == worker[w].verdict.stop
    IN  /\ worker[w].pc = "finish"
        /\ FinishRun(Mine(w), w, outcome,
                     IF outcome = "cancelled" THEN "cancelled" ELSE "stopped")
        /\ Rests(w)
        /\ UNCHANGED <<page, starter, faults>>

-----------------------------------------------------------------------------
(* GraphAnalysisCandidateEvaluator.recover                                 *)

\* The Application is loaded after the recorded responses are settled.
RecoverLoad(w) ==
    LET a == worker[w].app
        paid == UnreleasedCalls(Mine(w), a) # {}
    IN  /\ worker[w].pc = "recovering"
        /\ RecordedCalls(w) = {}
        /\ \/ CannotRead(w)
           \/ Complete(a) /\ Goes(w, "confirm")
           \/ ~Complete(a) /\ Concludes(w, "skipped", "none")  \* became ineligible
           \/ Partial(a) /\ Finalizes(w, IF paid THEN "analyzed" ELSE "repaired")
           \/ Blank(a) /\ Goes(w, "judge")
        /\ UNCHANGED <<storeVars, page, starter, faults>>

\* The committed Analysis was observed: the quarantine is lifted.
Confirm(w) ==
    LET a == worker[w].app
    IN  /\ worker[w].pc = "confirm"
        /\ ClearCommitQuarantine(a)
        /\ Concludes(w, IF UnreleasedCalls(Mine(w), a) = {} THEN "repaired" ELSE "analyzed",
                     "none")
        /\ UNCHANGED <<page, starter, faults>>

\* Mutant: what the calls bought is not looked at.
JudgeByQuarantineAlone(r, a, retry) ==
    IF a \in quarantine THEN [state |-> "indeterminate", stop |-> "none"] ELSE NoVerdict

\* What recover() makes of an Application without an Analysis: a verdict, or
\* NoVerdict when it may be evaluated afresh.
Judgement(r, a, retry) ==
    LET called == UnreleasedCalls(r, a)
        last == LastResult(r, a)
        Is(state, stop) == [state |-> state, stop |-> stop]
        settled == \A c \in called : calls[c].state = "settled"
        Some(result) == \E c \in called : calls[c].result = result
        sent == Cardinality(Transmitted(r, a))
    IN  CASE a \in quarantine -> Is("indeterminate", "none")
          [] OTHER ->
        CASE last = "authorization" -> Is("indeterminate", "authorization_blocked")
          [] last = "terminal" -> Is("indeterminate", "failed")
          [] last = "rejected" -> Is("failed", "failed")
          [] last = "source" -> Is("failed", "none")
          [] last = "received" -> Is("indeterminate", "none")
          [] OTHER ->
        CASE called = {} /\ retry -> NoVerdict
          [] called = {} /\ ~retry -> Is("skipped", "none")
          [] sent >= TransmissionLimit /\ last = "systemic" -> Is("indeterminate", "failed")
          [] OTHER ->
        CASE settled /\ Some("commit_unknown") -> Is("indeterminate", "none")
          [] settled /\ ~Some("commit_unknown") /\ ~retry -> Is("failed", "none")
          [] settled /\ ~Some("commit_unknown") /\ retry /\ Some("valid") ->
                Is("failed", "failed")
          [] settled /\ ~Some("commit_unknown") /\ retry /\ ~Some("valid") -> NoVerdict
          [] ~settled /\ retry /\ sent < TransmissionLimit -> NoVerdict
          [] OTHER -> Is("indeterminate", "none")

Judge(w) ==
    LET verdict == Judgement(Mine(w), worker[w].app, worker[w].retry)
    IN  /\ worker[w].pc = "judge"
        /\ IF verdict = NoVerdict THEN Goes(w, "load")
                                  ELSE Concludes(w, verdict.state, verdict.stop)
        /\ UNCHANGED <<storeVars, page, starter, faults>>

-----------------------------------------------------------------------------
(* The graph: load, call the model, validate                               *)

\* evaluate and _load_application: the page as it is read before the graph
\* acts on it.  The first of the two reads only adds another way to fail.
Load(w) ==
    LET a == worker[w].app
    IN  /\ worker[w].pc = "load"
        /\ \/ CannotRead(w)
           \/ Concludes(w, "skipped", "none")
           \/ Partial(a) /\ Finalizes(w, "repaired")
           \/ Blank(a) /\ CallsAgain(w, 0, 0, FALSE)
        /\ UNCHANGED <<storeVars, page, starter, faults>>

\* generate, up to the reservation: no approved price, or a store that refuses
\* (spend_authority_unavailable), as when the run is being cancelled; a source
\* beyond the context, or the budget of the Application used; the ceiling.
Reserve(w) ==
    LET r == Mine(w)
        a == worker[w].app
        used == Cardinality(Transmitted(r, a)) >= TransmissionLimit
    IN  /\ worker[w].pc = "reserve"
        /\ \/ /\ Concludes(w, "failed", "authorization_blocked") \/ FailsCandidate(w)
              /\ UNCHANGED storeVars
           \/ \E amount \in Reservations :
                 /\ ~used /\ CurrentLease(r, w, {"running"}) /\ ~Fits(r, amount)
                 /\ Concludes(w, "failed", "spend_limited")
                 /\ UNCHANGED storeVars
           \/ \E amount \in Reservations :
                 /\ \E c \in Calls : calls[c].state = "absent"
                 /\ ReserveProviderCall(FreshCall, r, a, w, amount)
                 /\ worker' = [worker EXCEPT ![w].pc = "dispatch", ![w].call = FreshCall]
        /\ UNCHANGED <<page, starter, faults>>

\* begin_provider_dispatch, the last local act before the request leaves; when
\* a cancellation request came first the reservation is given back.
Dispatch(w) ==
    LET c == worker[w].call
    IN  /\ worker[w].pc = "dispatch"
        /\ \/ BeginProviderDispatch(c, w) /\ Goes(w, "transmit")
           \/ /\ runs[Mine(w)].lifecycle = "cancelling"
              /\ ReleaseProviderCall(c, w)
              /\ FailsCandidate(w)
        /\ UNCHANGED <<page, starter, faults>>

\* The request did not leave (a connection error).
Unsent(w) ==
    /\ worker[w].pc = "transmit"
    /\ faults < MaxFaults
    /\ ReleaseProviderCall(worker[w].call, w)
    /\ CallsAgain(w, worker[w].tries, worker[w].unsent + 1, FailsRun(w))
    /\ faults' = faults + 1
    /\ UNCHANGED <<page, starter>>

\* The provider answers with an error, or never (_provider_error): the call's
\* fate is unknown.  Only the systemic errors are worth another call.
ProviderFails(w) ==
    /\ worker[w].pc = "transmit"
    /\ \/ /\ MarkIndeterminate(worker[w].call, w, "systemic")
          /\ CallsAgain(w, worker[w].tries + 1, worker[w].unsent, FailsRun(w))
       \/ /\ MarkIndeterminate(worker[w].call, w, "authorization")
          /\ Concludes(w, "failed", "authorization_blocked")
       \/ /\ MarkIndeterminate(worker[w].call, w, "terminal")
          /\ FailsRun(w)
    /\ UNCHANGED <<page, starter, faults>>

\* A draft to append; pending is the call its settlement waits for, if any.
Drafts(w, pending) ==
    worker' = [worker EXCEPT ![w].pc = "protect", ![w].stage = "append",
                             ![w].call = pending, ![w].result = "analyzed"]

DraftInvalid(w) ==
    CallsAgain(w, worker[w].tries + 1, worker[w].unsent, FailsCandidate(w))

\* A response without a usage receipt that can be charged.
Unmetered(w, c) ==
    /\ MarkIndeterminate(c, w, "received")
    /\ Drafts(w, "none") \/ DraftInvalid(w) \/ FailsRun(w)

Answer(w) ==
    /\ worker[w].pc = "transmit"
    /\ \/ Unmetered(w, worker[w].call)
       \/ RecordProviderCallResponse(worker[w].call, w, "received") /\ Goes(w, "answered")
    /\ UNCHANGED <<page, starter, faults>>

\* From the recorded response to the validated draft; the settlement of a
\* valid draft waits for the append (_pending_settlement).
Validate(w) ==
    LET c == worker[w].call
    IN  /\ worker[w].pc = "answered"
        /\ \/ Drafts(w, c) /\ UNCHANGED storeVars
           \/ SettleProviderCall(c, w, 1, "invalid") /\ DraftInvalid(w)
           \/ Unmetered(w, c)                         \* settlement not valid
           \/ SettleProviderCall(c, w, 1, "rejected") /\ FailsRun(w)
        /\ UNCHANGED <<page, starter, faults>>

-----------------------------------------------------------------------------
(* The lease-fenced commits to Notion                                      *)

Protect(w) ==
    /\ worker[w].pc = "protect"
    /\ RenewLease(Mine(w), w, Protection)
    /\ Goes(w, "guard")
    /\ UNCHANGED <<page, starter, faults>>

Guard(w) ==
    /\ worker[w].pc = "guard"
    /\ QuarantineCommitUnknown(Mine(w), worker[w].app, w)
    /\ Goes(w, worker[w].stage)
    /\ UNCHANGED <<page, starter, faults>>

\* Notion's answer to the append.
AppendAnswered(w) ==
    /\ worker[w].pc = "append"
    /\ \/ /\ page' = [page EXCEPT ![worker[w].app].bodies = @ + 1]
          /\ Goes(w, "appended")
       \/ Goes(w, "rejected") /\ UNCHANGED page
    /\ UNCHANGED <<storeVars, starter, faults>>

\* What may become of a mutation nobody waits for any longer: it was applied,
\* it never will be, or, for an append, it still can be.  The final properties
\* are the same whoever writes them, so their delay is of no consequence.
Abandoned(w) ==
    LET a == worker[w].app
    IN  CASE worker[w].pc = "append" ->
               \/ UNCHANGED page
               \/ page' = [page EXCEPT ![a].bodies = @ + 1]
               \/ page' = [page EXCEPT ![a].late = @ + 1]
          [] worker[w].pc = "finalize" ->
               UNCHANGED page \/ page' = [page EXCEPT ![a].analyzed = TRUE]
          [] OTHER -> UNCHANGED page

\* No definitive answer: WorkspaceCommitUnknownError ends the pass.  The
\* pending call is settled first, the lease is left to run out.
CommitUnknown(w) ==
    /\ worker[w].pc \in {"append", "finalize"}
    /\ faults < MaxFaults
    /\ IF worker[w].call = "none"
         THEN UNCHANGED storeVars
         ELSE SettleProviderCall(worker[w].call, w, 1, "commit_unknown")
    /\ Abandoned(w)
    /\ Rests(w)
    /\ faults' = faults + 1
    /\ UNCHANGED starter

\* The append is confirmed under a current lease, and only then lifts the
\* quarantine.
AppendConfirmed(w) ==
    /\ worker[w].pc = "appended"
    /\ CurrentLease(Mine(w), w, Leased)
    /\ ClearCommitQuarantine(worker[w].app)
    /\ Goes(w, "settle")
    /\ UNCHANGED <<page, starter, faults>>

\* Mutant: the appended body counts as the completion.
SettleValidConcludes(w) ==
    /\ worker[w].pc = "settle"
    /\ IF worker[w].call = "none"
         THEN UNCHANGED storeVars
         ELSE SettleProviderCall(worker[w].call, w, 1, "valid")
    /\ Concludes(w, "analyzed", "none")
    /\ UNCHANGED <<page, starter, faults>>

SettleValid(w) ==
    /\ worker[w].pc = "settle"
    /\ IF worker[w].call = "none"
         THEN UNCHANGED storeVars
         ELSE SettleProviderCall(worker[w].call, w, 1, "valid")
    /\ worker' = [worker EXCEPT ![w].pc = "protect", ![w].stage = "finalize",
                                ![w].call = "none"]
    /\ UNCHANGED <<page, starter, faults>>

\* A definitive rejection lifts the quarantine, whoever holds the lease now.
RejectedCleared(w) ==
    /\ worker[w].pc = "rejected"
    /\ ClearCommitQuarantine(worker[w].app)
    /\ IF worker[w].call = "none" THEN CannotRead(w) ELSE Goes(w, "unsettled")
    /\ UNCHANGED <<page, starter, faults>>

SettleRejected(w) ==
    LET c == worker[w].call
    IN  /\ worker[w].pc = "unsettled"
        /\ \/ SettleProviderCall(c, w, 1, "source") /\ FailsCandidate(w)
           \/ SettleProviderCall(c, w, 1, "rejected") /\ FailsRun(w)
        /\ UNCHANGED <<page, starter, faults>>

FinalizeAnswered(w) ==
    /\ worker[w].pc = "finalize"
    /\ \/ /\ page' = [page EXCEPT ![worker[w].app].analyzed = TRUE]
          /\ Goes(w, "finalized")
       \/ Goes(w, "rejected") /\ UNCHANGED page
    /\ UNCHANGED <<storeVars, starter, faults>>

FinalizeConfirmed(w) ==
    /\ worker[w].pc = "finalized"
    /\ CurrentLease(Mine(w), w, Leased)
    /\ ClearCommitQuarantine(worker[w].app)
    /\ Concludes(w, worker[w].result, "none")
    /\ UNCHANGED <<page, starter, faults>>

-----------------------------------------------------------------------------
(* Losing the lease, stopping, crashing                                    *)

Busy(w) == worker[w].pc # "idle"

Leads(w) == Busy(w) /\ CurrentLease(Mine(w), w, Leased)

\* The heartbeat or a write finds the lease gone: the evaluation is cancelled
\* where it stands.  Between a rejection and the lifting of the quarantine
\* there is nothing to interrupt.
LoseLease(w) ==
    /\ Busy(w)
    /\ ~Leads(w)
    /\ worker[w].pc # "rejected"
    /\ Abandoned(w)
    /\ Rests(w)
    /\ UNCHANGED <<storeVars, starter, faults>>

\* The process dies.
Crash(w) ==
    /\ Busy(w)
    /\ faults < MaxFaults
    /\ Abandoned(w)
    /\ Rests(w)
    /\ faults' = faults + 1
    /\ UNCHANGED <<storeVars, starter>>

\* AnalysisRunWorker.stop cancels the pass: a call under way becomes
\* indeterminate (provider_error), and a response that waits for its settlement
\* is settled by the graph's finally clause (response_processing_failed).
\* Elsewhere a stop leaves behind what a crash or an unknown commit leaves.
Stop(w) ==
    /\ worker[w].call # "none"
    /\ faults < MaxFaults
    /\ \/ worker[w].pc = "transmit" /\ MarkIndeterminate(worker[w].call, w, "terminal")
       \/ worker[w].pc \in {"answered", "protect"}
             /\ SettleProviderCall(worker[w].call, w, 1, "rejected")
    /\ Rests(w)
    /\ faults' = faults + 1
    /\ UNCHANGED <<page, starter>>

-----------------------------------------------------------------------------
(* AnalysisRunService.start, get_queue and cancel                          *)

\* start, up to its first await: no run is active.
StartRequest(s) ==
    /\ starter[s].pc = "idle"
    /\ Keys \ UsedKeys # {}
    /\ NoActiveRun
    /\ starter' = [starter EXCEPT ![s].pc = "reconcile", ![s].todo = quarantine]
    /\ UNCHANGED <<storeVars, worker, page, faults>>

\* _reconcile_commit_quarantines: the quarantine of an Application is lifted
\* when its Analysis is observed; one that cannot be read stays.
StartReconcile(s) ==
    /\ starter[s].pc = "reconcile"
    /\ \E a \in starter[s].todo :
          /\ IF Blank(a) THEN UNCHANGED storeVars
                         ELSE ClearCommitQuarantine(a) \/ UNCHANGED storeVars
          /\ starter' = [starter EXCEPT ![s].todo = @ \ {a}]
    /\ UNCHANGED <<worker, page, faults>>

\* list_commit_quarantines, before the snapshot of the queue is awaited.
StartList(s) ==
    /\ starter[s].pc = "reconcile"
    /\ starter[s].todo = {}
    /\ starter' = [starter EXCEPT ![s].pc = "snapshot", ![s].seen = quarantine]
    /\ UNCHANGED <<storeVars, worker, page, faults>>

\* Mutant: the Applications under quarantine are not left out.
EligibleWithQuarantined(s) == {a \in Applications : ~page[a].analyzed}

\* load_analysis_queue_snapshot without the Applications under quarantine.
Eligible(s) == {a \in Applications : ~page[a].analyzed} \ starter[s].seen

Lesser(x, y) == IF x <= y THEN x ELSE y

StartCreate(s) ==
    /\ starter[s].pc = "snapshot"
    /\ starter' = [starter EXCEPT ![s] = NoRequest]
    /\ \/ /\ \E r \in Runs : runs[r].lifecycle = "absent"
          /\ \E target \in Targets, queue \in Queues, key \in Keys \ UsedKeys :
                LET budget == AttemptsPerTarget * target
                    found == Cardinality(Eligible(s))
                IN  /\ Range(queue) \subseteq Eligible(s)
                    /\ Len(queue) = Lesser(found, budget)
                    /\ CreateRun(FreshRun, key, target, queue, found > budget)
       \/ ~NoActiveRun /\ UNCHANGED storeVars
    /\ UNCHANGED <<worker, page, faults>>

\* Mutant: the view lifts a quarantine without a look at the Application.
QueueViewBlindly(a) ==
    /\ a \in quarantine
    /\ ClearCommitQuarantine(a)
    /\ UNCHANGED serviceVars

\* ApplicationAnalysis.get_queue: the queue view reconciles as start does.
QueueView(a) ==
    /\ a \in quarantine
    /\ ~Blank(a)
    /\ ClearCommitQuarantine(a)
    /\ UNCHANGED serviceVars

\* AnalysisRunService.cancel
Cancel(r) == RequestCancellation(r) /\ UNCHANGED serviceVars

-----------------------------------------------------------------------------
(* Notion and the clock                                                    *)

\* An append nobody waits for takes effect after all, or never will.
LandLate(a) ==
    /\ page[a].late > 0
    /\ page' = [page EXCEPT ![a].late = @ - 1, ![a].bodies = @ + 1]
    /\ UNCHANGED <<storeVars, worker, starter, faults>>

LoseLate(a) ==
    /\ page[a].late > 0
    /\ page' = [page EXCEPT ![a].late = @ - 1]
    /\ UNCHANGED <<storeVars, worker, starter, faults>>

\* Time passes while nobody works under a current lease: heartbeats keep the
\* lease of a worker that runs.
FreeTick ==
    /\ \A w \in Workers : ~Leads(w)
    /\ Tick
    /\ UNCHANGED serviceVars

\* A worker stalls for as long as a unit of time, its heartbeat with it.
StallTick ==
    /\ \E w \in Workers : Leads(w)
    /\ faults < MaxFaults
    /\ Tick
    /\ faults' = faults + 1
    /\ UNCHANGED <<worker, page, starter>>

-----------------------------------------------------------------------------
(* The system                                                              *)

\* An Application that nobody analyzed, and one that was analyzed before.
BlankPage == [bodies |-> 0, analyzed |-> FALSE, late |-> 0]
AnalyzedPage == [bodies |-> 1, analyzed |-> TRUE, late |-> 0]

Init ==
    /\ StoreInit
    /\ worker = [w \in Workers |-> AtRest]
    /\ page \in [Applications -> {BlankPage, AnalyzedPage}]
    /\ starter = [s \in Starters |-> NoRequest]
    /\ faults = 0

RunnerStep(w) ==
    \/ Claim(w) \/ ReconcileCalls(w) \/ SettleRecorded(w) \/ EnterLoop(w)
    \/ Survey(w) \/ Renew(w) \/ Candidate(w) \/ Record(w) \/ Finish(w)
    \/ LoseLease(w)

EvaluatorStep(w) ==
    \/ RecoverLoad(w) \/ Confirm(w) \/ Judge(w)
    \/ Load(w) \/ Reserve(w) \/ Dispatch(w)
    \/ Unsent(w) \/ ProviderFails(w) \/ Answer(w) \/ Validate(w)
    \/ Protect(w) \/ Guard(w) \/ AppendAnswered(w) \/ AppendConfirmed(w)
    \/ SettleValid(w) \/ RejectedCleared(w) \/ SettleRejected(w)
    \/ FinalizeAnswered(w) \/ FinalizeConfirmed(w) \/ CommitUnknown(w)

WorkerStep(w) == RunnerStep(w) \/ EvaluatorStep(w)

StarterStep(s) == StartRequest(s) \/ StartReconcile(s) \/ StartList(s) \/ StartCreate(s)

Next ==
    \/ \E w \in Workers : WorkerStep(w) \/ Crash(w) \/ Stop(w)
    \/ \E s \in Starters : StarterStep(s)
    \/ \E r \in Runs : Cancel(r)
    \/ \E a \in Applications : QueueView(a) \/ LandLate(a) \/ LoseLate(a)
    \/ FreeTick
    \/ StallTick

Spec == Init /\ [][Next]_vars

\* The worker's task polls and runs as long as its process does, whatever it
\* waits for answers or times out, and time passes.  Nobody owes a request.
FairSpec ==
    /\ Spec
    /\ \A w \in Workers : WF_vars(WorkerStep(w))
    /\ WF_vars(FreeTick)

-----------------------------------------------------------------------------
(* What Analysis Runs promise                                              *)

Steps == {"idle", "interrupted", "recorded", "loop", "renew", "claim", "record", "finish",
          "recovering", "confirm", "judge", "load", "reserve", "dispatch", "transmit",
          "answered", "protect", "guard", "append", "appended", "settle", "rejected",
          "unsettled", "finalize", "finalized"}

\* The workers' locals, the pages and the requests keep their types.
RunsTypeOK ==
    /\ StoreTypeOK
    /\ worker \in [Workers ->
          [pc : Steps, run : Runs \cup {"none"}, app : Applications \cup {"none"},
           resumed : BOOLEAN, retry : BOOLEAN, stage : {"append", "finalize"},
           call : Calls \cup {"none"}, tries : Nat, unsent : Nat,
           result : {"none", "analyzed", "repaired"},
           verdict : [state : TerminalCandidateStates \cup {"none"},
                      stop : Outcomes \cup {"none"}]]]
    /\ page \in [Applications -> [bodies : Nat, analyzed : BOOLEAN, late : Nat]]
    /\ starter \in [Starters -> [pc : {"idle", "reconcile", "snapshot"},
                                 todo : SUBSET Applications, seen : SUBSET Applications]]
    /\ faults \in 0..MaxFaults

\* However runs, retries, crashes and late answers follow each other, no
\* Application is given a second Analysis body.
OneAnalysisBody == \A a \in Applications : page[a].bodies <= 1

\* As long as an append may still take effect its Application is under
\* quarantine: no later run evaluates it again.
OutstandingAppendIsQuarantined ==
    \A a \in Applications :
        \/ page[a].late > 0
        \/ \E w \in Workers : worker[w].pc = "append" /\ worker[w].app = a
        => a \in quarantine

\* A completion a run counts is one Notion shows: a body and final properties.
ResultsMatchNotion ==
    \A r \in Runs, a \in Applications :
        candidates[r][a] \in {"analyzed", "repaired"} => Complete(a)

\* A run never completes more Applications than its target.
TargetNotExceeded ==
    \A r \in Runs : runs[r].lifecycle # "absent" => runs[r].completions <= runs[r].target

\* A run that says target_met completed as many Applications as its target; one
\* that says it ran out of Applications gave each of its candidates a result,
\* and blames its budget exactly when the queue held more than it was given.
OutcomeIsEarned ==
    \A r \in Runs :
        /\ runs[r].outcome = "target_met" => runs[r].completions = runs[r].target
        /\ runs[r].outcome \in {"queue_exhausted", "attempt_budget_exhausted"} =>
              /\ \A a \in Range(runs[r].queue) : candidates[r][a] \in TerminalCandidateStates
              /\ runs[r].truncated <=> runs[r].outcome = "attempt_budget_exhausted"

\* The result codes of a call that bought a draft, or used one up.
Bought == {"valid", "commit_unknown", "source", "rejected"}

\* Once a run paid for a draft of an Application, by whichever worker, it
\* never buys another: after a crash the draft is recovered from Notion or
\* given up.
NoSecondPurchase ==
    \A c, d \in Calls :
        /\ calls[c].run = calls[d].run /\ calls[c].application = calls[d].application
        /\ 0 < calls[c].slot /\ calls[c].slot < calls[d].slot
        => /\ calls[c].result \notin Bought
           /\ calls[c].state = "settled" => calls[c].result # "received"

\* Every run that is created finishes, whatever crashes, stalls and answers
\* that never come its workers meet, once they stop.
EveryRunFinishes ==
    \A r \in Runs : runs[r].lifecycle = "queued" ~> runs[r].lifecycle = "finished"

=============================================================================
