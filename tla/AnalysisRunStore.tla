--------------------------- MODULE AnalysisRunStore ---------------------------
(***************************************************************************)
(* The Analysis Run Store: SqliteAnalysisRunStore of                       *)
(* features/applications/analysis_run_store.py.  Every write method of the *)
(* class is one BEGIN IMMEDIATE transaction, so every method is one        *)
(* action; a method that raises rolls back and is no step at all.  Any     *)
(* process may call any method: the callers (AnalysisRunService and its    *)
(* evaluator) are composed with this module in AnalysisRuns.               *)
(*                                                                         *)
(* Abstractions.  Timestamps are only ever compared with the clock, so     *)
(* lease_expires_at is kept as the time LEFT (0: NULL or passed) and the   *)
(* passage of time is Tick.  Money is a number; the request fingerprints,  *)
(* the rate card columns and the token counts of a call are left out.      *)
(***************************************************************************)
EXTENDS Integers, Sequences, FiniteSets, FiniteSetsExt, Functions

CONSTANTS
    Runs,           \* run identities
    Applications,   \* Application identities
    Workers,        \* lease owners
    Calls,          \* provider call identities
    Keys,           \* idempotency keys (their digests)
    Queues,         \* the candidate sequences a run may be created with
    Targets,        \* batch targets
    Reservations,   \* worst-case charges a call may ask for
    LeaseTerms,     \* lengths a lease may be asked for
    Results,        \* provider result codes
    Reasons,        \* run reason codes
    AskedResults,   \* candidate results the callers record
    AskedOutcomes,  \* outcomes the callers finish a run with
    Ceiling,        \* ANALYSIS_SPEND_CEILING_MICROS
    TransmissionLimit, \* provider transmissions per Application (3)
    NoOne           \* lease_owner IS NULL

VARIABLES
    runs,        \* analysis_runs
    candidates,  \* analysis_run_candidates: state by run and Application
    calls,       \* analysis_provider_calls
    quarantine   \* analysis_commit_quarantine

storeVars == <<runs, candidates, calls, quarantine>>

Lifecycles == {"queued", "running", "cancelling", "finished"}

Outcomes == {"target_met", "spend_limited", "attempt_budget_exhausted",
             "queue_exhausted", "cancelled", "authorization_blocked", "failed"}

TerminalCandidateStates ==
    {"analyzed", "repaired", "skipped", "failed", "indeterminate"}

CandidateStates == {"pending", "evaluating"} \cup TerminalCandidateStates

InFlightStates == {"dispatching", "sent", "response_recorded"}

ActiveCallStates == {"reserved"} \cup InFlightStates

CallStates == ActiveCallStates \cup {"settled", "released", "indeterminate"}

ASSUME StoreAssumption ==
    /\ NoOne \notin Workers
    /\ "absent" \notin Runs /\ "absent" \notin Applications /\ "absent" \notin Keys
    /\ IsFiniteSet(Applications)
    /\ Queues \subseteq Seq(Applications)
    /\ \A q \in Queues : IsInjective(q)
    /\ Targets \subseteq Nat \ {0}
    /\ Reservations \subseteq Nat \ {0}
    /\ LeaseTerms \subseteq Nat \ {0}
    /\ Ceiling \in Nat
    /\ TransmissionLimit \in Nat
    /\ "none" \notin Results
    /\ "none" \notin Reasons
    /\ "cancelled" \in Reasons
    /\ AskedResults \subseteq TerminalCandidateStates
    /\ AskedOutcomes \subseteq Outcomes

NoRun == [lifecycle |-> "absent", key |-> "absent", target |-> 0,
          queue |-> <<>>, truncated |-> FALSE, outcome |-> "none",
          reason |-> "none", owner |-> NoOne, lease |-> 0, completions |-> 0]

NoCall == [state |-> "absent", run |-> "absent", application |-> "absent",
           slot |-> 0, reservation |-> 0, cost |-> 0, result |-> "none"]

-----------------------------------------------------------------------------
(* Reading the tables                                                      *)

Unfinished(r) == runs[r].lifecycle \in {"queued", "running", "cancelling"}

\* active_call of finish_run and record_candidate_result
ActiveCalls(r) ==
    {c \in Calls : calls[c].run = r /\ calls[c].state \in ActiveCallStates}

InFlightCalls(r) ==
    {c \in Calls : calls[c].run = r /\ calls[c].state \in InFlightStates}

\* The calls of an Application that hold a transmission index.
Transmitted(r, a) ==
    {c \in Calls : calls[c].run = r /\ calls[c].application = a /\ calls[c].slot # 0}

\* Mutant: the index of a call that was interrupted is taken again.
FreeSlotsOfInterrupted(r, a) ==
    {i \in 1..TransmissionLimit :
        \A c \in Transmitted(r, a) : calls[c].state # "indeterminate" => calls[c].slot # i}

\* _next_transmission_index: the free indices, of which the least is taken.
FreeSlots(r, a) ==
    {i \in 1..TransmissionLimit : \A c \in Transmitted(r, a) : calls[c].slot # i}

LeastOf(S) == CHOOSE i \in S : \A j \in S : i <= j

LaterOf(x, y) == IF x >= y THEN x ELSE y

\* _spend_totals: what one call counts for in the committed spend.
Charge(call) ==
    CASE call.state = "settled" -> call.cost
      [] call.state \in ActiveCallStates \cup {"indeterminate"} -> call.reservation
      [] OTHER -> 0

Committed(r) ==
    MapThenSumSet(LAMBDA c : Charge(calls[c]), {c \in Calls : calls[c].run = r})

CompletionCount(states) ==
    Cardinality({a \in Applications : states[a] \in {"analyzed", "repaired"}})

\* Mutant: the owner is compared, the expiry is not.
CurrentLeaseIgnoringExpiry(r, w, allowed) ==
    /\ runs[r].lifecycle \in allowed
    /\ runs[r].owner = w

\* _assert_current_lease
CurrentLease(r, w, allowed) ==
    /\ runs[r].lifecycle \in allowed
    /\ runs[r].owner = w
    /\ runs[r].lease > 0

Leased == {"running", "cancelling"}

-----------------------------------------------------------------------------
(* Runs, leases and candidates                                             *)

\* Mutant: the unique index on unfinished runs is missing.
ActiveRunIgnored == TRUE

\* one_active_analysis_run
NoActiveRun == \A q \in Runs : ~Unfinished(q)

\* create_run.  A key already used is answered from its row or refused: no
\* write in either case.  The unique index admits one unfinished run.
CreateRun(r, key, target, queue, truncated) ==
    /\ \A q \in Runs : runs[q].key # key
    /\ NoActiveRun
    /\ runs[r].lifecycle = "absent"
    /\ runs' = [runs EXCEPT ![r] =
                  [NoRun EXCEPT !.lifecycle = "queued", !.key = key,
                                !.target = target, !.queue = queue,
                                !.truncated = truncated]]
    /\ candidates' = [candidates EXCEPT ![r] =
                  [a \in Applications |->
                      IF a \in Range(queue) THEN "pending" ELSE "absent"]]
    /\ UNCHANGED <<calls, quarantine>>

\* Mutant: a run whose worker is gone is not claimed again.
QueuedOnly(r) == runs[r].lifecycle = "queued"

\* The WHERE clause of claim_recoverable_run and list_recoverable_runs.
Recoverable(r) ==
    \/ runs[r].lifecycle = "queued"
    \/ Unfinished(r) /\ runs[r].lease = 0

\* claim_recoverable_run
ClaimRecoverableRun(r, w, term) ==
    /\ Recoverable(r)
    /\ runs' = [runs EXCEPT
          ![r].lifecycle = IF @ = "queued" THEN "running" ELSE @,
          ![r].owner = w,
          ![r].lease = LaterOf(@, term)]
    /\ UNCHANGED <<candidates, calls, quarantine>>

\* start_run: unlike renew_lease it sets the expiry as asked, shorter or not.
StartRun(r, w, term) ==
    /\ runs[r].lifecycle \in {"queued", "running"}
    /\ ~ /\ runs[r].lifecycle = "running"
         /\ runs[r].owner \notin {NoOne, w}
         /\ runs[r].lease > 0
    /\ runs' = [runs EXCEPT ![r].lifecycle = "running",
                            ![r].owner = w, ![r].lease = term]
    /\ UNCHANGED <<candidates, calls, quarantine>>

\* renew_lease; protect_remote_commit is renew_lease with its minimum duration.
RenewLease(r, w, term) ==
    /\ CurrentLease(r, w, Leased)
    /\ runs' = [runs EXCEPT ![r].lease = LaterOf(@, term)]
    /\ UNCHANGED <<candidates, calls, quarantine>>

\* relinquish_lease: also on a queued run, and without looking at the expiry.
RelinquishLease(r, w) ==
    /\ Unfinished(r)
    /\ runs[r].owner \in {NoOne, w}
    /\ runs' = [runs EXCEPT ![r].owner = NoOne, ![r].lease = 0]
    /\ UNCHANGED <<candidates, calls, quarantine>>

Evaluating(r) == {a \in Applications : candidates[r][a] = "evaluating"}

\* Mutant: ordinals taken from one where they start at zero.
PendingOrdinalsFromOne(r) ==
    {i \in DOMAIN runs[r].queue \ {1} : candidates[r][runs[r].queue[i]] = "pending"}

\* Ordinals of the candidates still pending.
PendingOrdinals(r) ==
    {i \in DOMAIN runs[r].queue : candidates[r][runs[r].queue[i]] = "pending"}

\* Mutant: the candidate under evaluation is not looked for first.
ClaimCandidatePendingFirst(r, w) ==
    /\ CurrentLease(r, w, {"running"})
    /\ PendingOrdinals(r) # {}
    /\ candidates' = [candidates EXCEPT
          ![r][runs[r].queue[LeastOf(PendingOrdinals(r))]] = "evaluating"]
    /\ UNCHANGED <<runs, calls, quarantine>>

\* claim_next_candidate when it writes: no candidate is under evaluation (one
\* that is would be returned as it stands) and one is pending.
ClaimNextCandidate(r, w) ==
    /\ CurrentLease(r, w, {"running"})
    /\ Evaluating(r) = {}
    /\ PendingOrdinals(r) # {}
    /\ candidates' = [candidates EXCEPT
          ![r][runs[r].queue[LeastOf(PendingOrdinals(r))]] = "evaluating"]
    /\ UNCHANGED <<runs, calls, quarantine>>

\* Mutant: a cancellation request revives a finished run.
CancelFinishedToo(r) ==
    /\ runs[r].lifecycle \in {"queued", "running", "finished"}
    /\ runs' = [runs EXCEPT ![r].lifecycle = "cancelling"]
    /\ UNCHANGED <<candidates, calls, quarantine>>

\* request_cancellation: from an HTTP request, so no lease is asked for.
RequestCancellation(r) ==
    /\ runs[r].lifecycle \in {"queued", "running"}
    /\ runs' = [runs EXCEPT ![r].lifecycle = "cancelling"]
    /\ UNCHANGED <<candidates, calls, quarantine>>

\* record_run_reason
RecordRunReason(r, w, reason) ==
    /\ CurrentLease(r, w, Leased)
    /\ runs[r].reason = "none"
    /\ runs' = [runs EXCEPT ![r].reason = reason]
    /\ UNCHANGED <<candidates, calls, quarantine>>

\* Mutant: the lifecycle's value is stored where the outcome belongs.
OutcomeFromLifecycle(r, outcome) ==
    IF runs[r].lifecycle = "cancelling" THEN runs[r].lifecycle ELSE outcome

\* A run being cancelled finishes as cancelled whatever its worker asks for.
EffectiveOutcome(r, outcome) ==
    IF runs[r].lifecycle = "cancelling" THEN "cancelled" ELSE outcome

\* Mutant: the row keeps the progress it had.
ProgressNotRefreshed(row, states) == row

\* _refresh_progress, of whose counts only completion_count steers a run.
RefreshedProgress(row, states) == [row EXCEPT !.completions = CompletionCount(states)]

Finished(row, outcome, reason) ==
    [row EXCEPT !.lifecycle = "finished", !.outcome = outcome, !.reason = reason,
                !.owner = NoOne, !.lease = 0]

\* Mutant: a late result replaces the one on record.
RecordResultAgain(r, a, w, state) ==
    /\ CurrentLease(r, w, Leased)
    /\ candidates[r][a] # "absent"
    /\ candidates' = [candidates EXCEPT ![r][a] = state]
    /\ runs' = [runs EXCEPT ![r] = RefreshedProgress(@, candidates'[r])]
    /\ UNCHANGED <<calls, quarantine>>

\* record_candidate_result without a stop: the result of a candidate that has
\* none; a repeated identical result writes nothing.
RecordCandidateResult(r, a, w, state) ==
    /\ CurrentLease(r, w, Leased)
    /\ candidates[r][a] \in {"pending", "evaluating"}
    /\ candidates' = [candidates EXCEPT ![r][a] = state]
    /\ runs' = [runs EXCEPT ![r] = RefreshedProgress(@, candidates'[r])]
    /\ UNCHANGED <<calls, quarantine>>

\* record_candidate_result with a stop: the result and the end of the run in
\* one transaction, for a candidate with no result or with this one.  The
\* run's reason is replaced without the check finish_run makes.
RecordResultAndStop(r, a, w, state, outcome, reason) ==
    /\ CurrentLease(r, w, Leased)
    /\ candidates[r][a] \in {"pending", "evaluating", state}
    /\ ActiveCalls(r) = {}
    /\ candidates' = [candidates EXCEPT ![r][a] = state]
    /\ runs' = [runs EXCEPT ![r] =
          Finished(RefreshedProgress(@, candidates'[r]),
                   EffectiveOutcome(r, outcome),
                   IF @.lifecycle = "cancelling" THEN "cancelled" ELSE reason)]
    /\ UNCHANGED <<calls, quarantine>>

\* Mutant: the run ends over a call that is still being decided.
FinishWithActiveCall(r, w, outcome, reason) ==
    /\ CurrentLease(r, w, Leased)
    /\ runs' = [runs EXCEPT ![r] = Finished(@, EffectiveOutcome(r, outcome), reason)]
    /\ UNCHANGED <<candidates, calls, quarantine>>

\* finish_run on a run that is not finished; on one that is it only compares.
\* operator_cancelled, the other reason a cancelling run accepts, stands with
\* cancelled.
FinishRun(r, w, outcome, reason) ==
    LET cancelling == runs[r].lifecycle = "cancelling"
        asked == IF cancelling THEN "cancelled" ELSE reason
    IN  /\ CurrentLease(r, w, Leased)
        /\ asked = "none" \/ runs[r].reason \in {"none", asked}
        /\ ActiveCalls(r) = {}
        /\ runs' = [runs EXCEPT ![r] =
              Finished(@, EffectiveOutcome(r, outcome),
                       IF asked = "none" THEN @.reason ELSE asked)]
        /\ UNCHANGED <<candidates, calls, quarantine>>

-----------------------------------------------------------------------------
(* Provider calls                                                          *)

\* Mutant: the reservation is compared with the ceiling on its own.
FitsAlone(r, amount) == amount <= Ceiling

\* The ceiling test of reserve_provider_call.
Fits(r, amount) == Committed(r) + amount <= Ceiling

\* reserve_provider_call.  Any candidate of the run will do; whether it is
\* under evaluation is looked at when dispatch begins.
ReserveProviderCall(c, r, a, w, amount) ==
    /\ calls[c].state = "absent"
    /\ CurrentLease(r, w, {"running"})
    /\ candidates[r][a] # "absent"
    /\ Cardinality(Transmitted(r, a)) < TransmissionLimit
    /\ Fits(r, amount)
    /\ calls' = [calls EXCEPT ![c] =
          [NoCall EXCEPT !.state = "reserved", !.run = r,
                         !.application = a, !.reservation = amount]]
    /\ UNCHANGED <<runs, candidates, quarantine>>

\* Mutant: no look at the other calls of the run.
DispatchBlindly(r, c) == TRUE

\* The in_flight query of begin_provider_dispatch, with the unique index
\* one_analysis_call_in_flight behind it.
NothingElseInFlight(r, c) == InFlightCalls(r) \subseteq {c}

\* Mutant: a run that is being cancelled may still transmit.
DispatchLifecyclesWithCancelling == Leased

DispatchLifecycles == {"running"}

\* The index begin_provider_dispatch takes.
NextSlot(r, a) == LeastOf(FreeSlots(r, a))

\* begin_provider_dispatch (and transition_provider_call to DISPATCHING)
BeginProviderDispatch(c, w) ==
    LET r == calls[c].run
        a == calls[c].application
    IN  /\ calls[c].state = "reserved"
        /\ CurrentLease(r, w, DispatchLifecycles)
        /\ candidates[r][a] = "evaluating"
        /\ NothingElseInFlight(r, c)
        /\ FreeSlots(r, a) # {}
        /\ calls' = [calls EXCEPT ![c].state = "dispatching",
                                  ![c].slot = NextSlot(r, a)]
        /\ UNCHANGED <<runs, candidates, quarantine>>

\* release_provider_call (and transition_provider_call to RELEASED): the
\* caller vouches that nothing was transmitted.
ReleaseProviderCall(c, w) ==
    /\ calls[c].state \in {"reserved", "dispatching"}
    /\ CurrentLease(calls[c].run, w, Leased)
    /\ calls' = [calls EXCEPT ![c].state = "released", ![c].slot = 0]
    /\ UNCHANGED <<runs, candidates, quarantine>>

\* transition_provider_call to SENT
MarkSent(c, w) ==
    /\ calls[c].state = "dispatching"
    /\ CurrentLease(calls[c].run, w, Leased)
    /\ calls' = [calls EXCEPT ![c].state = "sent"]
    /\ UNCHANGED <<runs, candidates, quarantine>>

\* record_provider_call_response
RecordProviderCallResponse(c, w, result) ==
    /\ calls[c].state \in {"dispatching", "sent"}
    /\ CurrentLease(calls[c].run, w, Leased)
    /\ calls' = [calls EXCEPT ![c].state = "response_recorded", ![c].result = result]
    /\ UNCHANGED <<runs, candidates, quarantine>>

\* Mutant: the settled cost is not held against the reservation.
SettleableUnbounded(c) == 0..(calls[c].reservation + 1)

\* Verified cost cannot exceed the durable reservation.
Settleable(c) == 0..calls[c].reservation

\* settle_provider_call (transition_provider_call to SETTLED)
SettleProviderCall(c, w, cost, result) ==
    /\ calls[c].state = "response_recorded"
    /\ CurrentLease(calls[c].run, w, Leased)
    /\ cost \in Settleable(c)
    /\ calls' = [calls EXCEPT ![c].state = "settled", ![c].cost = cost,
                              ![c].result = IF result = "none" THEN @ ELSE result]
    /\ UNCHANGED <<runs, candidates, quarantine>>

\* transition_provider_call to INDETERMINATE
MarkIndeterminate(c, w, result) ==
    /\ calls[c].state \in InFlightStates
    /\ CurrentLease(calls[c].run, w, Leased)
    /\ calls' = [calls EXCEPT ![c].state = "indeterminate",
                              ![c].result = IF result = "none" THEN @ ELSE result]
    /\ UNCHANGED <<runs, candidates, quarantine>>

Interrupted(call) ==
    CASE call.state = "reserved" -> [call EXCEPT !.state = "released", !.slot = 0]
      [] call.state \in {"dispatching", "sent"} -> [call EXCEPT !.state = "indeterminate"]
      [] OTHER -> call

\* reconcile_interrupted_provider_calls
ReconcileInterruptedCalls(r, w) ==
    /\ CurrentLease(r, w, Leased)
    /\ calls' = [c \in Calls |-> IF calls[c].run = r THEN Interrupted(calls[c])
                                                     ELSE calls[c]]
    /\ UNCHANGED <<runs, candidates, quarantine>>

-----------------------------------------------------------------------------
(* The commit quarantine                                                   *)

\* quarantine_commit_unknown: ON CONFLICT DO NOTHING
QuarantineCommitUnknown(r, a, w) ==
    /\ CurrentLease(r, w, Leased)
    /\ candidates[r][a] # "absent"
    /\ quarantine' = quarantine \cup {a}
    /\ UNCHANGED <<runs, candidates, calls>>

\* clear_commit_quarantine: no lease is asked for.
ClearCommitQuarantine(a) ==
    /\ quarantine' = quarantine \ {a}
    /\ UNCHANGED <<runs, candidates, calls>>

\* The clock moves on by one unit.
Tick ==
    /\ \E r \in Runs : runs[r].lease > 0
    /\ runs' = [r \in Runs |-> [runs[r] EXCEPT !.lease = IF @ > 0 THEN @ - 1 ELSE 0]]
    /\ UNCHANGED <<candidates, calls, quarantine>>

-----------------------------------------------------------------------------
(* The store under any callers                                             *)

StoreInit ==
    /\ runs = [r \in Runs |-> NoRun]
    /\ candidates = [r \in Runs |-> [a \in Applications |-> "absent"]]
    /\ calls = [c \in Calls |-> NoCall]
    /\ quarantine = {}

RunStep(r, w) ==
    \/ \E term \in LeaseTerms :
          \/ ClaimRecoverableRun(r, w, term)
          \/ StartRun(r, w, term)
          \/ RenewLease(r, w, term)
    \/ RelinquishLease(r, w)
    \/ ClaimNextCandidate(r, w)
    \/ \E reason \in Reasons : RecordRunReason(r, w, reason)
    \/ \E outcome \in AskedOutcomes, reason \in Reasons \cup {"none"} :
          FinishRun(r, w, outcome, reason)
    \/ ReconcileInterruptedCalls(r, w)

CandidateStep(r, a, w) ==
    \/ \E state \in AskedResults :
          \/ RecordCandidateResult(r, a, w, state)
          \/ \E outcome \in AskedOutcomes, reason \in Reasons :
                RecordResultAndStop(r, a, w, state, outcome, reason)
    \/ \E c \in Calls, amount \in Reservations : ReserveProviderCall(c, r, a, w, amount)
    \/ QuarantineCommitUnknown(r, a, w)

CallStep(c, w) ==
    \/ BeginProviderDispatch(c, w)
    \/ ReleaseProviderCall(c, w)
    \/ MarkSent(c, w)
    \/ \E result \in Results : RecordProviderCallResponse(c, w, result)
    \/ \E result \in Results \cup {"none"} :
          \/ \E cost \in 0..Ceiling : SettleProviderCall(c, w, cost, result)
          \/ MarkIndeterminate(c, w, result)

StoreNext ==
    \/ \E r \in Runs, key \in Keys, target \in Targets, queue \in Queues,
          truncated \in BOOLEAN : CreateRun(r, key, target, queue, truncated)
    \/ \E r \in Runs : RequestCancellation(r)
    \/ \E r \in Runs, w \in Workers : RunStep(r, w)
    \/ \E r \in Runs, a \in Applications, w \in Workers : CandidateStep(r, a, w)
    \/ \E c \in Calls, w \in Workers : CallStep(c, w)
    \/ \E a \in Applications : ClearCommitQuarantine(a)
    \/ Tick

StoreSpec == StoreInit /\ [][StoreNext]_storeVars

-----------------------------------------------------------------------------
(* What the store promises its callers                                     *)

RunRows ==
    [lifecycle : Lifecycles \cup {"absent"}, key : Keys \cup {"absent"},
     target : Targets \cup {0}, queue : Queues \cup {<<>>}, truncated : BOOLEAN,
     outcome : Outcomes \cup {"none"}, reason : Reasons \cup {"none"},
     owner : Workers \cup {NoOne}, lease : Nat, completions : Nat]

CallRows ==
    [state : CallStates \cup {"absent"}, run : Runs \cup {"absent"},
     application : Applications \cup {"absent"}, slot : 0..TransmissionLimit,
     reservation : Reservations \cup {0}, cost : Nat, result : Results \cup {"none"}]

\* Every table holds rows its CHECK constraints admit.
StoreTypeOK ==
    /\ runs \in [Runs -> RunRows]
    /\ candidates \in [Runs -> [Applications -> CandidateStates \cup {"absent"}]]
    /\ calls \in [Calls -> CallRows]
    /\ quarantine \subseteq Applications

\* At any time at most one run is not finished (one_active_analysis_run).
OneActiveRun ==
    \A q, r \in Runs : Unfinished(q) /\ Unfinished(r) => q = r

\* However workers take over from each other, a run evaluates one candidate
\* at a time (one_evaluating_candidate_per_run).
OneCandidateEvaluated ==
    \A r \in Runs : \A a, b \in Evaluating(r) : a = b

\* A run never has two provider calls out at once (one_analysis_call_in_flight).
OneCallInFlight ==
    \A r \in Runs : \A c, d \in InFlightCalls(r) : c = d

\* The transmissions of an Application in a run hold distinct indices, so
\* there are at most TransmissionLimit of them, interrupted ones included
\* (unique_analysis_transmission_slot).
TransmissionsNumbered ==
    \A c, d \in Calls :
        /\ calls[c].slot # 0
        /\ calls[c].slot = calls[d].slot
        /\ calls[c].run = calls[d].run
        /\ calls[c].application = calls[d].application
        => c = d

\* The spend a run is committed to, verified costs and the reservations of
\* calls that are out or whose cost is unknown, never passes the ceiling.
SpendWithinCeiling == \A r \in Runs : Committed(r) <= Ceiling

\* A finished run holds no lease and no undecided call: nothing that happens
\* later can still change what it has cost.
FinishedRunIsQuiet ==
    \A r \in Runs : runs[r].lifecycle = "finished" =>
        /\ runs[r].outcome # "none"
        /\ runs[r].owner = NoOne /\ runs[r].lease = 0
        /\ ActiveCalls(r) = {}

\* completion_count is the number of analyzed and repaired candidates.
ProgressIsCounted ==
    \A r \in Runs : runs[r].completions = CompletionCount(candidates[r])

\* Nothing changes a finished run, its candidates or its calls.
FinishedIsFinal ==
    [][\A r \in Runs : runs[r].lifecycle = "finished" =>
          /\ runs'[r] = runs[r]
          /\ candidates'[r] = candidates[r]
          /\ \A c \in Calls : calls[c].run = r => calls'[c] = calls[c]]_storeVars

\* A candidate's result is never replaced.
ResultsAreFinal ==
    [][\A r \in Runs, a \in Applications :
          candidates[r][a] \in TerminalCandidateStates =>
              candidates'[r][a] = candidates[r][a]]_storeVars

\* After a cancellation request a run can only end as cancelled, and none of
\* its calls begins to be dispatched.
CancellationWins ==
    [][\A r \in Runs : runs[r].lifecycle = "cancelling" =>
          /\ \/ runs'[r].lifecycle = "cancelling"
             \/ runs'[r].lifecycle = "finished" /\ runs'[r].outcome = "cancelled"
          /\ InFlightCalls(r)' \subseteq InFlightCalls(r)]_storeVars

\* While no lease is current the candidates and the calls of an existing run
\* stand still: a worker that slept past its lease cannot write, whoever
\* claims the run next.
FencedByLease ==
    [][\A r \in Runs : runs[r].lease = 0 /\ runs[r].lifecycle # "absent" =>
          /\ candidates'[r] = candidates[r]
          /\ \A c \in Calls : calls[c].run = r => calls'[c] = calls[c]]_storeVars

-----------------------------------------------------------------------------
(* The spend ledger the calls table implements                             *)

Ledger == INSTANCE SpendLedger WITH
    Accounts <- Runs, Holds <- Calls, NoAccount <- "absent",
    account <- [c \in Calls |-> calls[c].run],
    charge <- [c \in Calls |-> Charge(calls[c])],
    open <- {c \in Calls : calls[c].state \in ActiveCallStates}

\* The calls table keeps a spend ledger.
KeepsSpendLedger == Ledger!LedgerSpec

=============================================================================
