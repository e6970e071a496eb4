---------------------------- MODULE ResumeRunStore ----------------------------
(***************************************************************************)
(* The Resume Run Store: ResumeRunStore of features/resumes/run_store.py.  *)
(* As in the Analysis Run Store a write method is one BEGIN IMMEDIATE      *)
(* transaction and so one action, and a method that raises is no step.     *)
(* Unlike there no write asks for a lease, and the spend of a run is kept  *)
(* in three counters beside the calls instead of being summed from them.   *)
(*                                                                         *)
(* Abstractions.  A call is named by the columns of its UNIQUE constraint, *)
(* a candidate by its Application.  A candidate has at most one Artifact   *)
(* Set (see StartArtifactSet), so the set is a field of it.  Checkpoints   *)
(* are present or not; their contents appear only as the version of the    *)
(* Application a candidate_source proves.                                  *)
(***************************************************************************)
EXTENDS Integers, Sequences, FiniteSets, FiniteSetsExt, Functions

CONSTANTS
    Runs,           \* run identities
    Applications,   \* Application identities
    Keys,           \* idempotency keys
    Stages,         \* the provider stages of one candidate, in order
    Queues,         \* the candidate sequences a run may be created with
    Targets,        \* batch targets
    Reservations,   \* worst-case charges a call may ask for
    Versions,       \* versions of an Application a source proof may name
    NoProof,        \* a candidate that has not been admitted
    Ceiling,        \* RESUME_SPEND_CEILING_MICROS
    DispatchLimit   \* dispatches per stage (2)

VARIABLES
    runs,           \* resume_runs
    candidates,     \* resume_candidates with their checkpoints and Artifact Set
    calls           \* resume_calls

storeVars == <<runs, candidates, calls>>

Lifecycles == {"queued", "running", "cancelling", "finished"}

Outcomes == {"target_met", "queue_exhausted", "attempt_budget_exhausted", "cancelled"}

OpenCandidateStates == {"pending", "evaluating", "recovering"}

TerminalCandidateStates == {"completed", "failed", "cancelled"}

OpenCallStates == {"reserved", "dispatching"}

CallStates == OpenCallStates \cup {"settled", "not_transmitted", "indeterminate"}

CallIds == Runs \X Applications \X Range(Stages) \X (1..DispatchLimit)

ASSUME ResumeStoreAssumption ==
    /\ "absent" \notin Runs /\ "absent" \notin Keys
    /\ IsFiniteSet(Runs) /\ IsFiniteSet(Applications)
    /\ Stages \in Seq(Range(Stages)) /\ IsInjective(Stages)
    /\ Queues \subseteq Seq(Applications)
    /\ \A q \in Queues : IsInjective(q)
    /\ Targets \subseteq Nat \ {0}
    /\ Reservations \subseteq Nat \ {0}
    /\ NoProof \notin Versions
    /\ Ceiling \in Nat
    /\ DispatchLimit \in Nat

NoRun == [lifecycle |-> "absent", key |-> "absent", target |-> 0, queue |-> <<>>,
          exhausted |-> FALSE, outcome |-> "none", reason |-> "none",
          verified |-> 0, active |-> 0, indeterminate |-> 0]

NoCandidate == [state |-> "absent", reason |-> "none", proof |-> NoProof, set |-> "none"]

NoCall == [state |-> "absent", reservation |-> 0, cost |-> 0]

-----------------------------------------------------------------------------
(* Reading the tables                                                      *)

Unfinished(r) == runs[r].lifecycle \in {"queued", "running", "cancelling"}

\* The test with which admission, artifact work and reservation begin.
Proceeding(r) == runs[r].lifecycle = "running" /\ runs[r].outcome = "none"

Completed(states) == {a \in Applications : states[a].state = "completed"}

\* Committed Spend, as reserve_call and the snapshot add it up.
Committed(r) == runs[r].verified + runs[r].active + runs[r].indeterminate

\* next_call_attempt: one more than the calls on record for the stage.
NextAttempt(r, a, s) ==
    1 + Cardinality({n \in 1..DispatchLimit : calls[<<r, a, s, n>>].state # "absent"})

-----------------------------------------------------------------------------
(* Runs                                                                    *)

\* start: a key on record is answered from its row; the one active run
\* excludes another.
StartRun(r, key, target, queue, exhausted) ==
    /\ \A q \in Runs : runs[q].key # key /\ ~Unfinished(q)
    /\ runs[r].lifecycle = "absent"
    /\ runs' = [runs EXCEPT ![r] =
          [NoRun EXCEPT !.lifecycle = "queued", !.key = key, !.target = target,
                        !.queue = queue, !.exhausted = exhausted]]
    /\ candidates' = [candidates EXCEPT ![r] =
          [a \in Applications |->
              [NoCandidate EXCEPT !.state = IF a \in Range(queue) THEN "pending" ELSE @]]]
    /\ calls' = calls

\* begin
Begin(r) ==
    /\ runs' = [runs EXCEPT ![r].lifecycle = IF @ = "queued" THEN "running" ELSE @]
    /\ UNCHANGED <<candidates, calls>>

\* finish looks at the outcome only: without one the run ends by what its
\* queue held, whatever became of its candidates.
Finish(r) ==
    LET ended == IF runs[r].exhausted THEN "queue_exhausted" ELSE "attempt_budget_exhausted"
    IN  /\ runs' = [runs EXCEPT
              ![r].lifecycle = "finished",
              ![r].outcome = IF @ = "none" THEN ended ELSE @,
              ![r].reason = IF runs[r].outcome = "none" THEN ended ELSE @]
        /\ UNCHANGED <<candidates, calls>>

\* Mutant: a request to cancel is recorded on a finished run too.
CancelFinishedToo(r) ==
    /\ runs[r].lifecycle # "absent"
    /\ runs' = [runs EXCEPT
          ![r].lifecycle = "cancelling",
          ![r].outcome = IF @ = "none" THEN "cancelled" ELSE @,
          ![r].reason = IF @ = "none" THEN "operator_cancelled" ELSE @]
    /\ UNCHANGED <<candidates, calls>>

\* cancel: an outcome decided before stands, for now (see FinishCancellation).
Cancel(r) ==
    /\ Unfinished(r)
    /\ runs' = [runs EXCEPT
          ![r].lifecycle = "cancelling",
          ![r].outcome = IF @ = "none" THEN "cancelled" ELSE @,
          ![r].reason = IF @ = "none" THEN "operator_cancelled" ELSE @]
    /\ UNCHANGED <<candidates, calls>>

\* finish_cancellation
FinishCancellation(r) ==
    /\ candidates' = [candidates EXCEPT ![r] = [a \in Applications |->
          IF @[a].state \in OpenCandidateStates
          THEN [@[a] EXCEPT !.state = "cancelled", !.reason = "operator_cancelled"]
          ELSE @[a]]]
    /\ runs' = IF runs[r].lifecycle = "cancelling"
               THEN [runs EXCEPT
                       ![r].lifecycle = "finished",
                       ![r].outcome = "cancelled",
                       ![r].reason = IF @ = "none" THEN "operator_cancelled" ELSE @]
               ELSE runs
    /\ calls' = calls

-----------------------------------------------------------------------------
(* Candidates                                                              *)

\* begin_candidate when it returns True
BeginCandidate(r, a) ==
    /\ Proceeding(r)
    /\ candidates[r][a].state = "pending"
    /\ candidates' = [candidates EXCEPT ![r][a].state = "evaluating"]
    /\ UNCHANGED <<runs, calls>>

\* admit_candidate when it returns True: the state and the protected source
\* in one transaction.
AdmitCandidate(r, a, version) ==
    /\ Proceeding(r)
    /\ candidates[r][a].state = "pending"
    /\ candidates' = [candidates EXCEPT ![r][a].state = "evaluating",
                                        ![r][a].proof = version]
    /\ UNCHANGED <<runs, calls>>

\* start_artifact_set.  UNIQUE(run_id, kind, candidate_ordinal) admits one
\* artifact checkpoint, which only completion deletes: a candidate gets one
\* set, and a second call for it raises.
StartArtifactSet(r, a) ==
    /\ candidates[r][a].state = "evaluating"
    /\ Proceeding(r)
    /\ candidates[r][a].set = "none"
    /\ candidates' = [candidates EXCEPT ![r][a].set = "recoverable"]
    /\ UNCHANGED <<runs, calls>>

TargetReached(r, states) ==
    Cardinality(Completed(states)) >= runs[r].target /\ runs[r].outcome = "none"

\* complete_candidate: the candidate, its sealed set and the decision that
\* the target is met, in one transaction.
CompleteCandidate(r, a) ==
    /\ candidates[r][a].set # "none"
    /\ candidates' = [candidates EXCEPT
          ![r][a].state = "completed", ![r][a].reason = "none", ![r][a].set = "sealed"]
    /\ runs' = IF TargetReached(r, candidates'[r])
               THEN [runs EXCEPT ![r].outcome = "target_met", ![r].reason = "target_met"]
               ELSE runs
    /\ calls' = calls

\* fail_candidate: whatever state the candidate is in.
FailCandidate(r, a, reason) ==
    /\ candidates' = [candidates EXCEPT ![r][a].state = "failed", ![r][a].reason = reason]
    /\ UNCHANGED <<runs, calls>>

-----------------------------------------------------------------------------
(* Provider calls                                                          *)

\* Mutant: a call of unknown cost no longer counts against the ceiling.
FitsWithoutIndeterminate(r, amount) ==
    runs[r].verified + runs[r].active + amount <= Ceiling

Fits(r, amount) == Committed(r) + amount <= Ceiling

\* reserve_call for the attempt next_call_attempt has found.
ReserveCall(r, a, s, amount) ==
    LET n == NextAttempt(r, a, s)
    IN  /\ Proceeding(r)
        /\ n <= DispatchLimit
        /\ Fits(r, amount)
        /\ calls' = [calls EXCEPT ![<<r, a, s, n>>] =
              [NoCall EXCEPT !.state = "reserved", !.reservation = amount]]
        /\ runs' = [runs EXCEPT ![r].active = @ + amount]
        /\ candidates' = candidates

\* mark_call_dispatching
MarkCallDispatching(c) ==
    /\ calls[c].state = "reserved"
    /\ calls' = [calls EXCEPT ![c].state = "dispatching"]
    /\ UNCHANGED <<runs, candidates>>

\* Mutant: the unspent part of a settled reservation stays reserved.
SettledCounters(run, reservation, state, cost) ==
    [run EXCEPT
        !.active = IF state = "settled" THEN @ - cost ELSE @ - reservation,
        !.verified = IF state = "settled" THEN @ + cost ELSE @,
        !.indeterminate = IF state = "indeterminate" THEN @ + reservation ELSE @]

\* Mutant: a verified cost is taken from what is reserved once more.
ReleasedTwice(run, reservation, state, cost) ==
    [run EXCEPT
        !.active = @ - reservation - cost,
        !.verified = IF state = "settled" THEN @ + cost ELSE @,
        !.indeterminate = IF state = "indeterminate" THEN @ + reservation ELSE @]

\* The three deltas of resolve_call.
ResolvedCounters(run, reservation, state, cost) ==
    [run EXCEPT
        !.active = @ - reservation,
        !.verified = IF state = "settled" THEN @ + cost ELSE @,
        !.indeterminate = IF state = "indeterminate" THEN @ + reservation ELSE @]

\* resolve_call: a verified cost within the reservation settles the call,
\* proof that it was not sent releases it, anything else keeps all of it.
ResolveCall(c, state, cost) ==
    /\ calls[c].state \in OpenCallStates
    /\ cost \in 0..calls[c].reservation
    /\ state # "settled" => cost = 0
    /\ calls' = [calls EXCEPT ![c].state = state, ![c].cost = cost]
    /\ runs' = [runs EXCEPT
          ![c[1]] = ResolvedCounters(@, calls[c].reservation, state, cost)]
    /\ candidates' = candidates

-----------------------------------------------------------------------------

StoreInit ==
    /\ runs = [r \in Runs |-> NoRun]
    /\ candidates = [r \in Runs |-> [a \in Applications |-> NoCandidate]]
    /\ calls = [c \in CallIds |-> NoCall]

StoreNext ==
    \/ \E r \in Runs, key \in Keys, target \in Targets, queue \in Queues,
          exhausted \in BOOLEAN : StartRun(r, key, target, queue, exhausted)
    \/ \E r \in Runs :
          Unfinished(r) /\ (Begin(r) \/ Finish(r) \/ Cancel(r) \/ FinishCancellation(r))
    \/ \E r \in Runs, a \in Applications :
          \/ BeginCandidate(r, a) \/ StartArtifactSet(r, a) \/ CompleteCandidate(r, a)
          \/ \E v \in Versions : AdmitCandidate(r, a, v)
          \/ candidates[r][a].state # "absent" /\ FailCandidate(r, a, "failed")
          \/ \E s \in Range(Stages), amount \in Reservations : ReserveCall(r, a, s, amount)
    \/ \E c \in CallIds :
          \/ MarkCallDispatching(c)
          \/ \E state \in {"settled", "not_transmitted", "indeterminate"},
                cost \in 0..calls[c].reservation : ResolveCall(c, state, cost)

\* The store under callers that call anything at any time.
StoreSpec == StoreInit /\ [][StoreNext]_storeVars

-----------------------------------------------------------------------------
(* Properties                                                              *)

CallsIn(r, states) == {c \in CallIds : c[1] = r /\ calls[c].state \in states}

Reserved(S) == MapThenSumSet(LAMBDA c : calls[c].reservation, S)

(* The counters a run is stopped by are the sums of its calls: what is open, *)
(* what was verified, and what can no longer be known.  They are moved by    *)
(* deltas, one call at a time, and never recomputed.                         *)
CountersAreTheCalls ==
    \A r \in Runs :
        /\ runs[r].active = Reserved(CallsIn(r, OpenCallStates))
        /\ runs[r].indeterminate = Reserved(CallsIn(r, {"indeterminate"}))
        /\ runs[r].verified =
              MapThenSumSet(LAMBDA c : calls[c].cost, CallsIn(r, {"settled"}))

(* Committed Spend never passes the ceiling, calls whose cost is unknown and *)
(* calls whose process died included.                                        *)
SpendWithinCeiling == \A r \in Runs : Committed(r) <= Ceiling

(* What happened to a candidate is final, and so is a finished run, although *)
(* fail_candidate, complete_candidate, finish and finish_cancellation look   *)
(* at no state: their callers must not come late or twice.                   *)
SettledIsFinal ==
    [][\A r \in Runs :
        /\ runs[r].lifecycle = "finished" =>
              runs'[r].lifecycle = "finished" /\ runs'[r].outcome = runs[r].outcome
        /\ \A a \in Applications :
              candidates[r][a].state \in TerminalCandidateStates =>
                  candidates'[r][a] = candidates[r][a]]_storeVars

=============================================================================
