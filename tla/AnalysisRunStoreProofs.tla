------------------------ MODULE AnalysisRunStoreProofs ------------------------
(***************************************************************************)
(* Theorems about AnalysisRunStore, for every set of runs, Applications,   *)
(* workers and calls.  The store's actions are first summed up by the few  *)
(* kinds of write they make (RunMoves, RunEnds, CandidateMoves, CallMoves);*)
(* the invariants and the action properties follow from the summaries.     *)
(***************************************************************************)
EXTENDS AnalysisRunStore, SetSums, FiniteSetTheorems, TLAPS

\* A call that exists was reserved for a run and an Application; the others
\* hold nothing.
CallsHaveRuns ==
    \A c \in Calls :
        IF calls[c].state = "absent"
            THEN calls[c] = NoCall
            ELSE calls[c].run \in Runs /\ calls[c].application \in Applications

\* A run that has not been created has no candidates.
CandidatesHaveRuns ==
    \A r \in Runs : runs[r].lifecycle = "absent" =>
        \A a \in Applications : candidates[r][a] = "absent"

\* The inductive invariant.
StoreInv ==
    /\ StoreTypeOK
    /\ CallsHaveRuns
    /\ CandidatesHaveRuns
    /\ OneActiveRun
    /\ OneCandidateEvaluated
    /\ OneCallInFlight
    /\ TransmissionsNumbered
    /\ FinishedRunIsQuiet

-----------------------------------------------------------------------------
(* Operators                                                               *)

\* A nonempty set of naturals has the least member LeastOf names.
LEMMA LeastOfIsLeast ==
    ASSUME NEW S, S \subseteq Nat, S # {}
    PROVE  LeastOf(S) \in S /\ \A j \in S : LeastOf(S) <= j
<1>1. \E m \in S : \A n \in S : m <= n
  BY LeastNatural
<1>2. QED  BY <1>1 DEF LeastOf

\* The index a call is dispatched under is one no other transmission holds.
LEMMA NextSlotIsFree ==
    ASSUME NEW r, NEW a, FreeSlots(r, a) # {}
    PROVE  /\ NextSlot(r, a) \in 1..TransmissionLimit
           /\ NextSlot(r, a) \in FreeSlots(r, a)
<1>1. FreeSlots(r, a) \subseteq 1..TransmissionLimit
  BY DEF FreeSlots
<1>2. FreeSlots(r, a) \subseteq Nat
  BY <1>1, StoreAssumption
<1>3. QED  BY <1>1, <1>2, LeastOfIsLeast DEF NextSlot

\* The candidate claim_next_candidate picks is one of the run's and pending.
LEMMA NextCandidateIsPending ==
    ASSUME StoreTypeOK, NEW r \in Runs, PendingOrdinals(r) # {}
    PROVE  /\ runs[r].queue[LeastOf(PendingOrdinals(r))] \in Applications
           /\ candidates[r][runs[r].queue[LeastOf(PendingOrdinals(r))]] = "pending"
<1>1. runs[r].queue \in Seq(Applications)
  <2>1. runs[r].queue \in Queues \cup {<<>>}
    BY DEF StoreTypeOK, RunRows
  <2>2. <<>> \in Seq(Applications)
    OBVIOUS
  <2>3. QED  BY <2>1, <2>2, StoreAssumption
<1>2. DOMAIN runs[r].queue \subseteq Nat
  BY <1>1
<1>3. PendingOrdinals(r) \subseteq DOMAIN runs[r].queue
  BY DEF PendingOrdinals
<1>4. LeastOf(PendingOrdinals(r)) \in PendingOrdinals(r)
  BY <1>2, <1>3, LeastOfIsLeast
<1>5. runs[r].queue[LeastOf(PendingOrdinals(r))] \in Applications
  BY <1>1, <1>3, <1>4
<1>6. QED  BY <1>4, <1>5 DEF PendingOrdinals

\* completion_count is a number: a run has finitely many candidates.
LEMMA CompletionCountIsNat ==
    ASSUME NEW states
    PROVE  CompletionCount(states) \in Nat
<1>1. {a \in Applications : states[a] \in {"analyzed", "repaired"}}
          \in SUBSET Applications
  OBVIOUS
<1>2. QED
  BY <1>1, StoreAssumption, FS_Subset, FS_CardinalityType DEF CompletionCount

-----------------------------------------------------------------------------
(* What the actions write                                                  *)

\* One unfinished run is written and stays unfinished; a cancellation stays.
RunMoves(r) ==
    /\ Unfinished(r)
    /\ runs'[r] \in RunRows
    /\ runs' = [runs EXCEPT ![r] = runs'[r]]
    /\ runs'[r].lifecycle \in {"queued", "running", "cancelling"}
    /\ runs[r].lifecycle = "cancelling" => runs'[r].lifecycle = "cancelling"

\* One leased run ends, with no call undecided, and as cancelled if it was
\* being cancelled.
RunEnds(r) ==
    /\ Unfinished(r)
    /\ runs[r].lease > 0
    /\ ActiveCalls(r) = {}
    /\ runs'[r] \in RunRows
    /\ runs' = [runs EXCEPT ![r] = runs'[r]]
    /\ runs'[r].lifecycle = "finished"
    /\ runs'[r].owner = NoOne /\ runs'[r].lease = 0
    /\ runs'[r].outcome \in Outcomes
    /\ runs[r].lifecycle = "cancelling" => runs'[r].outcome = "cancelled"

\* One candidate of a leased run is written: a result is final, and only a run
\* that evaluates nothing begins to evaluate.
CandidateMoves(r, a) ==
    /\ Unfinished(r)
    /\ runs[r].lease > 0
    /\ \E s \in {"evaluating"} \cup TerminalCandidateStates :
          /\ candidates' = [candidates EXCEPT ![r] = [@ EXCEPT ![a] = s]]
          /\ s = "evaluating" => Evaluating(r) = {}
          /\ candidates[r][a] \in TerminalCandidateStates => candidates[r][a] = s

\* One call of a leased run is written: it keeps its run and its Application,
\* and it enters flight alone, under a free index, in a run not cancelled.
CallMoves(c) ==
    LET r == calls'[c].run
        a == calls'[c].application
    IN  /\ calls'[c] \in CallRows
        /\ calls' = [calls EXCEPT ![c] = calls'[c]]
        /\ UNCHANGED <<runs, candidates, quarantine>>
        /\ r \in Runs /\ a \in Applications
        /\ runs[r].lifecycle \in Leased /\ runs[r].lease > 0
        /\ \/ calls[c].state = "absent"
           \/ calls[c].run = r /\ calls[c].application = a
        /\ calls'[c].state # "absent"
        /\ calls'[c].state \in InFlightStates =>
              \/ calls[c].state \in InFlightStates
              \/ InFlightCalls(r) \subseteq {c} /\ runs[r].lifecycle = "running"
        /\ \/ calls'[c].slot = 0
           \/ calls'[c].slot = calls[c].slot /\ calls[c].state # "absent"
           \/ calls'[c].slot \in FreeSlots(r, a)

\* The writes of one run alone.
LEMMA RunWrites ==
    ASSUME StoreTypeOK, NEW r \in Runs, NEW w \in Workers,
           \/ \E term \in LeaseTerms : \/ ClaimRecoverableRun(r, w, term)
                                       \/ StartRun(r, w, term)
                                       \/ RenewLease(r, w, term)
           \/ RelinquishLease(r, w)
           \/ \E reason \in Reasons : RecordRunReason(r, w, reason)
    PROVE  RunMoves(r) /\ UNCHANGED <<candidates, calls, quarantine>>
<1>1. runs[r] \in RunRows /\ LeaseTerms \subseteq Nat /\ DOMAIN runs = Runs
  BY StoreAssumption DEF StoreTypeOK
<1> USE DEF RunMoves, Unfinished
<1>2. ASSUME NEW term \in LeaseTerms, ClaimRecoverableRun(r, w, term)
      PROVE  RunMoves(r) /\ UNCHANGED <<candidates, calls, quarantine>>
  BY <1>1, <1>2 DEF ClaimRecoverableRun, Recoverable, LaterOf, RunRows, Lifecycles
<1>3. ASSUME NEW term \in LeaseTerms, StartRun(r, w, term)
      PROVE  RunMoves(r) /\ UNCHANGED <<candidates, calls, quarantine>>
  BY <1>1, <1>3 DEF StartRun, RunRows, Lifecycles
<1>4. ASSUME NEW term \in LeaseTerms, RenewLease(r, w, term)
      PROVE  RunMoves(r) /\ UNCHANGED <<candidates, calls, quarantine>>
  BY <1>1, <1>4 DEF RenewLease, CurrentLease, Leased, LaterOf, RunRows, Lifecycles
<1>5. CASE RelinquishLease(r, w)
  BY <1>1, <1>5 DEF RelinquishLease, RunRows, Lifecycles
<1>6. ASSUME NEW reason \in Reasons, RecordRunReason(r, w, reason)
      PROVE  RunMoves(r) /\ UNCHANGED <<candidates, calls, quarantine>>
  BY <1>1, <1>6 DEF RecordRunReason, CurrentLease, Leased, RunRows, Lifecycles
<1>7. QED  BY <1>2, <1>3, <1>4, <1>5, <1>6

\* request_cancellation.
LEMMA CancellationWrites ==
    ASSUME StoreTypeOK, NEW r \in Runs, RequestCancellation(r)
    PROVE  RunMoves(r) /\ UNCHANGED <<candidates, calls, quarantine>>
  BY DEF StoreTypeOK, RequestCancellation, RunMoves, Unfinished, RunRows, Lifecycles

\* finish_run ends a run and leaves its candidates and calls.
LEMMA FinishEnds ==
    ASSUME StoreTypeOK, NEW r \in Runs, NEW w \in Workers, NEW outcome \in AskedOutcomes,
           NEW reason \in Reasons \cup {"none"}, FinishRun(r, w, outcome, reason)
    PROVE  RunEnds(r) /\ UNCHANGED <<candidates, calls, quarantine>>
<1>1. runs[r] \in RunRows /\ AskedOutcomes \subseteq Outcomes /\ DOMAIN runs = Runs
      /\ "cancelled" \in Reasons
  BY StoreAssumption DEF StoreTypeOK
<1>2. Unfinished(r) /\ runs[r].lease > 0 /\ ActiveCalls(r) = {}
  BY DEF FinishRun, CurrentLease, Leased, Unfinished
<1>3. EffectiveOutcome(r, outcome) \in Outcomes
      /\ (runs[r].lifecycle = "cancelling" => EffectiveOutcome(r, outcome) = "cancelled")
  BY <1>1 DEF EffectiveOutcome, Outcomes
<1>4. PICK kept \in Reasons \cup {"none"} :
          /\ runs' = [runs EXCEPT ![r] = Finished(@, EffectiveOutcome(r, outcome), kept)]
          /\ UNCHANGED <<candidates, calls, quarantine>>
  <2>1. runs[r].reason \in Reasons \cup {"none"}
    BY <1>1 DEF RunRows
  <2>2. QED  BY <1>1, <2>1 DEF FinishRun
<1>5. runs'[r] = Finished(runs[r], EffectiveOutcome(r, outcome), kept)
  BY <1>1, <1>4
<1>6. Finished(runs[r], EffectiveOutcome(r, outcome), kept) \in RunRows
  BY <1>1, <1>3 DEF Finished, RunRows, Lifecycles
<1>7. /\ runs'[r].lifecycle = "finished"
      /\ runs'[r].owner = NoOne /\ runs'[r].lease = 0
      /\ runs'[r].outcome = EffectiveOutcome(r, outcome)
  BY <1>1, <1>5 DEF Finished, RunRows
<1>8. QED  BY <1>2, <1>3, <1>4, <1>5, <1>6, <1>7 DEF RunEnds

\* record_candidate_result without a stop.
LEMMA ResultWrites ==
    ASSUME StoreTypeOK, NEW r \in Runs, NEW a \in Applications, NEW w \in Workers,
           NEW state \in AskedResults, RecordCandidateResult(r, a, w, state)
    PROVE  RunMoves(r) /\ CandidateMoves(r, a) /\ UNCHANGED <<calls, quarantine>>
<1>1. runs[r] \in RunRows /\ state \in TerminalCandidateStates /\ DOMAIN runs = Runs
  BY StoreAssumption DEF StoreTypeOK
<1>2. Unfinished(r) /\ runs[r].lifecycle \in Leased /\ runs[r].lease > 0
  BY DEF RecordCandidateResult, CurrentLease, Leased, Unfinished
<1>3. CandidateMoves(r, a)
  BY <1>1, <1>2 DEF CandidateMoves, RecordCandidateResult, CandidateStates,
                    TerminalCandidateStates
<1>4. CompletionCount(candidates'[r]) \in Nat
  BY CompletionCountIsNat
<1>5. runs' = [runs EXCEPT ![r] = RefreshedProgress(runs[r], candidates'[r])]
  BY DEF RecordCandidateResult
<1>6. RefreshedProgress(runs[r], candidates'[r]) \in RunRows
      /\ RefreshedProgress(runs[r], candidates'[r]).lifecycle = runs[r].lifecycle
  BY <1>1, <1>4 DEF RefreshedProgress, RunRows
<1>7. RunMoves(r)
  BY <1>1, <1>2, <1>5, <1>6 DEF RunMoves, Leased
<1>8. QED  BY <1>3, <1>7 DEF RecordCandidateResult

\* record_candidate_result with a stop.
LEMMA ResultEnds ==
    ASSUME StoreTypeOK, NEW r \in Runs, NEW a \in Applications, NEW w \in Workers,
           NEW state \in AskedResults, NEW outcome \in AskedOutcomes,
           NEW reason \in Reasons, RecordResultAndStop(r, a, w, state, outcome, reason)
    PROVE  RunEnds(r) /\ CandidateMoves(r, a) /\ UNCHANGED <<calls, quarantine>>
<1>1. /\ runs[r] \in RunRows
      /\ state \in TerminalCandidateStates
      /\ AskedOutcomes \subseteq Outcomes
      /\ "cancelled" \in Reasons
      /\ DOMAIN runs = Runs
  BY StoreAssumption DEF StoreTypeOK
<1>2. Unfinished(r) /\ runs[r].lease > 0 /\ ActiveCalls(r) = {}
  BY DEF RecordResultAndStop, CurrentLease, Leased, Unfinished
<1>3. CandidateMoves(r, a)
  BY <1>1, <1>2 DEF CandidateMoves, RecordResultAndStop, CandidateStates,
                    TerminalCandidateStates
<1>4. CompletionCount(candidates'[r]) \in Nat
  BY CompletionCountIsNat
<1>5. EffectiveOutcome(r, outcome) \in Outcomes
      /\ (runs[r].lifecycle = "cancelling" => EffectiveOutcome(r, outcome) = "cancelled")
  BY <1>1 DEF EffectiveOutcome, Outcomes
<1> DEFINE row == RefreshedProgress(runs[r], candidates'[r])
           kept == IF row.lifecycle = "cancelling" THEN "cancelled" ELSE reason
<1>6. row \in RunRows /\ kept \in Reasons
  BY <1>1, <1>4 DEF RefreshedProgress, RunRows
<1>7. runs' = [runs EXCEPT ![r] = Finished(row, EffectiveOutcome(r, outcome), kept)]
  <2>1. runs' = [runs EXCEPT ![r] =
            Finished(RefreshedProgress(runs[r], candidates'[r]),
                     EffectiveOutcome(r, outcome),
                     IF runs[r].lifecycle = "cancelling" THEN "cancelled" ELSE reason)]
    BY DEF RecordResultAndStop
  <2>2. row.lifecycle = runs[r].lifecycle
    BY <1>1 DEF RefreshedProgress, RunRows
  <2>3. QED  BY <2>1, <2>2
<1>8. Finished(row, EffectiveOutcome(r, outcome), kept) \in RunRows
  <2> HIDE DEF row, kept
  <2>1. QED  BY <1>5, <1>6 DEF Finished, RunRows, Lifecycles
<1>9. /\ runs'[r].lifecycle = "finished"
      /\ runs'[r].owner = NoOne /\ runs'[r].lease = 0
      /\ runs'[r].outcome = EffectiveOutcome(r, outcome)
  <2> HIDE DEF row, kept
  <2>1. QED  BY <1>1, <1>6, <1>7 DEF Finished, RunRows
<1>10. RunEnds(r)
  <2> HIDE DEF row, kept
  <2>1. QED  BY <1>1, <1>2, <1>5, <1>7, <1>8, <1>9 DEF RunEnds
<1>11. QED  BY <1>3, <1>10 DEF RecordResultAndStop

\* claim_next_candidate.
LEMMA ClaimWrites ==
    ASSUME StoreTypeOK, NEW r \in Runs, NEW w \in Workers, ClaimNextCandidate(r, w)
    PROVE  /\ \E a \in Applications : CandidateMoves(r, a)
           /\ UNCHANGED <<runs, calls, quarantine>>
<1> DEFINE a == runs[r].queue[LeastOf(PendingOrdinals(r))]
<1>1. a \in Applications /\ candidates[r][a] = "pending"
  BY NextCandidateIsPending DEF ClaimNextCandidate
<1>2. /\ Unfinished(r) /\ runs[r].lease > 0 /\ Evaluating(r) = {}
      /\ candidates' = [candidates EXCEPT ![r] = [@ EXCEPT ![a] = "evaluating"]]
      /\ UNCHANGED <<runs, calls, quarantine>>
  BY DEF ClaimNextCandidate, CurrentLease, Unfinished
<1> HIDE DEF a
<1>3. CandidateMoves(r, a)
  BY <1>1, <1>2 DEF CandidateMoves, CandidateStates, TerminalCandidateStates
<1>4. QED  BY <1>1, <1>2, <1>3

\* reserve_provider_call: a call of its own, not in flight, without an index.
LEMMA ReserveMoves ==
    ASSUME StoreTypeOK, CallsHaveRuns, NEW r \in Runs, NEW a \in Applications,
           NEW w \in Workers, NEW c \in Calls, NEW amount \in Reservations,
           ReserveProviderCall(c, r, a, w, amount)
    PROVE  CallMoves(c)
<1>1. calls[c] \in CallRows /\ DOMAIN calls = Calls /\ 0 \in 0..TransmissionLimit
  BY StoreAssumption DEF StoreTypeOK
<1> DEFINE row == [NoCall EXCEPT !.state = "reserved", !.run = r,
                                 !.application = a, !.reservation = amount]
<1>2. calls' = [calls EXCEPT ![c] = row] /\ UNCHANGED <<runs, candidates, quarantine>>
  BY DEF ReserveProviderCall
<1>3. /\ row \in CallRows
      /\ row.state = "reserved" /\ row.slot = 0 /\ row.run = r /\ row.application = a
  BY <1>1 DEF NoCall, CallRows, CallStates, ActiveCallStates
<1>4. calls[c].state = "absent" /\ runs[r].lifecycle \in Leased /\ runs[r].lease > 0
  BY DEF ReserveProviderCall, CurrentLease, Leased
<1> HIDE DEF row
<1>5. calls'[c] = row
  BY <1>1, <1>2
<1>6. ~ ("reserved" \in InFlightStates)
  BY DEF InFlightStates
<1>7. QED
  BY <1>2, <1>3, <1>4, <1>5, <1>6 DEF CallMoves

\* begin_provider_dispatch: into flight, alone and under a free index.
LEMMA DispatchMoves ==
    ASSUME StoreTypeOK, CallsHaveRuns, NEW w \in Workers, NEW c \in Calls,
           BeginProviderDispatch(c, w)
    PROVE  CallMoves(c)
<1>1. calls[c] \in CallRows /\ DOMAIN calls = Calls
  BY DEF StoreTypeOK
<1> DEFINE r == calls[c].run
           a == calls[c].application
           slot == NextSlot(r, a)
           row == [calls[c] EXCEPT !.state = "dispatching", !.slot = slot]
<1>2. /\ calls[c].state = "reserved"
      /\ runs[r].lifecycle = "running" /\ runs[r].lease > 0
      /\ InFlightCalls(r) \subseteq {c}
      /\ FreeSlots(r, a) # {}
      /\ calls' = [calls EXCEPT ![c] = row]
      /\ UNCHANGED <<runs, candidates, quarantine>>
  BY <1>1 DEF BeginProviderDispatch, CurrentLease, DispatchLifecycles, NothingElseInFlight,
              CallRows
<1>3. r \in Runs /\ a \in Applications
  BY <1>2 DEF CallsHaveRuns
<1>4. slot \in 0..TransmissionLimit /\ slot \in FreeSlots(r, a)
  BY <1>2, NextSlotIsFree, StoreAssumption
<1> HIDE DEF slot
<1>5. row \in CallRows /\ row.state = "dispatching" /\ row.slot = slot
      /\ row.run = r /\ row.application = a
  BY <1>1, <1>4 DEF CallRows, CallStates, ActiveCallStates, InFlightStates
<1> HIDE DEF row, r, a
<1>6. calls'[c] = row
  BY <1>1, <1>2
<1>7. CallMoves(c)
  <2>1. calls'[c].run = r /\ calls'[c].application = a /\ calls'[c].slot \in FreeSlots(r, a)
        /\ calls'[c].state = "dispatching" /\ runs[r].lifecycle \in Leased
    BY <1>2, <1>4, <1>5, <1>6 DEF Leased
  <2>2. r = calls[c].run /\ a = calls[c].application
    BY DEF r, a
  <2>3. QED  BY <1>2, <1>3, <1>5, <1>6, <2>1, <2>2 DEF CallMoves
<1>8. QED  BY <1>7

\* The later transitions of one call: each keeps the call's index or gives it
\* up, and none puts a call in flight that was not.
LEMMA TransitionMoves ==
    ASSUME StoreTypeOK, CallsHaveRuns, NEW w \in Workers, NEW c \in Calls,
           \/ ReleaseProviderCall(c, w)
           \/ MarkSent(c, w)
           \/ \E result \in Results : RecordProviderCallResponse(c, w, result)
           \/ \E result \in Results \cup {"none"} :
                 \/ \E cost \in 0..Ceiling : SettleProviderCall(c, w, cost, result)
                 \/ MarkIndeterminate(c, w, result)
    PROVE  CallMoves(c)
<1>1. calls[c] \in CallRows /\ DOMAIN calls = Calls /\ 0 \in 0..TransmissionLimit
      /\ Ceiling \in Nat
  BY StoreAssumption DEF StoreTypeOK
<1>2. PICK row \in CallRows :
          /\ calls' = [calls EXCEPT ![c] = row]
          /\ row.run = calls[c].run /\ row.application = calls[c].application
          /\ row.state # "absent"
          /\ row.state \in InFlightStates => calls[c].state \in InFlightStates
          /\ row.slot \in {0, calls[c].slot}
  <2> USE <1>1 DEF CallRows, CallStates, ActiveCallStates, InFlightStates
  <2>1. CASE ReleaseProviderCall(c, w)
    <3>1. [calls[c] EXCEPT !.state = "released", !.slot = 0] \in CallRows
      OBVIOUS
    <3>2. QED  BY <2>1, <3>1 DEF ReleaseProviderCall
  <2>2. CASE MarkSent(c, w)
    <3>1. [calls[c] EXCEPT !.state = "sent"] \in CallRows
      OBVIOUS
    <3>2. QED  BY <2>2, <3>1 DEF MarkSent
  <2>3. CASE \E result \in Results : RecordProviderCallResponse(c, w, result)
    <3>1. PICK result \in Results : RecordProviderCallResponse(c, w, result)
      BY <2>3
    <3>2. [calls[c] EXCEPT !.state = "response_recorded", !.result = result] \in CallRows
      OBVIOUS
    <3>3. QED  BY <3>1, <3>2 DEF RecordProviderCallResponse
  <2>4. CASE \E result \in Results \cup {"none"}, cost \in 0..Ceiling :
                SettleProviderCall(c, w, cost, result)
    <3>1. PICK result \in Results \cup {"none"}, cost \in 0..Ceiling :
              SettleProviderCall(c, w, cost, result)
      BY <2>4
    <3> DEFINE kept == IF result = "none" THEN calls[c].result ELSE result
    <3>2. kept \in Results \cup {"none"}
      OBVIOUS
    <3>3. /\ calls[c].state = "response_recorded"
          /\ calls' = [calls EXCEPT ![c] =
                [calls[c] EXCEPT !.state = "settled", !.cost = cost, !.result = kept]]
      BY <3>1 DEF SettleProviderCall
    <3> HIDE DEF kept
    <3>4. cost \in Nat
      OBVIOUS
    <3>5. [calls[c] EXCEPT !.state = "settled", !.cost = cost, !.result = kept]
              \in CallRows
      BY <3>2, <3>4
    <3>6. QED  BY <3>3, <3>5
  <2>5. CASE \E result \in Results \cup {"none"} : MarkIndeterminate(c, w, result)
    <3>1. PICK result \in Results \cup {"none"} : MarkIndeterminate(c, w, result)
      BY <2>5
    <3> DEFINE kept == IF result = "none" THEN calls[c].result ELSE result
    <3>2. kept \in Results \cup {"none"}
      OBVIOUS
    <3>3. /\ calls[c].state \in InFlightStates
          /\ calls' = [calls EXCEPT ![c] =
                [calls[c] EXCEPT !.state = "indeterminate", !.result = kept]]
      BY <3>1 DEF MarkIndeterminate
    <3> HIDE DEF kept
    <3>4. [calls[c] EXCEPT !.state = "indeterminate", !.result = kept] \in CallRows
      BY <3>2
    <3>5. QED  BY <3>3, <3>4
  <2>6. QED  BY <2>1, <2>2, <2>3, <2>4, <2>5
<1>3. /\ calls[c].state # "absent"
      /\ runs[calls[c].run].lifecycle \in Leased /\ runs[calls[c].run].lease > 0
      /\ UNCHANGED <<runs, candidates, quarantine>>
  BY DEF ReleaseProviderCall, MarkSent, RecordProviderCallResponse, SettleProviderCall,
         MarkIndeterminate, CurrentLease, InFlightStates
<1>4. calls[c].run \in Runs /\ calls[c].application \in Applications
  BY <1>3 DEF CallsHaveRuns
<1>5. calls'[c] = row
  BY <1>1, <1>2
<1>6. QED  BY <1>2, <1>3, <1>4, <1>5 DEF CallMoves

\* The kinds of write a step of the store can make.
OneRunStep(r) ==
    /\ \/ RunMoves(r)
       \/ RunEnds(r)
       \/ UNCHANGED runs
    /\ \/ UNCHANGED candidates
       \/ \E a \in Applications : CandidateMoves(r, a)
    /\ UNCHANGED <<calls, quarantine>>

CreateStep ==
    \E r \in Runs, key \in Keys, target \in Targets, queue \in Queues, truncated \in BOOLEAN :
        CreateRun(r, key, target, queue, truncated)

QuarantineStep ==
    /\ quarantine' \subseteq Applications
    /\ UNCHANGED <<runs, candidates, calls>>

ReconcileStep == \E r \in Runs, w \in Workers : ReconcileInterruptedCalls(r, w)

\* Every step is of one of these kinds.
LEMMA StepKinds ==
    ASSUME StoreTypeOK, CallsHaveRuns, StoreNext
    PROVE  \/ CreateStep
           \/ \E r \in Runs : OneRunStep(r)
           \/ \E c \in Calls : CallMoves(c)
           \/ ReconcileStep
           \/ QuarantineStep
           \/ Tick
<1>1. CASE CreateStep
  BY <1>1
<1>2. ASSUME NEW r \in Runs, RequestCancellation(r)
      PROVE  OneRunStep(r)
  BY <1>2, CancellationWrites DEF OneRunStep
<1>3. ASSUME NEW r \in Runs, NEW w \in Workers, RunStep(r, w)
      PROVE  OneRunStep(r) \/ ReconcileStep
  <2>1. CASE \/ \E term \in LeaseTerms : \/ ClaimRecoverableRun(r, w, term)
                                         \/ StartRun(r, w, term)
                                         \/ RenewLease(r, w, term)
             \/ RelinquishLease(r, w)
             \/ \E reason \in Reasons : RecordRunReason(r, w, reason)
    BY <2>1, RunWrites DEF OneRunStep
  <2>2. CASE ClaimNextCandidate(r, w)
    BY <2>2, ClaimWrites DEF OneRunStep
  <2>3. CASE \E outcome \in AskedOutcomes, reason \in Reasons \cup {"none"} :
                FinishRun(r, w, outcome, reason)
    BY <2>3, FinishEnds DEF OneRunStep
  <2>4. CASE ReconcileInterruptedCalls(r, w)
    BY <2>4 DEF ReconcileStep
  <2>5. QED  BY <1>3, <2>1, <2>2, <2>3, <2>4 DEF RunStep
<1>4. ASSUME NEW r \in Runs, NEW a \in Applications, NEW w \in Workers,
             CandidateStep(r, a, w)
      PROVE  OneRunStep(r) \/ QuarantineStep \/ \E c \in Calls : CallMoves(c)
  <2>1. ASSUME NEW state \in AskedResults, RecordCandidateResult(r, a, w, state)
        PROVE  OneRunStep(r)
    BY <2>1, ResultWrites DEF OneRunStep
  <2>2. ASSUME NEW state \in AskedResults, NEW outcome \in AskedOutcomes,
               NEW reason \in Reasons, RecordResultAndStop(r, a, w, state, outcome, reason)
        PROVE  OneRunStep(r)
    BY <2>2, ResultEnds DEF OneRunStep
  <2>3. ASSUME NEW c \in Calls, NEW amount \in Reservations,
               ReserveProviderCall(c, r, a, w, amount)
        PROVE  CallMoves(c)
    BY <2>3, ReserveMoves
  <2>4. CASE QuarantineCommitUnknown(r, a, w)
    BY <2>4 DEF QuarantineCommitUnknown, QuarantineStep, StoreTypeOK
  <2>5. QED  BY <1>4, <2>1, <2>2, <2>3, <2>4 DEF CandidateStep
<1>5. ASSUME NEW c \in Calls, NEW w \in Workers, CallStep(c, w)
      PROVE  CallMoves(c)
  BY <1>5, DispatchMoves, TransitionMoves DEF CallStep
<1>6. ASSUME NEW a \in Applications, ClearCommitQuarantine(a)
      PROVE  QuarantineStep
  BY <1>6 DEF ClearCommitQuarantine, QuarantineStep, StoreTypeOK
<1>7. QED
  BY <1>1, <1>2, <1>3, <1>4, <1>5, <1>6 DEF StoreNext, CreateStep

-----------------------------------------------------------------------------
(* The invariant                                                           *)

\* The empty database.
LEMMA InvInit == StoreInit => StoreInv
<1> SUFFICES ASSUME StoreInit PROVE StoreInv
  OBVIOUS
<1> USE DEF StoreInit
<1>1. NoRun \in RunRows
  BY StoreAssumption DEF NoRun, RunRows
<1>2. NoCall \in CallRows
  BY StoreAssumption DEF NoCall, CallRows
<1>3. StoreTypeOK
  BY <1>1, <1>2 DEF StoreTypeOK
<1>4. CallsHaveRuns /\ CandidatesHaveRuns /\ TransmissionsNumbered
  BY DEF CallsHaveRuns, CandidatesHaveRuns, TransmissionsNumbered, NoCall
<1>5. \A r \in Runs : runs[r].lifecycle = "absent" /\ Evaluating(r) = {}
  BY DEF NoRun, Evaluating
<1>6. OneActiveRun /\ OneCandidateEvaluated /\ FinishedRunIsQuiet
  BY <1>5 DEF OneActiveRun, Unfinished, OneCandidateEvaluated, FinishedRunIsQuiet
<1>7. OneCallInFlight
  BY DEF OneCallInFlight, InFlightCalls, InFlightStates, NoCall
<1>8. QED  BY <1>3, <1>4, <1>6, <1>7 DEF StoreInv

\* What reconcile_interrupted_provider_calls makes of one call.
LEMMA InterruptedCall ==
    ASSUME NEW call \in CallRows
    PROVE  /\ Interrupted(call) \in CallRows
           /\ Interrupted(call).run = call.run
           /\ Interrupted(call).application = call.application
           /\ call.state = "absent" => Interrupted(call) = call
           /\ call.state # "absent" => Interrupted(call).state # "absent"
           /\ Interrupted(call).state \in ActiveCallStates => call.state \in ActiveCallStates
           /\ Interrupted(call).state \in InFlightStates => call.state \in InFlightStates
           /\ Interrupted(call).slot \in {0, call.slot}
<1>1. 0 \in 0..TransmissionLimit
  BY StoreAssumption
<1>2. QED
  BY <1>1 DEF Interrupted, CallRows, CallStates, ActiveCallStates, InFlightStates

\* Every write keeps the rows of the tables well formed.
LEMMA TypeStep == StoreTypeOK /\ CallsHaveRuns /\ StoreNext => StoreTypeOK'
<1> SUFFICES ASSUME StoreTypeOK, CallsHaveRuns, StoreNext PROVE StoreTypeOK'
  OBVIOUS
<1>1. CASE CreateStep
  <2>1. PICK r \in Runs, key \in Keys, target \in Targets, queue \in Queues,
             truncated \in BOOLEAN : CreateRun(r, key, target, queue, truncated)
    BY <1>1 DEF CreateStep
  <2>2. [NoRun EXCEPT !.lifecycle = "queued", !.key = key, !.target = target,
                      !.queue = queue, !.truncated = truncated] \in RunRows
    BY StoreAssumption DEF NoRun, RunRows, Lifecycles
  <2>3. runs' \in [Runs -> RunRows]
    BY <2>1, <2>2 DEF CreateRun, StoreTypeOK
  <2>4. [a \in Applications |-> IF a \in Range(queue) THEN "pending" ELSE "absent"]
            \in [Applications -> CandidateStates \cup {"absent"}]
    BY DEF CandidateStates
  <2>5. candidates' \in [Runs -> [Applications -> CandidateStates \cup {"absent"}]]
    BY <2>1, <2>4 DEF CreateRun, StoreTypeOK
  <2>6. QED  BY <2>1, <2>3, <2>5 DEF CreateRun, StoreTypeOK
<1>2. ASSUME NEW r \in Runs, OneRunStep(r)
      PROVE  StoreTypeOK'
  <2>1. runs' \in [Runs -> RunRows]
    BY <1>2 DEF OneRunStep, RunMoves, RunEnds, StoreTypeOK
  <2>2. candidates' \in [Runs -> [Applications -> CandidateStates \cup {"absent"}]]
    BY <1>2 DEF OneRunStep, CandidateMoves, StoreTypeOK, CandidateStates
  <2>3. QED  BY <1>2, <2>1, <2>2 DEF OneRunStep, StoreTypeOK
<1>3. ASSUME NEW c \in Calls, CallMoves(c)
      PROVE  StoreTypeOK'
  BY <1>3 DEF CallMoves, StoreTypeOK
<1>4. CASE ReconcileStep
  BY <1>4, InterruptedCall DEF ReconcileStep, ReconcileInterruptedCalls, StoreTypeOK
<1>5. CASE QuarantineStep
  BY <1>5 DEF QuarantineStep, StoreTypeOK
<1>6. CASE Tick
  <2>1. ASSUME NEW r \in Runs
        PROVE  [runs[r] EXCEPT !.lease = IF @ > 0 THEN @ - 1 ELSE 0] \in RunRows
    <3> DEFINE left == IF runs[r].lease > 0 THEN runs[r].lease - 1 ELSE 0
    <3>1. left \in Nat
      BY DEF StoreTypeOK, RunRows
    <3> HIDE DEF left
    <3>2. [runs[r] EXCEPT !.lease = left] \in RunRows
      BY <3>1 DEF StoreTypeOK, RunRows
    <3>3. QED  BY <3>2 DEF left
  <2>2. QED  BY <1>6, <2>1 DEF Tick, StoreTypeOK
<1>7. QED  BY <1>1, <1>2, <1>3, <1>4, <1>5, <1>6, StepKinds

\* A call is reserved for a run and an Application and keeps them.
LEMMA CallsHaveRunsStep ==
    StoreTypeOK /\ CallsHaveRuns /\ StoreNext => CallsHaveRuns'
<1> SUFFICES ASSUME StoreTypeOK, CallsHaveRuns, StoreNext PROVE CallsHaveRuns'
  OBVIOUS
<1>1. CASE UNCHANGED calls
  BY <1>1 DEF CallsHaveRuns
<1>2. ASSUME NEW c \in Calls, CallMoves(c)
      PROVE  CallsHaveRuns'
  BY <1>2 DEF CallMoves, CallsHaveRuns, StoreTypeOK
<1>3. CASE ReconcileStep
  BY <1>3, InterruptedCall
  DEF ReconcileStep, ReconcileInterruptedCalls, CallsHaveRuns, StoreTypeOK
<1>4. QED
  BY <1>1, <1>2, <1>3, StepKinds
  DEF CreateStep, CreateRun, OneRunStep, QuarantineStep, Tick

\* Candidates come with their run.
LEMMA CandidatesHaveRunsStep ==
    StoreTypeOK /\ CallsHaveRuns /\ CandidatesHaveRuns /\ StoreNext => CandidatesHaveRuns'
<1> SUFFICES ASSUME StoreTypeOK, CallsHaveRuns, CandidatesHaveRuns, StoreNext
             PROVE  CandidatesHaveRuns'
  OBVIOUS
<1>1. CASE CreateStep
  BY <1>1 DEF CreateStep, CreateRun, NoRun, CandidatesHaveRuns, StoreTypeOK
<1>2. ASSUME NEW r \in Runs, OneRunStep(r)
      PROVE  CandidatesHaveRuns'
  BY <1>2
  DEF OneRunStep, RunMoves, RunEnds, CandidateMoves, Unfinished, CandidatesHaveRuns,
      StoreTypeOK
<1>3. CASE Tick
  BY <1>3 DEF Tick, CandidatesHaveRuns, StoreTypeOK, RunRows
<1>4. CASE UNCHANGED <<runs, candidates>>
  BY <1>4 DEF CandidatesHaveRuns
<1>5. QED
  BY <1>1, <1>2, <1>3, <1>4, StepKinds
  DEF CallMoves, ReconcileStep, ReconcileInterruptedCalls, QuarantineStep

\* A run is created while no other is unfinished, and none is reopened.
LEMMA OneActiveRunStep ==
    StoreTypeOK /\ CallsHaveRuns /\ OneActiveRun /\ StoreNext => OneActiveRun'
<1> SUFFICES ASSUME StoreTypeOK, CallsHaveRuns, OneActiveRun, StoreNext PROVE OneActiveRun'
  OBVIOUS
<1>1. CASE CreateStep
  BY <1>1 DEF CreateStep, CreateRun, NoActiveRun, OneActiveRun, Unfinished, StoreTypeOK
<1>2. ASSUME NEW r \in Runs, OneRunStep(r)
      PROVE  OneActiveRun'
  BY <1>2 DEF OneRunStep, RunMoves, RunEnds, OneActiveRun, Unfinished, StoreTypeOK
<1>3. CASE Tick
  <2>1. \A r \in Runs : runs'[r].lifecycle = runs[r].lifecycle
    BY <1>3 DEF Tick, StoreTypeOK, RunRows
  <2>2. QED  BY <2>1 DEF OneActiveRun, Unfinished
<1>4. CASE UNCHANGED runs
  BY <1>4 DEF OneActiveRun, Unfinished
<1>5. QED
  BY <1>1, <1>2, <1>3, <1>4, StepKinds
  DEF CallMoves, ReconcileStep, ReconcileInterruptedCalls, QuarantineStep

\* A candidate begins to be evaluated only while none of its run is.
LEMMA OneCandidateStep ==
    StoreTypeOK /\ CallsHaveRuns /\ OneCandidateEvaluated /\ StoreNext
        => OneCandidateEvaluated'
<1> SUFFICES ASSUME StoreTypeOK, CallsHaveRuns, OneCandidateEvaluated, StoreNext
             PROVE  OneCandidateEvaluated'
  OBVIOUS
<1> USE DEF OneCandidateEvaluated, Evaluating
<1>1. CASE CreateStep
  <2>1. PICK r \in Runs, key \in Keys, target \in Targets, queue \in Queues,
             truncated \in BOOLEAN : CreateRun(r, key, target, queue, truncated)
    BY <1>1 DEF CreateStep
  <2>2. \A a \in Applications : candidates'[r][a] # "evaluating"
    BY <2>1 DEF CreateRun, StoreTypeOK
  <2>3. \A q \in Runs \ {r} : candidates'[q] = candidates[q]
    BY <2>1 DEF CreateRun, StoreTypeOK
  <2>4. QED  BY <2>2, <2>3
<1>2. ASSUME NEW r \in Runs, NEW a \in Applications, CandidateMoves(r, a)
      PROVE  OneCandidateEvaluated'
  BY <1>2 DEF CandidateMoves, StoreTypeOK
<1>3. CASE UNCHANGED candidates
  BY <1>3
<1>4. QED
  BY <1>1, <1>2, <1>3, StepKinds
  DEF OneRunStep, CallMoves, ReconcileStep, ReconcileInterruptedCalls, QuarantineStep, Tick

\* A call written is the only one that can have entered flight.
LEMMA OneCallStep ==
    StoreTypeOK /\ CallsHaveRuns /\ OneCallInFlight /\ StoreNext => OneCallInFlight'
<1> SUFFICES ASSUME StoreTypeOK, CallsHaveRuns, OneCallInFlight, StoreNext
             PROVE  OneCallInFlight'
  OBVIOUS
<1>1. ASSUME NEW c \in Calls, CallMoves(c)
      PROVE  OneCallInFlight'
  <2> SUFFICES ASSUME NEW q \in Runs, NEW d \in InFlightCalls(q)', NEW e \in InFlightCalls(q)'
               PROVE  d = e
    BY DEF OneCallInFlight
  <2>1. /\ d \in Calls /\ calls'[d].run = q /\ calls'[d].state \in InFlightStates
        /\ e \in Calls /\ calls'[e].run = q /\ calls'[e].state \in InFlightStates
    BY DEF InFlightCalls
  <2>2. \A b \in Calls \ {c} : calls'[b] = calls[b]
    BY <1>1 DEF CallMoves, StoreTypeOK
  <2>3. \A b \in Calls \ {c} :
            calls'[b].run = q /\ calls'[b].state \in InFlightStates => b \in InFlightCalls(q)
    BY <2>2 DEF InFlightCalls
  <2>4. CASE c \in InFlightCalls(q)
    BY <2>1, <2>3, <2>4 DEF OneCallInFlight
  <2>5. CASE c \notin InFlightCalls(q) /\ c \in {d, e}
    <3>1. calls'[c].run = q /\ calls'[c].state \in InFlightStates
      BY <2>1, <2>5
    <3>2. InFlightCalls(q) \subseteq {c}
      BY <1>1, <2>5, <3>1 DEF CallMoves, InFlightCalls, InFlightStates
    <3>3. QED  BY <2>1, <2>3, <2>5, <3>2
  <2>6. CASE c \notin {d, e}
    BY <2>1, <2>3, <2>6 DEF OneCallInFlight
  <2>7. QED  BY <2>4, <2>5, <2>6
<1>2. CASE ReconcileStep
  <2>1. \A b \in Calls : /\ calls'[b].run = calls[b].run
                         /\ calls'[b].state \in InFlightStates => calls[b].state \in InFlightStates
    BY <1>2, InterruptedCall DEF ReconcileStep, ReconcileInterruptedCalls, StoreTypeOK
  <2>2. QED  BY <2>1 DEF OneCallInFlight, InFlightCalls
<1>3. CASE UNCHANGED calls
  BY <1>3 DEF OneCallInFlight, InFlightCalls
<1>4. QED
  BY <1>1, <1>2, <1>3, StepKinds
  DEF CreateStep, CreateRun, OneRunStep, QuarantineStep, Tick

\* An index is taken only while free, and only its holder gives it up.
LEMMA NumberedStep ==
    StoreTypeOK /\ CallsHaveRuns /\ TransmissionsNumbered /\ StoreNext
        => TransmissionsNumbered'
<1> SUFFICES ASSUME StoreTypeOK, CallsHaveRuns, TransmissionsNumbered, StoreNext
             PROVE  TransmissionsNumbered'
  OBVIOUS
<1>1. ASSUME NEW c \in Calls, CallMoves(c)
      PROVE  TransmissionsNumbered'
  <2>1. \A b \in Calls \ {c} : calls'[b] = calls[b]
    BY <1>1 DEF CallMoves, StoreTypeOK
  <2>2. ASSUME NEW d \in Calls \ {c}, calls'[c].slot # 0, calls'[c].slot = calls'[d].slot,
               calls'[c].run = calls'[d].run, calls'[c].application = calls'[d].application
        PROVE  FALSE
    <3>1. calls[d].slot = calls'[c].slot /\ calls[d].run = calls'[c].run
          /\ calls[d].application = calls'[c].application
      BY <2>1, <2>2
    <3>2. CASE calls'[c].slot = calls[c].slot /\ calls[c].state # "absent"
      BY <1>1, <2>2, <3>1, <3>2 DEF CallMoves, TransmissionsNumbered
    <3>3. CASE calls'[c].slot \in FreeSlots(calls'[c].run, calls'[c].application)
      <4>1. d \in Transmitted(calls'[c].run, calls'[c].application)
        BY <2>2, <3>1 DEF Transmitted
      <4>2. QED  BY <3>1, <3>3, <4>1 DEF FreeSlots
    <3>4. QED  BY <1>1, <2>2, <3>2, <3>3 DEF CallMoves
  <2>3. QED  BY <2>1, <2>2 DEF TransmissionsNumbered
<1>2. CASE ReconcileStep
  <2>1. \A b \in Calls : /\ calls'[b].run = calls[b].run
                         /\ calls'[b].application = calls[b].application
                         /\ calls'[b].slot \in {0, calls[b].slot}
    BY <1>2, InterruptedCall DEF ReconcileStep, ReconcileInterruptedCalls, StoreTypeOK
  <2>2. QED  BY <2>1 DEF TransmissionsNumbered
<1>3. CASE UNCHANGED calls
  BY <1>3 DEF TransmissionsNumbered
<1>4. QED
  BY <1>1, <1>2, <1>3, StepKinds
  DEF CreateStep, CreateRun, OneRunStep, QuarantineStep, Tick

\* No step reopens a finished run, and no call is reserved for one.
LEMMA QuietStep ==
    StoreTypeOK /\ CallsHaveRuns /\ FinishedRunIsQuiet /\ StoreNext => FinishedRunIsQuiet'
<1> SUFFICES ASSUME StoreTypeOK, CallsHaveRuns, FinishedRunIsQuiet, StoreNext,
                    NEW q \in Runs, runs'[q].lifecycle = "finished"
             PROVE  /\ runs'[q].outcome # "none"
                    /\ runs'[q].owner = NoOne /\ runs'[q].lease = 0
                    /\ ActiveCalls(q)' = {}
  BY DEF FinishedRunIsQuiet
<1>1. CASE CreateStep
  <2>1. runs'[q] = runs[q] /\ UNCHANGED calls
    BY <1>1 DEF CreateStep, CreateRun, NoRun, StoreTypeOK
  <2>2. QED  BY <2>1 DEF FinishedRunIsQuiet, ActiveCalls
<1>2. ASSUME NEW r \in Runs, OneRunStep(r)
      PROVE  /\ runs'[q].outcome # "none"
             /\ runs'[q].owner = NoOne /\ runs'[q].lease = 0
             /\ ActiveCalls(q)' = {}
  <2>1. UNCHANGED calls
    BY <1>2 DEF OneRunStep
  <2>2. \/ runs'[q] = runs[q]
        \/ /\ ActiveCalls(q) = {}
           /\ runs'[q].owner = NoOne /\ runs'[q].lease = 0
           /\ runs'[q].outcome \in Outcomes
    BY <1>2 DEF OneRunStep, RunMoves, RunEnds, StoreTypeOK
  <2>3. "none" \notin Outcomes
    BY DEF Outcomes
  <2>4. QED  BY <2>1, <2>2, <2>3 DEF FinishedRunIsQuiet, ActiveCalls
<1>3. ASSUME NEW c \in Calls, CallMoves(c)
      PROVE  /\ runs'[q].outcome # "none"
             /\ runs'[q].owner = NoOne /\ runs'[q].lease = 0
             /\ ActiveCalls(q)' = {}
  <2>1. calls'[c].run # q /\ runs' = runs
    BY <1>3 DEF CallMoves, Leased
  <2>2. \A b \in Calls \ {c} : calls'[b] = calls[b]
    BY <1>3 DEF CallMoves, StoreTypeOK
  <2>3. QED  BY <2>1, <2>2 DEF FinishedRunIsQuiet, ActiveCalls
<1>4. CASE ReconcileStep
  <2>1. \A b \in Calls : /\ calls'[b].run = calls[b].run
                         /\ calls'[b].state \in ActiveCallStates
                                => calls[b].state \in ActiveCallStates
    BY <1>4, InterruptedCall DEF ReconcileStep, ReconcileInterruptedCalls, StoreTypeOK
  <2>2. runs' = runs
    BY <1>4 DEF ReconcileStep, ReconcileInterruptedCalls
  <2>3. QED  BY <2>1, <2>2 DEF FinishedRunIsQuiet, ActiveCalls
<1>5. CASE QuarantineStep
  BY <1>5 DEF QuarantineStep, FinishedRunIsQuiet, ActiveCalls
<1>6. CASE Tick
  <2>1. /\ runs'[q].lifecycle = runs[q].lifecycle
        /\ runs'[q].outcome = runs[q].outcome
        /\ runs'[q].owner = runs[q].owner
        /\ runs[q].lease = 0 => runs'[q].lease = 0
    BY <1>6 DEF Tick, StoreTypeOK, RunRows
  <2>2. QED  BY <1>6, <2>1 DEF Tick, FinishedRunIsQuiet, ActiveCalls
<1>7. QED  BY <1>1, <1>2, <1>3, <1>4, <1>5, <1>6, StepKinds

\* Every step of the store keeps the inductive invariant.
LEMMA InvStep == StoreInv /\ [StoreNext]_storeVars => StoreInv'
<1>1. CASE StoreNext
  BY <1>1, TypeStep, CallsHaveRunsStep, CandidatesHaveRunsStep, OneActiveRunStep,
     OneCandidateStep, OneCallStep, NumberedStep, QuietStep DEF StoreInv
<1>2. CASE UNCHANGED storeVars
  BY <1>2
  DEF storeVars, StoreInv, StoreTypeOK, CallsHaveRuns, CandidatesHaveRuns, OneActiveRun,
      Unfinished, OneCandidateEvaluated, Evaluating, OneCallInFlight, InFlightCalls,
      TransmissionsNumbered, FinishedRunIsQuiet, ActiveCalls
<1>3. QED  BY <1>1, <1>2

\* The inductive invariant holds of every reachable state of the store.
THEOREM StoreSafety == StoreSpec => []StoreInv
<1>1. QED  BY InvInit, InvStep, PTL DEF StoreSpec

\* Every table holds rows its CHECK constraints admit.
THEOREM StoreTypes == StoreSpec => []StoreTypeOK
<1>1. StoreInv => StoreTypeOK
  BY DEF StoreInv
<1>2. QED  BY <1>1, StoreSafety, PTL

\* create_run can only ever start a run while no other is unfinished.
THEOREM RunsAreSerial == StoreSpec => []OneActiveRun
<1>1. StoreInv => OneActiveRun
  BY DEF StoreInv
<1>2. QED  BY <1>1, StoreSafety, PTL

\* A run evaluates one candidate at a time, whoever its worker is.
THEOREM CandidatesAreSerial == StoreSpec => []OneCandidateEvaluated
<1>1. StoreInv => OneCandidateEvaluated
  BY DEF StoreInv
<1>2. QED  BY <1>1, StoreSafety, PTL

\* A run never has two provider calls out at once.
THEOREM CallsAreSerial == StoreSpec => []OneCallInFlight
<1>1. StoreInv => OneCallInFlight
  BY DEF StoreInv
<1>2. QED  BY <1>1, StoreSafety, PTL

\* No two transmissions of an Application share an index.
THEOREM TransmissionsStayNumbered == StoreSpec => []TransmissionsNumbered
<1>1. StoreInv => TransmissionsNumbered
  BY DEF StoreInv
<1>2. QED  BY <1>1, StoreSafety, PTL

\* A finished run has no lease and no undecided provider call.
THEOREM FinishedRunsAreQuiet == StoreSpec => []FinishedRunIsQuiet
<1>1. StoreInv => FinishedRunIsQuiet
  BY DEF StoreInv
<1>2. QED  BY <1>1, StoreSafety, PTL

\* A step that leaves the candidates and every completion_count alone.
LEMMA CountsStand ==
    ASSUME ProgressIsCounted, UNCHANGED candidates,
           \A r \in Runs : runs'[r].completions = runs[r].completions
    PROVE  ProgressIsCounted'
  BY DEF ProgressIsCounted

\* Whoever writes a candidate's result writes the count of its run with it.
LEMMA ProgressStep == StoreInv /\ ProgressIsCounted /\ StoreNext => ProgressIsCounted'
<1> SUFFICES ASSUME StoreInv, ProgressIsCounted, StoreNext PROVE ProgressIsCounted'
  OBVIOUS
<1> USE DEF StoreInv
<1>1. CASE CreateStep
  <2>1. PICK r \in Runs, key \in Keys, target \in Targets, queue \in Queues,
             truncated \in BOOLEAN : CreateRun(r, key, target, queue, truncated)
    BY <1>1 DEF CreateStep
  <2>2. runs'[r].completions = 0
    BY <2>1 DEF CreateRun, NoRun, StoreTypeOK
  <2>3. {a \in Applications : candidates'[r][a] \in {"analyzed", "repaired"}} = {}
    BY <2>1 DEF CreateRun, StoreTypeOK
  <2>4. runs'[r].completions = CompletionCount(candidates'[r])
    BY <2>2, <2>3, FS_EmptySet DEF CompletionCount
  <2>5. \A q \in Runs \ {r} : runs'[q] = runs[q] /\ candidates'[q] = candidates[q]
    BY <2>1 DEF CreateRun, StoreTypeOK
  <2>6. QED  BY <2>4, <2>5 DEF ProgressIsCounted
<1>2. ASSUME NEW r \in Runs, RequestCancellation(r)
      PROVE  ProgressIsCounted'
  BY <1>2, CountsStand DEF RequestCancellation, StoreTypeOK, RunRows
<1>3. ASSUME NEW r \in Runs, NEW w \in Workers, RunStep(r, w)
      PROVE  ProgressIsCounted'
  <2> USE DEF StoreTypeOK, RunRows
  <2>1. CASE ClaimNextCandidate(r, w)
    <3> DEFINE a == runs[r].queue[LeastOf(PendingOrdinals(r))]
    <3>1. a \in Applications /\ candidates[r][a] = "pending"
      BY <2>1, NextCandidateIsPending DEF ClaimNextCandidate
    <3>2. candidates' = [candidates EXCEPT ![r] = [@ EXCEPT ![a] = "evaluating"]]
          /\ UNCHANGED runs
      BY <2>1 DEF ClaimNextCandidate
    <3> HIDE DEF a
    <3>3. \A q \in Runs :
              {b \in Applications : candidates'[q][b] \in {"analyzed", "repaired"}}
            = {b \in Applications : candidates[q][b] \in {"analyzed", "repaired"}}
      BY <3>1, <3>2
    <3>4. QED  BY <3>2, <3>3 DEF ProgressIsCounted, CompletionCount
  <2>2. ASSUME NEW term \in LeaseTerms,
               \/ ClaimRecoverableRun(r, w, term)
               \/ StartRun(r, w, term)
               \/ RenewLease(r, w, term)
        PROVE  ProgressIsCounted'
    <3>1. \A q \in Runs : runs'[q].completions = runs[q].completions
      <4>1. CASE ClaimRecoverableRun(r, w, term)
        BY <4>1 DEF ClaimRecoverableRun
      <4>2. CASE StartRun(r, w, term)
        BY <4>2 DEF StartRun
      <4>3. CASE RenewLease(r, w, term)
        BY <4>3 DEF RenewLease
      <4>4. QED  BY <2>2, <4>1, <4>2, <4>3
    <3>2. UNCHANGED candidates
      BY <2>2 DEF ClaimRecoverableRun, StartRun, RenewLease
    <3>3. QED  BY <3>1, <3>2, CountsStand
  <2>3. CASE \/ RelinquishLease(r, w)
             \/ \E reason \in Reasons : RecordRunReason(r, w, reason)
             \/ ReconcileInterruptedCalls(r, w)
    <3>1. \A q \in Runs : runs'[q].completions = runs[q].completions
      <4>1. CASE RelinquishLease(r, w)
        BY <4>1 DEF RelinquishLease
      <4>2. ASSUME NEW reason \in Reasons, RecordRunReason(r, w, reason)
            PROVE  \A q \in Runs : runs'[q].completions = runs[q].completions
        BY <4>2 DEF RecordRunReason
      <4>3. CASE ReconcileInterruptedCalls(r, w)
        BY <4>3 DEF ReconcileInterruptedCalls
      <4>4. QED  BY <2>3, <4>1, <4>2, <4>3
    <3>2. UNCHANGED candidates
      BY <2>3 DEF RelinquishLease, RecordRunReason, ReconcileInterruptedCalls
    <3>3. QED  BY <3>1, <3>2, CountsStand
  <2>4. ASSUME NEW outcome \in AskedOutcomes, NEW reason \in Reasons \cup {"none"},
               FinishRun(r, w, outcome, reason)
        PROVE  ProgressIsCounted'
    BY <2>4, CountsStand DEF FinishRun, Finished
  <2>5. QED  BY <1>3, <2>1, <2>2, <2>3, <2>4 DEF RunStep
<1>4. ASSUME NEW r \in Runs, NEW a \in Applications, NEW w \in Workers,
             NEW state \in AskedResults,
             \/ RecordCandidateResult(r, a, w, state)
             \/ \E outcome \in AskedOutcomes, reason \in Reasons :
                   RecordResultAndStop(r, a, w, state, outcome, reason)
      PROVE  ProgressIsCounted'
  <2>1. runs'[r].completions = CompletionCount(candidates'[r])
    <3> DEFINE row == RefreshedProgress(runs[r], candidates'[r])
    <3>1. row.completions = CompletionCount(candidates'[r]) /\ DOMAIN runs = Runs
      BY DEF RefreshedProgress, StoreTypeOK, RunRows
    <3>2. \A outcome, reason : Finished(row, outcome, reason).completions = row.completions
      BY DEF Finished, RefreshedProgress, StoreTypeOK, RunRows
    <3>3. \/ runs' = [runs EXCEPT ![r] = row]
          \/ \E outcome, reason : runs' = [runs EXCEPT ![r] = Finished(row, outcome, reason)]
      BY <1>4 DEF RecordCandidateResult, RecordResultAndStop
    <3> HIDE DEF row
    <3>4. QED  BY <3>1, <3>2, <3>3
  <2>2. \A q \in Runs \ {r} : runs'[q] = runs[q] /\ candidates'[q] = candidates[q]
    BY <1>4 DEF RecordCandidateResult, RecordResultAndStop, StoreTypeOK
  <2>3. QED  BY <2>1, <2>2 DEF ProgressIsCounted
<1>5. CASE Tick
  BY <1>5, CountsStand DEF Tick, StoreTypeOK, RunRows
<1>6. CASE UNCHANGED <<runs, candidates>>
  BY <1>6 DEF ProgressIsCounted
<1>7. ASSUME NEW r \in Runs, NEW a \in Applications, NEW w \in Workers, CandidateStep(r, a, w)
      PROVE  ProgressIsCounted'
  BY <1>4, <1>6, <1>7 DEF CandidateStep, ReserveProviderCall, QuarantineCommitUnknown
<1>8. ASSUME NEW c \in Calls, NEW w \in Workers, CallStep(c, w)
      PROVE  ProgressIsCounted'
  BY <1>6, <1>8
  DEF CallStep, BeginProviderDispatch, ReleaseProviderCall, MarkSent,
      RecordProviderCallResponse, SettleProviderCall, MarkIndeterminate
<1>9. ASSUME NEW a \in Applications, ClearCommitQuarantine(a)
      PROVE  ProgressIsCounted'
  BY <1>6, <1>9 DEF ClearCommitQuarantine
<1>10. QED
  BY <1>1, <1>2, <1>3, <1>5, <1>7, <1>8, <1>9 DEF StoreNext, CreateStep

\* completion_count, which decides when a run has met its target, is at every
\* moment the number of its analyzed and repaired candidates.
THEOREM ProgressStaysCounted == StoreSpec => []ProgressIsCounted
<1>1. StoreInit => ProgressIsCounted
  <2> SUFFICES ASSUME StoreInit, NEW r \in Runs
               PROVE  runs[r].completions = CompletionCount(candidates[r])
    BY DEF ProgressIsCounted
  <2>1. {a \in Applications : candidates[r][a] \in {"analyzed", "repaired"}} = {}
    BY DEF StoreInit
  <2>2. QED  BY <2>1, FS_EmptySet DEF StoreInit, NoRun, CompletionCount
<1>2. StoreInv /\ ProgressIsCounted /\ [StoreNext]_storeVars => ProgressIsCounted'
  <2>1. CASE UNCHANGED storeVars
    BY <2>1 DEF storeVars, ProgressIsCounted
  <2>2. QED  BY <2>1, ProgressStep
<1>3. QED  BY <1>1, <1>2, StoreSafety, PTL DEF StoreSpec

-----------------------------------------------------------------------------
(* What a step may never do                                                *)

\* What one step leaves alone in run q, for a run that is finished or that
\* nobody holds a current lease of.
LEMMA StandStill ==
    ASSUME StoreInv, StoreNext, NEW q \in Runs, runs[q].lifecycle # "absent",
           runs[q].lifecycle = "finished" \/ runs[q].lease = 0
    PROVE  /\ candidates'[q] = candidates[q]
           /\ \A c \in Calls : calls[c].run = q => calls'[c] = calls[c]
<1> USE DEF StoreInv
<1>1. CASE CreateStep
  BY <1>1 DEF CreateStep, CreateRun, StoreTypeOK
<1>2. ASSUME NEW r \in Runs, OneRunStep(r)
      PROVE  candidates'[q] = candidates[q] /\ calls' = calls
  BY <1>2 DEF OneRunStep, CandidateMoves, Unfinished, StoreTypeOK, RunRows
<1>3. ASSUME NEW c \in Calls, CallMoves(c)
      PROVE  candidates' = candidates
             /\ \A d \in Calls : calls[d].run = q => calls'[d] = calls[d]
  <2>1. calls[c].run # q
    BY <1>3, StoreAssumption
    DEF CallMoves, CallsHaveRuns, NoCall, Leased, StoreTypeOK, RunRows
  <2>2. QED  BY <1>3, <2>1 DEF CallMoves, StoreTypeOK
<1>4. CASE ReconcileStep
  <2>1. PICK r \in Runs, w \in Workers : ReconcileInterruptedCalls(r, w)
    BY <1>4 DEF ReconcileStep
  <2>2. r # q
    BY <2>1 DEF ReconcileInterruptedCalls, CurrentLease, Leased, StoreTypeOK, RunRows
  <2>3. QED  BY <2>1, <2>2 DEF ReconcileInterruptedCalls
<1>5. QED
  BY <1>1, <1>2, <1>3, <1>4, StepKinds DEF QuarantineStep, Tick

\* Nothing changes a finished run, its candidates or its calls.
THEOREM FinishedStaysFinal == StoreSpec => FinishedIsFinal
<1>1. ASSUME StoreInv, StoreNext, NEW q \in Runs, runs[q].lifecycle = "finished"
      PROVE  runs'[q] = runs[q]
  <2> USE <1>1 DEF StoreInv
  <2>1. CASE CreateStep
    BY <2>1 DEF CreateStep, CreateRun, StoreTypeOK
  <2>2. ASSUME NEW r \in Runs, OneRunStep(r)
        PROVE  runs'[q] = runs[q]
    BY <2>2 DEF OneRunStep, RunMoves, RunEnds, Unfinished, StoreTypeOK
  <2>3. CASE Tick
    BY <2>3 DEF Tick, StoreTypeOK, RunRows, FinishedRunIsQuiet
  <2>4. QED
    BY <2>1, <2>2, <2>3, StepKinds
    DEF CallMoves, ReconcileStep, ReconcileInterruptedCalls, QuarantineStep
<1>2. StoreInv /\ [StoreNext]_storeVars =>
          [\A r \in Runs : runs[r].lifecycle = "finished" =>
              /\ runs'[r] = runs[r]
              /\ candidates'[r] = candidates[r]
              /\ \A c \in Calls : calls[c].run = r => calls'[c] = calls[c]]_storeVars
  BY <1>1, StandStill
<1>3. QED  BY <1>2, StoreSafety, PTL DEF StoreSpec, FinishedIsFinal

\* Without a current lease the candidates and the calls of a run stand still.
THEOREM LeaseFences == StoreSpec => FencedByLease
<1>1. StoreInv /\ [StoreNext]_storeVars =>
          [\A r \in Runs : runs[r].lease = 0 /\ runs[r].lifecycle # "absent" =>
              /\ candidates'[r] = candidates[r]
              /\ \A c \in Calls : calls[c].run = r => calls'[c] = calls[c]]_storeVars
  BY StandStill
<1>2. QED  BY <1>1, StoreSafety, PTL DEF StoreSpec, FencedByLease

\* After a cancellation request a run can only end as cancelled, and none of
\* its calls enters flight.
THEOREM CancellationIsRespected == StoreSpec => CancellationWins
<1>1. ASSUME StoreInv, StoreNext, NEW q \in Runs, runs[q].lifecycle = "cancelling"
      PROVE  \/ runs'[q].lifecycle = "cancelling"
             \/ runs'[q].lifecycle = "finished" /\ runs'[q].outcome = "cancelled"
  <2> USE <1>1 DEF StoreInv
  <2>1. CASE CreateStep
    BY <2>1 DEF CreateStep, CreateRun, StoreTypeOK
  <2>2. ASSUME NEW r \in Runs, OneRunStep(r)
        PROVE  \/ runs'[q].lifecycle = "cancelling"
               \/ runs'[q].lifecycle = "finished" /\ runs'[q].outcome = "cancelled"
    BY <2>2 DEF OneRunStep, RunMoves, RunEnds, StoreTypeOK
  <2>3. CASE Tick
    BY <2>3 DEF Tick, StoreTypeOK, RunRows
  <2>4. QED
    BY <2>1, <2>2, <2>3, StepKinds
    DEF CallMoves, ReconcileStep, ReconcileInterruptedCalls, QuarantineStep
<1>2. ASSUME StoreInv, StoreNext, NEW q \in Runs, runs[q].lifecycle = "cancelling"
      PROVE  InFlightCalls(q)' \subseteq InFlightCalls(q)
  <2> USE <1>2 DEF StoreInv
  <2>1. ASSUME NEW c \in Calls, CallMoves(c)
        PROVE  InFlightCalls(q)' \subseteq InFlightCalls(q)
    <3>1. \A b \in Calls \ {c} : calls'[b] = calls[b]
      BY <2>1 DEF CallMoves, StoreTypeOK
    <3>2. calls'[c].run = q /\ calls'[c].state \in InFlightStates =>
              calls[c].run = q /\ calls[c].state \in InFlightStates
      BY <2>1 DEF CallMoves, InFlightStates
    <3>3. QED  BY <3>1, <3>2 DEF InFlightCalls
  <2>2. CASE ReconcileStep
    <3>1. \A b \in Calls : /\ calls'[b].run = calls[b].run
                           /\ calls'[b].state \in InFlightStates
                                  => calls[b].state \in InFlightStates
      BY <2>2, InterruptedCall DEF ReconcileStep, ReconcileInterruptedCalls, StoreTypeOK
    <3>2. QED  BY <3>1 DEF InFlightCalls
  <2>3. CASE UNCHANGED calls
    BY <2>3 DEF InFlightCalls
  <2>4. QED
    BY <2>1, <2>2, <2>3, StepKinds
    DEF CreateStep, CreateRun, OneRunStep, QuarantineStep, Tick
<1>3. StoreInv /\ [StoreNext]_storeVars =>
          [\A r \in Runs : runs[r].lifecycle = "cancelling" =>
              /\ \/ runs'[r].lifecycle = "cancelling"
                 \/ runs'[r].lifecycle = "finished" /\ runs'[r].outcome = "cancelled"
              /\ InFlightCalls(r)' \subseteq InFlightCalls(r)]_storeVars
  BY <1>1, <1>2
<1>4. QED  BY <1>3, StoreSafety, PTL DEF StoreSpec, CancellationWins

\* A candidate's result is never replaced.
THEOREM ResultsStayFinal == StoreSpec => ResultsAreFinal
<1>1. ASSUME StoreInv, StoreNext, NEW q \in Runs, NEW b \in Applications,
             candidates[q][b] \in TerminalCandidateStates
      PROVE  candidates'[q][b] = candidates[q][b]
  <2> USE <1>1 DEF StoreInv
  <2>1. CASE CreateStep
    BY <2>1 DEF CreateStep, CreateRun, StoreTypeOK, CandidatesHaveRuns, TerminalCandidateStates
  <2>2. ASSUME NEW r \in Runs, NEW a \in Applications, CandidateMoves(r, a)
        PROVE  candidates'[q][b] = candidates[q][b]
    BY <2>2 DEF CandidateMoves, StoreTypeOK
  <2>3. QED
    BY <2>1, <2>2, StepKinds
    DEF OneRunStep, CallMoves, ReconcileStep, ReconcileInterruptedCalls, QuarantineStep, Tick
<1>2. StoreInv /\ [StoreNext]_storeVars =>
          [\A r \in Runs, a \in Applications :
              candidates[r][a] \in TerminalCandidateStates =>
                  candidates'[r][a] = candidates[r][a]]_storeVars
  BY <1>1
<1>3. QED  BY <1>2, StoreSafety, PTL DEF StoreSpec, ResultsAreFinal

-----------------------------------------------------------------------------
(* The spend of a run                                                      *)

OnRecord(cs) == {c \in Calls : cs[c].state # "absent"}

ChargedTo(cs, r) == {c \in Calls : cs[c].run = r}

Charges(cs) == [c \in Calls |-> Charge(cs[c])]

CommittedBy(cs, r) == SumOf(Charges(cs), ChargedTo(cs, r))

\* The invariant of the spend: what is on record can be added up, and no run
\* has committed more than the ceiling.
SpendInv ==
    /\ IsFiniteSet(OnRecord(calls))
    /\ SpendWithinCeiling

\* The calls of a run are on record, so they are finitely many and each
\* charges a natural number.
LEMMA ChargedCalls ==
    ASSUME NEW cs \in [Calls -> CallRows], IsFiniteSet(OnRecord(cs)),
           \A c \in Calls : cs[c].state = "absent" => cs[c] = NoCall,
           NEW r \in Runs
    PROVE  /\ IsFiniteSet(ChargedTo(cs, r))
           /\ \A c \in Calls : Charges(cs)[c] \in Nat
<1>1. ChargedTo(cs, r) \in SUBSET OnRecord(cs)
  BY StoreAssumption DEF ChargedTo, OnRecord, NoCall
<1>2. \A c \in Calls : Charge(cs[c]) \in Nat
  BY StoreAssumption DEF CallRows, Charge
<1>3. QED  BY <1>1, <1>2, FS_Subset DEF Charges

\* The committed spend is a sum of charges.
LEMMA CommittedIsSum ==
    ASSUME NEW cs, NEW r, IsFiniteSet(ChargedTo(cs, r))
    PROVE  MapThenSumSet(LAMBDA c : Charge(cs[c]), ChargedTo(cs, r)) = CommittedBy(cs, r)
<1> DEFINE S == ChargedTo(cs, r)
           Step(h, s) == IF s = {} THEN 0 ELSE Charge(cs[FirstOf(s)]) + h[s \ {FirstOf(s)}]
           chosen == CHOOSE h : h = [s \in SUBSET S |-> Step(h, s)]
<1>1. MapThenSumSet(LAMBDA c : Charge(cs[c]), S) = chosen[S]
  BY DEF MapThenSumSet, MapThenFoldSet, FirstOf
<1>2. ASSUME NEW s \in SUBSET S, s # {}
      PROVE  Charges(cs)[FirstOf(s)] = Charge(cs[FirstOf(s)])
  <2>1. FirstOf(s) \in s
    BY <1>2 DEF FirstOf
  <2>2. FirstOf(s) \in Calls
    BY <2>1 DEF ChargedTo
  <2>3. QED  BY <2>2 DEF Charges
<1>3. \A h : Sums(h, Charges(cs), SUBSET S) <=> h = [s \in SUBSET S |-> Step(h, s)]
  BY <1>2 DEF Sums
<1>4. \E h : h = [s \in SUBSET S |-> Step(h, s)]
  <2>1. PICK h : Sums(h, Charges(cs), SUBSET S)
    BY SumsExist
  <2>2. h = [s \in SUBSET S |-> Step(h, s)]
    BY <1>3, <2>1
  <2>3. QED  BY <2>2
<1>5. chosen = [s \in SUBSET S |-> Step(chosen, s)]
  <2> HIDE DEF Step, S
  <2>1. QED  BY <1>4, Zenon
<1> HIDE DEF chosen
<1>6. Sums(chosen, Charges(cs), SUBSET S)
  BY <1>3, <1>5
<1>7. chosen[S] = CommittedBy(cs, r)
  BY <1>6, SumIsSolution DEF CommittedBy
<1>8. QED  BY <1>1, <1>7

\* What a call charges, by its state.
LEMMA ChargeByState ==
    ASSUME NEW call
    PROVE  /\ call.state \in ActiveCallStates \cup {"indeterminate"} =>
                  Charge(call) = call.reservation
           /\ call.state = "settled" => Charge(call) = call.cost
           /\ call.state = "released" => Charge(call) = 0
<1>1. ~ ("settled" \in ActiveCallStates \cup {"indeterminate"})
      /\ ~ ("released" \in ActiveCallStates \cup {"indeterminate"})
  BY DEF ActiveCallStates, InFlightStates
<1>2. QED  BY <1>1 DEF Charge

\* One call on its way is written: it stays charged to its run, as much as it
\* was while it is undecided, and no more than it was once it is decided.
ChargeFalls(c) ==
    /\ calls[c].state \in ActiveCallStates
    /\ calls' = [calls EXCEPT ![c] = calls'[c]]
    /\ calls'[c].run = calls[c].run
    /\ calls'[c].state # "absent"
    /\ Charge(calls'[c]) <= Charge(calls[c])
    /\ calls'[c].state \in ActiveCallStates => Charge(calls'[c]) = Charge(calls[c])

\* A call is reserved that the committed spend leaves room for.
ReserveStep(c, r, amount) ==
    /\ calls[c].state = "absent"
    /\ calls' = [calls EXCEPT ![c] = calls'[c]]
    /\ calls'[c].state = "reserved" /\ calls'[c].run = r
    /\ Charge(calls'[c]) = amount
    /\ Committed(r) + amount <= Ceiling

\* reserve_provider_call.
LEMMA ReserveCharges ==
    ASSUME StoreTypeOK, NEW r \in Runs, NEW a \in Applications, NEW w \in Workers,
           NEW c \in Calls, NEW amount \in Reservations, ReserveProviderCall(c, r, a, w, amount)
    PROVE  ReserveStep(c, r, amount)
<1> DEFINE row == [NoCall EXCEPT !.state = "reserved", !.run = r,
                                 !.application = a, !.reservation = amount]
<1>1. calls' = [calls EXCEPT ![c] = row] /\ calls[c].state = "absent"
      /\ Committed(r) + amount <= Ceiling
  BY DEF ReserveProviderCall, Fits
<1>2. row.state = "reserved" /\ row.run = r /\ row.reservation = amount
  BY DEF NoCall
<1> HIDE DEF row
<1>3. Charge(row) = amount
  BY <1>2 DEF Charge, ActiveCallStates
<1>4. calls'[c] = row
  BY <1>1 DEF StoreTypeOK
<1>5. QED  BY <1>1, <1>2, <1>3, <1>4 DEF ReserveStep

\* Every later transition of a call.
LEMMA TransitionCharges ==
    ASSUME StoreTypeOK, NEW w \in Workers, NEW c \in Calls, CallStep(c, w)
    PROVE  ChargeFalls(c)
<1>1. calls[c] \in CallRows /\ DOMAIN calls = Calls
  BY DEF StoreTypeOK
<1>2. calls[c].reservation \in Nat
  <2> DEFINE held == calls[c].reservation
  <2>1. \A amount \in Reservations \cup {0} : amount \in Nat
    BY StoreAssumption
  <2>2. held \in Reservations \cup {0}
    BY <1>1 DEF CallRows
  <2> HIDE DEF held
  <2>3. held \in Nat
    BY <2>1, <2>2
  <2>4. QED  BY <2>3 DEF held
<1>3. ASSUME NEW row, calls' = [calls EXCEPT ![c] = row],
             calls[c].state \in ActiveCallStates,
             row.run = calls[c].run, row.reservation = calls[c].reservation,
             \/ row.state \in ActiveCallStates \cup {"indeterminate", "released"}
             \/ row.state = "settled" /\ row.cost \in 0..calls[c].reservation
      PROVE  ChargeFalls(c)
  <2>1. calls'[c] = row
    BY <1>1, <1>3
  <2>2. Charge(calls[c]) = calls[c].reservation
    BY <1>3, ChargeByState
  <2>3. row.state # "absent" /\ ~ ("settled" \in ActiveCallStates)
        /\ ~ ("released" \in ActiveCallStates)
    BY <1>3 DEF ActiveCallStates, InFlightStates
  <2>4. /\ Charge(row) <= calls[c].reservation
        /\ row.state \in ActiveCallStates => Charge(row) = calls[c].reservation
    <3>1. CASE row.state \in ActiveCallStates \cup {"indeterminate"}
      BY <1>2, <1>3, <3>1, ChargeByState
    <3>2. CASE row.state = "released"
      BY <1>2, <2>3, <3>2, ChargeByState
    <3>3. CASE row.state = "settled" /\ row.cost \in 0..calls[c].reservation
      BY <1>2, <2>3, <3>3, ChargeByState
    <3>4. QED  BY <1>3, <3>1, <3>2, <3>3
  <2>5. calls' = [calls EXCEPT ![c] = calls'[c]]
    BY <1>3, <2>1
  <2>6. calls[c].state \in ActiveCallStates /\ row.run = calls[c].run
    BY <1>3
  <2>7. QED  BY <2>1, <2>2, <2>3, <2>4, <2>5, <2>6, Zenon DEF ChargeFalls
<1> USE <1>1 DEF CallRows, ActiveCallStates, InFlightStates
<1>4. CASE BeginProviderDispatch(c, w)
  <2> DEFINE row == [calls[c] EXCEPT !.state = "dispatching",
                                     !.slot = NextSlot(calls[c].run, calls[c].application)]
  <2>1. calls' = [calls EXCEPT ![c] = row] /\ calls[c].state = "reserved"
    BY <1>4 DEF BeginProviderDispatch
  <2>2. row.run = calls[c].run /\ row.reservation = calls[c].reservation
        /\ row.state = "dispatching"
    OBVIOUS
  <2>3. QED  BY <1>3, <2>1, <2>2
<1>5. CASE ReleaseProviderCall(c, w)
  <2> DEFINE row == [calls[c] EXCEPT !.state = "released", !.slot = 0]
  <2>1. calls' = [calls EXCEPT ![c] = row] /\ calls[c].state \in {"reserved", "dispatching"}
    BY <1>5 DEF ReleaseProviderCall
  <2>2. row.run = calls[c].run /\ row.reservation = calls[c].reservation
        /\ row.state = "released"
    OBVIOUS
  <2>3. QED  BY <1>3, <2>1, <2>2
<1>6. CASE MarkSent(c, w)
  <2> DEFINE row == [calls[c] EXCEPT !.state = "sent"]
  <2>1. calls' = [calls EXCEPT ![c] = row] /\ calls[c].state = "dispatching"
    BY <1>6 DEF MarkSent
  <2>2. row.run = calls[c].run /\ row.reservation = calls[c].reservation
        /\ row.state = "sent"
    OBVIOUS
  <2>3. QED  BY <1>3, <2>1, <2>2
<1>7. ASSUME NEW result \in Results, RecordProviderCallResponse(c, w, result)
      PROVE  ChargeFalls(c)
  <2> DEFINE row == [calls[c] EXCEPT !.state = "response_recorded", !.result = result]
  <2>1. calls' = [calls EXCEPT ![c] = row] /\ calls[c].state \in {"dispatching", "sent"}
    BY <1>7 DEF RecordProviderCallResponse
  <2>2. row.run = calls[c].run /\ row.reservation = calls[c].reservation
        /\ row.state = "response_recorded"
    OBVIOUS
  <2>3. QED  BY <1>3, <2>1, <2>2
<1>8. ASSUME NEW result \in Results \cup {"none"}, NEW cost \in 0..Ceiling,
             SettleProviderCall(c, w, cost, result)
      PROVE  ChargeFalls(c)
  <2> DEFINE kept == IF result = "none" THEN calls[c].result ELSE result
             row == [calls[c] EXCEPT !.state = "settled", !.cost = cost, !.result = kept]
  <2>1. calls' = [calls EXCEPT ![c] = row] /\ calls[c].state = "response_recorded"
        /\ cost \in 0..calls[c].reservation
    BY <1>8 DEF SettleProviderCall, Settleable
  <2>2. row.run = calls[c].run /\ row.reservation = calls[c].reservation
        /\ row.state = "settled" /\ row.cost = cost
    OBVIOUS
  <2> HIDE DEF row
  <2>3. QED  BY <1>3, <2>1, <2>2
<1>9. ASSUME NEW result \in Results \cup {"none"}, MarkIndeterminate(c, w, result)
      PROVE  ChargeFalls(c)
  <2> DEFINE kept == IF result = "none" THEN calls[c].result ELSE result
             row == [calls[c] EXCEPT !.state = "indeterminate", !.result = kept]
  <2>1. calls' = [calls EXCEPT ![c] = row]
        /\ calls[c].state \in {"dispatching", "sent", "response_recorded"}
    BY <1>9 DEF MarkIndeterminate
  <2>2. row.run = calls[c].run /\ row.reservation = calls[c].reservation
        /\ row.state = "indeterminate"
    OBVIOUS
  <2> HIDE DEF row
  <2>3. QED  BY <1>3, <2>1, <2>2
<1>10. QED  BY <1>4, <1>5, <1>6, <1>7, <1>8, <1>9 DEF CallStep

\* What reconcile_interrupted_provider_calls makes of the charge of one call.
LEMMA InterruptedCharge ==
    ASSUME NEW call \in CallRows
    PROVE  /\ Charge(Interrupted(call)) <= Charge(call)
           /\ Interrupted(call).state \in ActiveCallStates => Interrupted(call) = call
           /\ Interrupted(call) # call => call.state \in ActiveCallStates
  BY StoreAssumption
  DEF Interrupted, Charge, CallRows, CallStates, ActiveCallStates, InFlightStates

\* What a step does to the calls table.
LEMMA SpendKinds ==
    ASSUME StoreTypeOK, StoreNext
    PROVE  \/ UNCHANGED calls
           \/ \E c \in Calls, r \in Runs, amount \in Reservations : ReserveStep(c, r, amount)
           \/ \E c \in Calls : ChargeFalls(c)
           \/ ReconcileStep
<1>1. ASSUME NEW r \in Runs, NEW w \in Workers, RunStep(r, w)
      PROVE  UNCHANGED calls \/ ReconcileStep
  BY <1>1
  DEF RunStep, ClaimRecoverableRun, StartRun, RenewLease, RelinquishLease,
      ClaimNextCandidate, RecordRunReason, FinishRun, ReconcileStep
<1>2. ASSUME NEW r \in Runs, NEW a \in Applications, NEW w \in Workers, CandidateStep(r, a, w)
      PROVE  \/ UNCHANGED calls
             \/ \E c \in Calls, amount \in Reservations : ReserveStep(c, r, amount)
  BY <1>2, ReserveCharges
  DEF CandidateStep, RecordCandidateResult, RecordResultAndStop, QuarantineCommitUnknown
<1>3. ASSUME NEW c \in Calls, NEW w \in Workers, CallStep(c, w)
      PROVE  ChargeFalls(c)
  BY <1>3, TransitionCharges
<1>4. CASE \E r \in Runs, key \in Keys, target \in Targets, queue \in Queues,
              truncated \in BOOLEAN : CreateRun(r, key, target, queue, truncated)
  BY <1>4 DEF CreateRun
<1>5. CASE \/ \E r \in Runs : RequestCancellation(r)
           \/ \E a \in Applications : ClearCommitQuarantine(a)
           \/ Tick
  BY <1>5 DEF RequestCancellation, ClearCommitQuarantine, Tick
<1>6. QED  BY <1>1, <1>2, <1>3, <1>4, <1>5 DEF StoreNext

\* Where every call of a table charges no more than it did, so does every run.
LEMMA SpendFalls ==
    ASSUME NEW cs, NEW ds, NEW r, IsFiniteSet(ChargedTo(cs, r)),
           \A c \in Calls : Charges(cs)[c] \in Nat /\ Charges(ds)[c] \in Nat,
           \A c \in Calls : ds[c].run = cs[c].run /\ Charge(ds[c]) <= Charge(cs[c])
    PROVE  CommittedBy(ds, r) <= CommittedBy(cs, r)
<1>1. ChargedTo(ds, r) = ChargedTo(cs, r)
  BY DEF ChargedTo
<1>2. \A c \in ChargedTo(cs, r) :
          /\ Charges(ds)[c] \in Nat /\ Charges(cs)[c] \in Nat
          /\ Charges(ds)[c] <= Charges(cs)[c]
  BY DEF ChargedTo, Charges
<1>3. SumOf(Charges(ds), ChargedTo(cs, r)) <= SumOf(Charges(cs), ChargedTo(cs, r))
  BY <1>2, SumGrows
<1>4. QED  BY <1>1, <1>3 DEF CommittedBy

\* The committed spend of a run, in the states before and after a step.
LEMMA CommittedSum ==
    ASSUME StoreTypeOK, CallsHaveRuns, SpendInv, NEW r \in Runs
    PROVE  /\ Committed(r) = CommittedBy(calls, r)
           /\ IsFiniteSet(ChargedTo(calls, r))
           /\ \A c \in Calls : Charges(calls)[c] \in Nat
           /\ CommittedBy(calls, r) \in Nat
<1>1. IsFiniteSet(ChargedTo(calls, r)) /\ \A c \in Calls : Charges(calls)[c] \in Nat
  BY ChargedCalls DEF StoreTypeOK, CallsHaveRuns, SpendInv
<1>2. MapThenSumSet(LAMBDA c : Charge(calls[c]), ChargedTo(calls, r)) = CommittedBy(calls, r)
  BY <1>1, CommittedIsSum
<1>3. Committed(r) = MapThenSumSet(LAMBDA c : Charge(calls[c]), ChargedTo(calls, r))
  BY DEF Committed, ChargedTo, MapThenSumSet, MapThenFoldSet
<1>4. CommittedBy(calls, r) \in Nat
  BY <1>1, SumIsNat DEF CommittedBy, ChargedTo
<1>5. QED  BY <1>1, <1>2, <1>3, <1>4

\* The same in the state after a step.
LEMMA CommittedNext ==
    ASSUME NEW r, IsFiniteSet(ChargedTo(calls', r))
    PROVE  Committed(r)' = CommittedBy(calls', r)
<1>1. MapThenSumSet(LAMBDA c : Charge(calls'[c]), ChargedTo(calls', r))
          = CommittedBy(calls', r)
  BY CommittedIsSum
<1>2. Committed(r)' = MapThenSumSet(LAMBDA c : Charge(calls'[c]), ChargedTo(calls', r))
  BY DEF Committed, ChargedTo, MapThenSumSet, MapThenFoldSet
<1>3. QED  BY <1>1, <1>2

\* No single call charges more than the ceiling.
ChargesInRange == \A c \in Calls : Charge(calls[c]) \in 0..Ceiling

LEMMA ChargesFit == StoreInv /\ SpendInv => ChargesInRange
<1> SUFFICES ASSUME StoreTypeOK, CallsHaveRuns, SpendInv, NEW c \in Calls
             PROVE  Charge(calls[c]) \in 0..Ceiling
  BY DEF StoreInv, ChargesInRange
<1>1. Ceiling \in Nat
  BY StoreAssumption
<1>2. CASE calls[c].state = "absent"
  <2>1. calls[c].state \notin ActiveCallStates \cup {"indeterminate", "settled"}
    BY <1>2 DEF ActiveCallStates, InFlightStates
  <2>2. Charge(calls[c]) = 0
    BY <2>1 DEF Charge
  <2>3. QED  BY <1>1, <2>2
<1>3. CASE calls[c].state # "absent"
  <2> DEFINE r == calls[c].run
  <2>1. r \in Runs /\ c \in ChargedTo(calls, r)
    BY <1>3 DEF CallsHaveRuns, ChargedTo
  <2> HIDE DEF r
  <2>2. /\ Committed(r) = CommittedBy(calls, r)
        /\ IsFiniteSet(ChargedTo(calls, r))
        /\ \A d \in Calls : Charges(calls)[d] \in Nat
        /\ CommittedBy(calls, r) \in Nat
    BY <2>1, CommittedSum
  <2>3. \A d \in ChargedTo(calls, r) : Charges(calls)[d] \in Nat
    BY <2>2 DEF ChargedTo
  <2>4. Charges(calls)[c] <= CommittedBy(calls, r)
    BY <2>1, <2>2, <2>3, SumBounds DEF CommittedBy
  <2>5. Committed(r) <= Ceiling
    BY <2>1 DEF SpendInv, SpendWithinCeiling
  <2>6. Charges(calls)[c] = Charge(calls[c])
    BY DEF Charges
  <2>7. Charges(calls)[c] \in Nat
    BY <2>2
  <2>8. QED  BY <1>1, <2>2, <2>4, <2>5, <2>6, <2>7
<1>4. QED  BY <1>2, <1>3

\* What is on record stays finite: a step writes one call, or only calls that
\* are on record.
LEMMA OnRecordStep ==
    StoreTypeOK /\ CallsHaveRuns /\ SpendInv /\ StoreNext => IsFiniteSet(OnRecord(calls'))
<1> SUFFICES ASSUME StoreTypeOK, CallsHaveRuns, SpendInv, StoreNext
             PROVE  IsFiniteSet(OnRecord(calls'))
  OBVIOUS
<1>1. IsFiniteSet(OnRecord(calls))
  BY DEF SpendInv
<1>2. ASSUME NEW c \in Calls, calls' = [calls EXCEPT ![c] = calls'[c]]
      PROVE  IsFiniteSet(OnRecord(calls'))
  <2>1. OnRecord(calls') \in SUBSET (OnRecord(calls) \cup {c})
    BY <1>2 DEF OnRecord, StoreTypeOK
  <2>2. IsFiniteSet(OnRecord(calls) \cup {c})
    BY <1>1, FS_AddElement
  <2>3. QED  BY <2>1, <2>2, FS_Subset
<1>3. CASE ReconcileStep
  <2>1. OnRecord(calls') = OnRecord(calls)
    BY <1>3, InterruptedCall
    DEF ReconcileStep, ReconcileInterruptedCalls, OnRecord, StoreTypeOK
  <2>2. QED  BY <1>1, <2>1
<1>4. CASE UNCHANGED calls
  BY <1>1, <1>4
<1>5. QED
  BY <1>2, <1>3, <1>4, SpendKinds DEF ReserveStep, ChargeFalls

\* A reservation adds to the spend of its run what the ceiling leaves room for,
\* and every other write leaves it or takes from it.
LEMMA SpendStep ==
    StoreTypeOK /\ CallsHaveRuns /\ SpendInv /\ StoreNext => SpendInv'
<1> SUFFICES ASSUME StoreTypeOK, CallsHaveRuns, SpendInv, StoreNext PROVE SpendInv'
  OBVIOUS
<1>1. StoreTypeOK' /\ CallsHaveRuns' /\ IsFiniteSet(OnRecord(calls'))
  BY TypeStep, CallsHaveRunsStep, OnRecordStep
<1>2. \A c \in Calls : Charges(calls)[c] \in Nat /\ Charges(calls')[c] \in Nat
  <2>1. \A c \in Calls : Charge(calls[c]) \in Nat /\ Charge(calls'[c]) \in Nat
    BY <1>1, StoreAssumption DEF StoreTypeOK, CallRows, Charge
  <2>2. QED  BY <2>1 DEF Charges
<1>3. SUFFICES ASSUME NEW r \in Runs PROVE Committed(r)' <= Ceiling
  BY <1>1 DEF SpendInv, SpendWithinCeiling
<1>4. /\ Committed(r) = CommittedBy(calls, r)
      /\ IsFiniteSet(ChargedTo(calls, r))
      /\ CommittedBy(calls, r) \in Nat
      /\ Committed(r) <= Ceiling
  BY CommittedSum DEF SpendInv, SpendWithinCeiling
<1>5. IsFiniteSet(ChargedTo(calls', r))
  BY <1>1, ChargedCalls DEF StoreTypeOK, CallsHaveRuns
<1>6. Committed(r)' = CommittedBy(calls', r)
  BY <1>5, CommittedNext
<1>7. CommittedBy(calls', r) \in Nat /\ Ceiling \in Nat
  BY <1>2, <1>5, SumIsNat, StoreAssumption DEF CommittedBy, ChargedTo
<1>8. ASSUME \A c \in Calls : calls'[c].run = calls[c].run /\ Charge(calls'[c]) <= Charge(calls[c])
      PROVE  Committed(r)' <= Ceiling
  <2>1. CommittedBy(calls', r) <= CommittedBy(calls, r)
    BY <1>2, <1>4, <1>8, SpendFalls
  <2>2. QED  BY <1>4, <1>6, <1>7, <2>1
<1>9. CASE UNCHANGED calls
  BY <1>4, <1>6, <1>9
<1>10. ASSUME NEW c \in Calls, ChargeFalls(c)
       PROVE  Committed(r)' <= Ceiling
  <2>1. \A d \in Calls \ {c} : calls'[d] = calls[d]
    BY <1>10 DEF ChargeFalls, StoreTypeOK
  <2>2. \A d \in Calls : Charge(calls[d]) \in Nat
    BY <1>2 DEF Charges
  <2>3. \A d \in Calls : calls'[d].run = calls[d].run /\ Charge(calls'[d]) <= Charge(calls[d])
    BY <1>10, <2>1, <2>2 DEF ChargeFalls
  <2>4. QED  BY <1>8, <2>3
<1>11. CASE ReconcileStep
  <2>1. \A d \in Calls : Charge(calls[d]) \in Nat
    BY <1>2 DEF Charges
  <2>2. \A d \in Calls : calls'[d] = calls[d] \/ calls'[d] = Interrupted(calls[d])
    BY <1>11 DEF ReconcileStep, ReconcileInterruptedCalls
  <2>3. \A d \in Calls : calls'[d].run = calls[d].run /\ Charge(calls'[d]) <= Charge(calls[d])
    BY <2>1, <2>2, InterruptedCall, InterruptedCharge DEF StoreTypeOK
  <2>4. QED  BY <1>8, <2>3
<1>12. ASSUME NEW c \in Calls, NEW q \in Runs, NEW amount \in Reservations,
              ReserveStep(c, q, amount)
       PROVE  Committed(r)' <= Ceiling
  <2>1. \A d \in Calls \ {c} : calls'[d] = calls[d]
    BY <1>12 DEF ReserveStep, StoreTypeOK
  <2>2. calls[c].run = "absent" /\ "absent" \notin Runs
    BY <1>12, StoreAssumption DEF ReserveStep, CallsHaveRuns, NoCall
  <2>3. c \notin ChargedTo(calls, r)
    BY <2>2 DEF ChargedTo
  <2>4. SumOf(Charges(calls'), ChargedTo(calls, r)) = CommittedBy(calls, r)
    <3>1. \A d \in ChargedTo(calls, r) : Charges(calls')[d] = Charges(calls)[d]
      BY <2>1, <2>3 DEF ChargedTo, Charges
    <3>2. QED  BY <1>4, <3>1, SumAgrees DEF CommittedBy
  <2>5. CASE q # r
    <3>1. ChargedTo(calls', r) = ChargedTo(calls, r)
      BY <1>12, <2>1, <2>2, <2>5 DEF ReserveStep, ChargedTo
    <3>2. QED  BY <1>4, <1>6, <2>4, <3>1 DEF CommittedBy
  <2>6. CASE q = r
    <3>1. ChargedTo(calls', r) = ChargedTo(calls, r) \cup {c}
      BY <1>12, <2>1, <2>6 DEF ReserveStep, ChargedTo
    <3>2. Charges(calls')[c] = amount
      BY <1>12 DEF Charges, ReserveStep
    <3>3. \A d \in ChargedTo(calls, r) \cup {c} : Charges(calls')[d] \in Nat
      BY <1>2 DEF ChargedTo
    <3>4. CommittedBy(calls', r) = amount + CommittedBy(calls, r)
      <4>1. SumOf(Charges(calls'), ChargedTo(calls, r) \cup {c})
                = Charges(calls')[c] + SumOf(Charges(calls'), ChargedTo(calls, r))
        BY <1>4, <2>3, <3>3, SumAdds
      <4>2. QED  BY <2>4, <3>1, <3>2, <4>1 DEF CommittedBy
    <3>5. Committed(r) + amount <= Ceiling
      BY <1>12, <2>6 DEF ReserveStep
    <3>6. amount \in Nat
      BY StoreAssumption
    <3>7. QED  BY <1>4, <1>6, <3>4, <3>5, <3>6
  <2>7. QED  BY <2>5, <2>6
<1>13. QED  BY <1>9, <1>10, <1>11, <1>12, SpendKinds

\* No spend is on record at first.
LEMMA SpendInit == StoreInit => SpendInv
<1> SUFFICES ASSUME StoreInit PROVE SpendInv
  OBVIOUS
<1>1. OnRecord(calls) = {}
  BY DEF StoreInit, OnRecord, NoCall
<1>2. ASSUME NEW r \in Runs
      PROVE  Committed(r) <= Ceiling
  <2>1. ChargedTo(calls, r) = {}
    BY StoreAssumption DEF StoreInit, ChargedTo, NoCall
  <2>2. Committed(r) = MapThenSumSet(LAMBDA c : Charge(calls[c]), ChargedTo(calls, r))
    BY DEF Committed, ChargedTo, MapThenSumSet, MapThenFoldSet
  <2>3. IsFiniteSet(ChargedTo(calls, r))
    BY <2>1, FS_EmptySet
  <2>4. Committed(r) = CommittedBy(calls, r)
    BY <2>2, <2>3, CommittedIsSum
  <2>5. CommittedBy(calls, r) = 0
    BY <2>1, SumEmpty DEF CommittedBy
  <2>6. QED  BY <2>4, <2>5, StoreAssumption
<1>3. QED  BY <1>1, <1>2, FS_EmptySet DEF SpendInv, SpendWithinCeiling

\* Every step of the store keeps the invariant of the spend.
LEMMA SpendInvStep == StoreInv /\ SpendInv /\ [StoreNext]_storeVars => SpendInv'
<1> SUFFICES ASSUME StoreInv, SpendInv, [StoreNext]_storeVars PROVE SpendInv'
  OBVIOUS
<1>1. CASE UNCHANGED storeVars
  <2>1. calls' = calls
    BY <1>1 DEF storeVars
  <2>2. IsFiniteSet(OnRecord(calls'))
    BY <2>1 DEF SpendInv
  <2>3. ASSUME NEW r \in Runs PROVE Committed(r)' <= Ceiling
    <3>1. /\ Committed(r) = CommittedBy(calls, r)
          /\ IsFiniteSet(ChargedTo(calls, r))
      BY CommittedSum DEF StoreInv
    <3>2. Committed(r)' = CommittedBy(calls', r)
      BY <2>1, <3>1, CommittedNext
    <3>3. QED  BY <2>1, <3>1, <3>2 DEF SpendInv, SpendWithinCeiling
  <2>4. QED  BY <2>2, <2>3 DEF SpendInv, SpendWithinCeiling
<1>2. CASE StoreNext
  BY <1>2, SpendStep DEF StoreInv
<1>3. QED  BY <1>1, <1>2

\* The invariant of the spend is one.
LEMMA SpendSafety == StoreSpec => []SpendInv
<1>1. QED  BY SpendInit, SpendInvStep, StoreSafety, PTL DEF StoreSpec

\* The committed spend of a run never passes the ceiling, for any number of
\* calls, reserved, decided and interrupted in any order.
THEOREM SpendStaysWithinCeiling == StoreSpec => []SpendWithinCeiling
<1>1. SpendInv => SpendWithinCeiling
  BY DEF SpendInv
<1>2. QED  BY <1>1, SpendSafety, PTL

-----------------------------------------------------------------------------
(* The calls table keeps a spend ledger                                    *)

\* What the abstract ledger calls the total of an account.
LEMMA LedgerTotal ==
    ASSUME NEW r
    PROVE  Ledger!Total(r) = CommittedBy(calls, r)
<1>1. {h \in Calls : [c \in Calls |-> calls[c].run][h] = r} = ChargedTo(calls, r)
  BY DEF ChargedTo
<1>2. Ledger!Total(r)
          = SumOf(Charges(calls), {h \in Calls : [c \in Calls |-> calls[c].run][h] = r})
  BY DEF Ledger!Total, Ledger!MapThenSumSet, Ledger!MapThenFoldSet,
         SumOf, Charges, MapThenSumSet, MapThenFoldSet
<1>3. QED  BY <1>1, <1>2 DEF CommittedBy

\* A reservation is a hold on the account of its run.
LEMMA ReserveHolds ==
    ASSUME StoreInv, SpendInv, NEW c \in Calls, NEW r \in Runs,
           NEW amount \in Reservations, ReserveStep(c, r, amount)
    PROVE  amount \in 1..Ceiling /\ Ledger!Hold(c, r, amount)
<1>1. \A d \in Calls \ {c} : calls'[d] = calls[d]
  BY DEF ReserveStep, StoreInv, StoreTypeOK
<1>2. calls[c] = NoCall
  BY DEF ReserveStep, StoreInv, CallsHaveRuns
<1>3. Committed(r) = CommittedBy(calls, r) /\ CommittedBy(calls, r) \in Nat
  BY CommittedSum DEF StoreInv
<1>4. Committed(r) + amount <= Ceiling
  BY DEF ReserveStep
<1>5. amount \in Nat /\ amount # 0 /\ Ceiling \in Nat
  BY StoreAssumption
<1>6. amount \in 1..Ceiling
  BY <1>3, <1>4, <1>5
<1>7. Ledger!Total(r) + amount <= Ceiling
  BY <1>3, <1>4, LedgerTotal
<1>8. [d \in Calls |-> calls[d].run][c] = "absent"
  BY <1>2 DEF NoCall
<1>9. [d \in Calls |-> calls'[d].run] = [[d \in Calls |-> calls[d].run] EXCEPT ![c] = r]
  BY <1>1 DEF ReserveStep
<1>10. [d \in Calls |-> Charge(calls'[d])]
           = [[d \in Calls |-> Charge(calls[d])] EXCEPT ![c] = amount]
  BY <1>1 DEF ReserveStep
<1>11. {d \in Calls : calls'[d].state \in ActiveCallStates}
           = {d \in Calls : calls[d].state \in ActiveCallStates} \cup {c}
  BY <1>1 DEF ReserveStep, ActiveCallStates
<1>12. QED  BY <1>6, <1>7, <1>8, <1>9, <1>10, <1>11 DEF Ledger!Hold

\* Where a step leaves every call with its run, and every call that stays
\* undecided or was decided with its charge, calls are resolved or nothing is.
LEMMA DecisionsResolve ==
    ASSUME ChargesInRange',
           \A d \in Calls :
              /\ calls'[d].run = calls[d].run
              /\ Charge(calls'[d]) <= Charge(calls[d])
              /\ calls'[d].state \in ActiveCallStates => calls[d].state \in ActiveCallStates
              /\ (calls[d].state \in ActiveCallStates /\ calls'[d].state \notin ActiveCallStates)
                 \/ Charge(calls'[d]) = Charge(calls[d])
    PROVE  [Ledger!LedgerNext]_(Ledger!ledgerVars)
<1>0. PICK S : S = {d \in Calls : /\ calls[d].state \in ActiveCallStates
                                  /\ calls'[d].state \notin ActiveCallStates}
  OBVIOUS
<1> DEFINE old == {d \in Calls : calls[d].state \in ActiveCallStates}
           new == {d \in Calls : calls'[d].state \in ActiveCallStates}
           charge == [d \in Calls |-> Charge(calls[d])]
           charged == [d \in Calls |-> Charge(calls'[d])]
<1>1. new = old \ S /\ S \subseteq old
  BY <1>0
<1>2. [d \in Calls |-> calls'[d].run] = [d \in Calls |-> calls[d].run]
  OBVIOUS
<1>3. \A d \in S : charged[d] <= charge[d]
  BY <1>0
<1>4. \A d \in Calls \ S : charged[d] = charge[d]
  BY <1>0
<1>5. charged \in [Calls -> 0..Ceiling]
  <2>1. \A d \in Calls : Charge(calls'[d]) \in 0..Ceiling
    BY DEF ChargesInRange
  <2>2. QED  BY <2>1
<1>6. CASE S = {}
  <2>1. new = old /\ charged = charge
    BY <1>1, <1>4, <1>6
  <2>2. QED  BY <1>2, <2>1 DEF Ledger!ledgerVars
<1>7. CASE S # {}
  <2>1. Ledger!Resolve(S)
    BY <1>1, <1>2, <1>3, <1>4, <1>5 DEF Ledger!Resolve
  <2>2. \E T \in SUBSET old : T # {} /\ Ledger!Resolve(T)
    <3>1. S \in SUBSET old
      BY <1>1
    <3> HIDE DEF old
    <3>2. QED  BY <1>7, <2>1, <3>1, Zenon
  <2>3. Ledger!LedgerNext
    BY <2>2, Zenon DEF Ledger!LedgerNext
  <2>4. QED  BY <2>3
<1>8. QED  BY <1>6, <1>7

\* A step of the store is a step of the ledger or none.
LEMMA LedgerStep ==
    StoreInv /\ SpendInv /\ ChargesInRange' /\ [StoreNext]_storeVars
        => [Ledger!LedgerNext]_(Ledger!ledgerVars)
<1> SUFFICES ASSUME StoreInv, SpendInv, ChargesInRange', [StoreNext]_storeVars
             PROVE  [Ledger!LedgerNext]_(Ledger!ledgerVars)
  OBVIOUS
<1>1. CASE UNCHANGED calls
  BY <1>1 DEF Ledger!ledgerVars
<1>2. ASSUME NEW c \in Calls, NEW r \in Runs, NEW amount \in Reservations,
             ReserveStep(c, r, amount)
      PROVE  Ledger!LedgerNext
  BY <1>2, ReserveHolds DEF Ledger!LedgerNext
<1>3. \A c \in Calls : Charge(calls[c]) \in Nat
  BY CommittedSum, StoreAssumption DEF StoreInv, StoreTypeOK, CallRows, Charge
<1>4. ASSUME NEW c \in Calls, ChargeFalls(c)
      PROVE  [Ledger!LedgerNext]_(Ledger!ledgerVars)
  <2>1. \A d \in Calls \ {c} : calls'[d] = calls[d]
    BY <1>4 DEF ChargeFalls, StoreInv, StoreTypeOK
  <2>2. \A d \in Calls :
            /\ calls'[d].run = calls[d].run
            /\ Charge(calls'[d]) <= Charge(calls[d])
            /\ calls'[d].state \in ActiveCallStates => calls[d].state \in ActiveCallStates
            /\ (calls[d].state \in ActiveCallStates /\ calls'[d].state \notin ActiveCallStates)
               \/ Charge(calls'[d]) = Charge(calls[d])
    BY <1>3, <1>4, <2>1 DEF ChargeFalls
  <2>3. QED  BY <2>2, DecisionsResolve
<1>5. CASE ReconcileStep
  <2>1. \A d \in Calls : calls'[d] = calls[d] \/ calls'[d] = Interrupted(calls[d])
    BY <1>5 DEF ReconcileStep, ReconcileInterruptedCalls
  <2>2. \A d \in Calls :
            /\ calls'[d].run = calls[d].run
            /\ Charge(calls'[d]) <= Charge(calls[d])
            /\ calls'[d].state \in ActiveCallStates => calls'[d] = calls[d]
            /\ calls'[d] # calls[d] => calls[d].state \in ActiveCallStates
    BY <1>3, <2>1, InterruptedCall, InterruptedCharge DEF StoreInv, StoreTypeOK
  <2>3. \A d \in Calls :
            (calls[d].state \in ActiveCallStates /\ calls'[d].state \notin ActiveCallStates)
            \/ Charge(calls'[d]) = Charge(calls[d])
    BY <2>2
  <2>4. QED  BY <2>2, <2>3, DecisionsResolve
<1>6. QED
  BY <1>1, <1>2, <1>4, <1>5, SpendKinds DEF StoreInv, storeVars

\* The calls table keeps a spend ledger: a call is charged its worst case
\* before it goes out and only within the ceiling, from then on its charge
\* only falls, and once it is decided it is final.
THEOREM StoreKeepsLedger == StoreSpec => KeepsSpendLedger
<1>1. StoreInit => Ledger!LedgerInit
  BY DEF StoreInit, Ledger!LedgerInit, NoCall, Charge, ActiveCallStates, InFlightStates
<1>2. StoreInv /\ SpendInv /\ ChargesInRange' /\ [StoreNext]_storeVars
          => [Ledger!LedgerNext]_(Ledger!ledgerVars)
  BY LedgerStep
<1>3. QED
  BY <1>1, <1>2, ChargesFit, StoreSafety, SpendSafety, PTL
  DEF StoreSpec, KeepsSpendLedger, Ledger!LedgerSpec

-----------------------------------------------------------------------------
(* The order of transmissions                                              *)

\* Two calls of one candidate.
OfOneCandidate(cs, c, d) == cs[c].run = cs[d].run /\ cs[c].application = cs[d].application

\* A call holds an index from its dispatch on, unless it is released; only a
\* candidate that was claimed is called for.
IndexedOnceSent(cs, cands) ==
    \A c \in Calls :
        /\ cs[c].slot = 0 <=> cs[c].state \in {"absent", "reserved", "released"}
        /\ cs[c].slot # 0 => cands[cs[c].run][cs[c].application] \notin {"absent", "pending"}

\* There is no gap below an index in use.
WithoutGaps(cs) ==
    \A c \in Calls : \A i \in 1..(cs[c].slot - 1) :
        \E d \in Calls : OfOneCandidate(cs, c, d) /\ cs[d].slot = i

\* The call in flight has the greatest index of its candidate.
LastInFlight(cs) ==
    \A c \in Calls : cs[c].state \in InFlightStates =>
        \A d \in Calls \ {c} : OfOneCandidate(cs, c, d) => cs[d].slot < cs[c].slot

\* The transmissions of a candidate are numbered in the order they were made.
TransmissionsInOrder ==
    /\ IndexedOnceSent(calls, candidates)
    /\ WithoutGaps(calls)
    /\ LastInFlight(calls)

\* What may happen to a call: it is reserved; it is dispatched; it is given
\* back; or, in flight, it is decided or comes nearer to it.
Reserved(c) ==
    /\ calls[c].state = "absent"
    /\ calls'[c].state = "reserved" /\ calls'[c].slot = 0

KeepsCandidate(c) ==
    calls'[c].run = calls[c].run /\ calls'[c].application = calls[c].application

Dispatched(c) ==
    LET r == calls[c].run
        a == calls[c].application
    IN  /\ calls[c].state = "reserved"
        /\ candidates[r][a] = "evaluating"
        /\ FreeSlots(r, a) # {} /\ InFlightCalls(r) \subseteq {c}
        /\ calls'[c].state = "dispatching" /\ calls'[c].slot = NextSlot(r, a)
        /\ KeepsCandidate(c)

GivenBack(c) ==
    /\ calls[c].state \in {"reserved", "dispatching"}
    /\ calls'[c].state = "released" /\ calls'[c].slot = 0
    /\ KeepsCandidate(c)

Decided(c) ==
    /\ calls[c].state \in InFlightStates
    /\ calls'[c].state \in {"sent", "response_recorded", "settled", "indeterminate"}
    /\ calls'[c].slot = calls[c].slot
    /\ KeepsCandidate(c)

\* The row of a call in flight is replaced by one with this state.
NewRow(c, row) == calls[c].state \in InFlightStates /\ calls' = [calls EXCEPT ![c] = row]

Transits(c, state, cost, result) ==
    NewRow(c, [calls[c] EXCEPT !.state = state, !.cost = cost, !.result = result])

\* What a step does to the calls; a call is dispatched alone.
CallsMove ==
    /\ \A c \in Calls : \/ calls'[c] = calls[c]
                        \/ Reserved(c) \/ Dispatched(c) \/ GivenBack(c) \/ Decided(c)
    /\ \A c \in Calls : Dispatched(c) => \A d \in Calls \ {c} : calls'[d] = calls[d]

\* A candidate that was claimed is never pending or absent again.
ClaimsStay ==
    \A r \in Runs, a \in Applications :
        candidates[r][a] \notin {"absent", "pending"} =>
            candidates'[r][a] \notin {"absent", "pending"}

\* One call is written, in one of these ways.
LEMMA OneMoves ==
    ASSUME NEW c \in Calls, NEW row, calls \in [Calls -> CallRows],
           calls' = [calls EXCEPT ![c] = row],
           Reserved(c) \/ Dispatched(c) \/ GivenBack(c) \/ Decided(c)
    PROVE  CallsMove
<1>1. \A d \in Calls \ {c} : calls'[d] = calls[d]
  OBVIOUS
<1>2. \A d \in Calls \ {c} : ~Dispatched(d)
  BY <1>1 DEF Dispatched
<1>3. QED  BY <1>1, <1>2 DEF CallsMove

\* Every step moves calls in these ways.
LEMMA CallsMoveByKinds ==
    ASSUME StoreTypeOK, CallsHaveRuns, StoreNext
    PROVE  CallsMove
<1> USE DEF StoreTypeOK
<1>1. CASE UNCHANGED calls
  BY <1>1 DEF CallsMove
<1>2. ASSUME NEW r \in Runs, NEW w \in Workers, RunStep(r, w)
      PROVE  CallsMove
  <2>1. CASE ReconcileInterruptedCalls(r, w)
    <3>1. \A c \in Calls : calls'[c] = calls[c] \/ calls'[c] = Interrupted(calls[c])
      BY <2>1 DEF ReconcileInterruptedCalls
    <3>2. ASSUME NEW c \in Calls, calls'[c] = Interrupted(calls[c])
          PROVE  /\ calls'[c] = calls[c] \/ GivenBack(c) \/ Decided(c)
                 /\ ~Dispatched(c)
      <4> DEFINE row == calls[c]
      <4>1. row \in CallRows
        OBVIOUS
      <4>2. CASE row.state = "reserved"
        <5>1. Interrupted(row) = [row EXCEPT !.state = "released", !.slot = 0]
          BY <4>2 DEF Interrupted
        <5>2. /\ Interrupted(row).state = "released" /\ Interrupted(row).slot = 0
              /\ Interrupted(row).run = row.run
              /\ Interrupted(row).application = row.application
          BY <4>1, <5>1 DEF CallRows
        <5>3. QED  BY <3>2, <4>2, <5>2 DEF GivenBack, KeepsCandidate, Dispatched
      <4>3. CASE row.state \in {"dispatching", "sent"}
        <5>1. Interrupted(row) = [row EXCEPT !.state = "indeterminate"]
          BY <4>3 DEF Interrupted
        <5>2. /\ Interrupted(row).state = "indeterminate" /\ Interrupted(row).slot = row.slot
              /\ Interrupted(row).run = row.run
              /\ Interrupted(row).application = row.application
          BY <4>1, <5>1 DEF CallRows
        <5>3. QED
          BY <3>2, <4>3, <5>2 DEF Decided, KeepsCandidate, InFlightStates, Dispatched
      <4>4. CASE row.state \notin {"reserved", "dispatching", "sent"}
        BY <3>2, <4>4 DEF Interrupted, Dispatched
      <4>5. QED  BY <4>2, <4>3, <4>4
    <3>3. \A c \in Calls : calls'[c] = calls[c] => ~Dispatched(c)
      BY DEF Dispatched
    <3>4. QED  BY <3>1, <3>2, <3>3 DEF CallsMove
  <2>2. QED
    BY <1>1, <1>2, <2>1
    DEF RunStep, ClaimRecoverableRun, StartRun, RenewLease, RelinquishLease,
        ClaimNextCandidate, RecordRunReason, FinishRun
<1>3. ASSUME NEW r \in Runs, NEW a \in Applications, NEW w \in Workers, NEW c \in Calls,
             NEW amount \in Reservations, ReserveProviderCall(c, r, a, w, amount)
      PROVE  CallsMove
  <2> DEFINE row == [NoCall EXCEPT !.state = "reserved", !.run = r,
                                   !.application = a, !.reservation = amount]
  <2>1. row.state = "reserved" /\ row.slot = 0
    BY DEF NoCall
  <2>2. calls' = [calls EXCEPT ![c] = row] /\ calls[c].state = "absent"
    BY <1>3 DEF ReserveProviderCall
  <2> HIDE DEF row
  <2>3. Reserved(c)
    BY <2>1, <2>2 DEF Reserved
  <2>4. QED  BY <2>2, <2>3, OneMoves
<1>4. ASSUME NEW c \in Calls, NEW w \in Workers, CallStep(c, w)
      PROVE  CallsMove
  <2>1. calls[c] \in CallRows
    OBVIOUS
  <2>2. CASE BeginProviderDispatch(c, w)
    <3> DEFINE slot == NextSlot(calls[c].run, calls[c].application)
               row == [calls[c] EXCEPT !.state = "dispatching", !.slot = slot]
    <3>1. /\ row.state = "dispatching" /\ row.slot = slot
          /\ row.run = calls[c].run /\ row.application = calls[c].application
      BY <2>1 DEF CallRows
    <3>2. calls' = [calls EXCEPT ![c] = row]
      BY <2>2 DEF BeginProviderDispatch
    <3>3. /\ calls[c].state = "reserved"
          /\ candidates[calls[c].run][calls[c].application] = "evaluating"
          /\ InFlightCalls(calls[c].run) \subseteq {c}
          /\ FreeSlots(calls[c].run, calls[c].application) # {}
      BY <2>2 DEF BeginProviderDispatch, NothingElseInFlight
    <3> HIDE DEF row
    <3>4. Dispatched(c)
      BY <3>1, <3>2, <3>3 DEF Dispatched, KeepsCandidate
    <3>5. QED  BY <3>2, <3>4, OneMoves
  <2>3. CASE ReleaseProviderCall(c, w)
    <3> DEFINE row == [calls[c] EXCEPT !.state = "released", !.slot = 0]
    <3>1. /\ row.state = "released" /\ row.slot = 0
          /\ row.run = calls[c].run /\ row.application = calls[c].application
      BY <2>1 DEF CallRows
    <3>2. calls' = [calls EXCEPT ![c] = row] /\ calls[c].state \in {"reserved", "dispatching"}
      BY <2>3 DEF ReleaseProviderCall
    <3> HIDE DEF row
    <3>3. GivenBack(c)
      BY <3>1, <3>2 DEF GivenBack, KeepsCandidate
    <3>4. QED  BY <3>2, <3>3, OneMoves
  <2>4. ASSUME NEW st \in {"sent", "response_recorded", "settled", "indeterminate"},
               NEW cost, NEW result, Transits(c, st, cost, result)
        PROVE  CallsMove
    <3> DEFINE row == [calls[c] EXCEPT !.state = st, !.cost = cost, !.result = result]
    <3>1. /\ row.state = st /\ row.slot = calls[c].slot
          /\ row.run = calls[c].run /\ row.application = calls[c].application
      BY <2>1 DEF CallRows
    <3>2. calls' = [calls EXCEPT ![c] = row] /\ calls[c].state \in InFlightStates
      BY <2>4 DEF Transits, NewRow
    <3> HIDE DEF row
    <3>3. Decided(c)
      BY <3>1, <3>2 DEF Decided, KeepsCandidate
    <3>4. QED  BY <3>2, <3>3, OneMoves
  <2>5. CASE MarkSent(c, w)
    <3>1. [calls[c] EXCEPT !.state = "sent"]
              = [calls[c] EXCEPT !.state = "sent", !.cost = calls[c].cost,
                                 !.result = calls[c].result]
      BY <2>1 DEF CallRows
    <3>2. Transits(c, "sent", calls[c].cost, calls[c].result)
      BY <2>5, <3>1 DEF MarkSent, InFlightStates, Transits, NewRow
    <3>3. QED  BY <2>4, <3>2
  <2>6. ASSUME NEW result \in Results, RecordProviderCallResponse(c, w, result)
        PROVE  CallsMove
    <3>1. [calls[c] EXCEPT !.state = "response_recorded", !.result = result]
              = [calls[c] EXCEPT !.state = "response_recorded", !.cost = calls[c].cost,
                                 !.result = result]
      BY <2>1 DEF CallRows
    <3>2. Transits(c, "response_recorded", calls[c].cost, result)
      BY <2>6, <3>1 DEF RecordProviderCallResponse, InFlightStates, Transits, NewRow
    <3>3. QED  BY <2>4, <3>2
  <2>7. ASSUME NEW result, NEW cost, SettleProviderCall(c, w, cost, result)
        PROVE  CallsMove
    <3> DEFINE kept == IF result = "none" THEN calls[c].result ELSE result
    <3>1. /\ calls' = [calls EXCEPT ![c] = [calls[c] EXCEPT !.state = "settled", !.cost = cost,
                                                            !.result = kept]]
          /\ calls[c].state = "response_recorded"
      BY <2>7 DEF SettleProviderCall
    <3> HIDE DEF kept
    <3>2. Transits(c, "settled", cost, kept)
      BY <3>1 DEF InFlightStates, Transits, NewRow
    <3>3. QED  BY <2>4, <3>2
  <2>8. ASSUME NEW result, MarkIndeterminate(c, w, result)
        PROVE  CallsMove
    <3> DEFINE kept == IF result = "none" THEN calls[c].result ELSE result
    <3>1. /\ calls' = [calls EXCEPT ![c] = [calls[c] EXCEPT !.state = "indeterminate",
                                                            !.result = kept]]
          /\ calls[c].state \in InFlightStates
      BY <2>8 DEF MarkIndeterminate
    <3> HIDE DEF kept
    <3>2. [calls[c] EXCEPT !.state = "indeterminate", !.result = kept]
              = [calls[c] EXCEPT !.state = "indeterminate", !.cost = calls[c].cost,
                                 !.result = kept]
      BY <2>1 DEF CallRows
    <3>3. Transits(c, "indeterminate", calls[c].cost, kept)
      BY <3>1, <3>2 DEF Transits, NewRow
    <3>4. QED  BY <2>4, <3>3
  <2>9. QED
    BY <1>4, <2>2, <2>3, <2>5, <2>6, <2>7, <2>8 DEF CallStep
<1>5. ASSUME NEW r \in Runs, NEW a \in Applications, NEW w \in Workers, CandidateStep(r, a, w)
      PROVE  CallsMove
  BY <1>1, <1>3, <1>5
  DEF CandidateStep, RecordCandidateResult, RecordResultAndStop, QuarantineCommitUnknown
<1>6. QED
  BY <1>1, <1>2, <1>4, <1>5
  DEF StoreNext, CreateRun, RequestCancellation, ClearCommitQuarantine, Tick

\* No step takes a claim back.
LEMMA ClaimsStayByKinds ==
    ASSUME StoreTypeOK, CallsHaveRuns, CandidatesHaveRuns, StoreNext
    PROVE  ClaimsStay
<1>1. CASE CreateStep
  BY <1>1 DEF CreateStep, CreateRun, CandidatesHaveRuns, ClaimsStay, StoreTypeOK
<1>2. ASSUME NEW r \in Runs, OneRunStep(r)
      PROVE  ClaimsStay
  BY <1>2
  DEF OneRunStep, CandidateMoves, ClaimsStay, StoreTypeOK, CandidateStates,
      TerminalCandidateStates
<1>3. CASE UNCHANGED candidates
  BY <1>3 DEF ClaimsStay
<1>4. QED
  BY <1>1, <1>2, <1>3, StepKinds
  DEF CallMoves, ReconcileStep, ReconcileInterruptedCalls, QuarantineStep, Tick

\* The index NextSlot names is the least of the free ones.
LEMMA NextSlotIsLeast ==
    ASSUME NEW r, NEW a, FreeSlots(r, a) # {}
    PROVE  \A j \in FreeSlots(r, a) : NextSlot(r, a) <= j
<1>1. FreeSlots(r, a) \subseteq 1..TransmissionLimit
  BY DEF FreeSlots
<1>2. FreeSlots(r, a) \subseteq Nat
  BY <1>1, StoreAssumption
<1>3. QED  BY <1>2, LeastOfIsLeast DEF NextSlot

\* A call is dispatched with a greater index than its candidate's others, and
\* every lower index is one of theirs.
LEMMA DispatchedLast ==
    ASSUME StoreTypeOK, TransmissionsInOrder, NEW c \in Calls, Dispatched(c)
    PROVE  /\ calls'[c].slot \in 1..TransmissionLimit
           /\ \A d \in Calls \ {c} :
                 OfOneCandidate(calls, c, d) => calls[d].slot < calls'[c].slot
           /\ \A i \in 1..(calls'[c].slot - 1) :
                 \E d \in Calls \ {c} : OfOneCandidate(calls, c, d) /\ calls[d].slot = i
<1> DEFINE r == calls[c].run
           a == calls[c].application
           n == calls'[c].slot
<1>1. n \in 1..TransmissionLimit /\ n \in FreeSlots(r, a) /\ \A j \in FreeSlots(r, a) : n <= j
  BY NextSlotIsFree, NextSlotIsLeast DEF Dispatched
<1>2. TransmissionLimit \in Nat /\ \A d \in Calls : calls[d].slot \in 0..TransmissionLimit
  BY StoreAssumption DEF StoreTypeOK, CallRows
<1>3. calls[c].slot = 0
  BY DEF Dispatched, TransmissionsInOrder, IndexedOnceSent
<1>4. ASSUME NEW i \in 1..(n - 1)
      PROVE  \E d \in Calls \ {c} : OfOneCandidate(calls, c, d) /\ calls[d].slot = i
  <2> HIDE DEF n
  <2>1. i \in 1..TransmissionLimit /\ i \notin FreeSlots(r, a)
    BY <1>1, <1>2
  <2>2. PICK d \in Transmitted(r, a) : calls[d].slot = i
    BY <2>1 DEF FreeSlots
  <2>3. QED  BY <1>3, <2>2 DEF Transmitted, OfOneCandidate
<1>5. ASSUME NEW d \in Calls \ {c}, OfOneCandidate(calls, c, d)
      PROVE  calls[d].slot < n
  <2> HIDE DEF n
  <2>1. CASE calls[d].slot = 0
    BY <1>1, <1>2, <2>1
  <2>2. CASE calls[d].slot # 0
    <3>1. calls[d].slot # n
      BY <1>1, <1>5, <2>2 DEF FreeSlots, Transmitted, OfOneCandidate
    <3>2. ASSUME n \in 1..(calls[d].slot - 1) PROVE FALSE
      <4>1. PICK e \in Calls : OfOneCandidate(calls, d, e) /\ calls[e].slot = n
        BY <3>2 DEF TransmissionsInOrder, WithoutGaps
      <4>2. e \in Transmitted(r, a)
        BY <1>1, <1>2, <1>5, <4>1 DEF OfOneCandidate, Transmitted
      <4>3. QED  BY <1>1, <4>1, <4>2 DEF FreeSlots
    <3>3. QED  BY <1>1, <1>2, <3>1, <3>2
  <2>3. QED  BY <2>1, <2>2
<1>6. QED  BY <1>1, <1>4, <1>5

\* Every step keeps the order.
LEMMA InOrderByKinds ==
    ASSUME StoreTypeOK, StoreTypeOK', CallsHaveRuns, TransmissionsInOrder, CallsMove, ClaimsStay
    PROVE  TransmissionsInOrder'
<1> DEFINE Stands(c) == calls'[c] = calls[c]
<1>1. TransmissionLimit \in Nat /\ \A c \in Calls : /\ calls[c].slot \in 0..TransmissionLimit
                                                  /\ calls'[c].slot \in 0..TransmissionLimit
  BY StoreAssumption DEF StoreTypeOK, CallRows
<1>2. \A c \in Calls : Stands(c) \/ Reserved(c) \/ Dispatched(c) \/ GivenBack(c) \/ Decided(c)
  BY DEF CallsMove
<1>3. \A c \in Calls : Dispatched(c) => \A d \in Calls \ {c} : Stands(d)
  BY DEF CallsMove
<1>4. \A c \in Calls : calls[c].state \in {"absent", "reserved", "released"} => calls[c].slot = 0
  BY DEF TransmissionsInOrder, IndexedOnceSent
<1>5. IndexedOnceSent(calls', candidates')
  <2> SUFFICES ASSUME NEW c \in Calls
               PROVE  /\ calls'[c].slot = 0 <=>
                            calls'[c].state \in {"absent", "reserved", "released"}
                      /\ calls'[c].slot # 0 =>
                            candidates'[calls'[c].run][calls'[c].application]
                                \notin {"absent", "pending"}
    BY DEF IndexedOnceSent
  <2>1. /\ calls[c].slot = 0 <=> calls[c].state \in {"absent", "reserved", "released"}
        /\ calls[c].slot # 0 =>
              candidates[calls[c].run][calls[c].application] \notin {"absent", "pending"}
    BY DEF TransmissionsInOrder, IndexedOnceSent
  <2>2. calls[c].state # "absent" => calls[c].run \in Runs /\ calls[c].application \in Applications
    BY DEF CallsHaveRuns
  <2>3. CASE Stands(c)
    BY <2>1, <2>2, <2>3 DEF ClaimsStay
  <2>4. CASE Dispatched(c)
    <3>1. calls'[c].slot # 0
      BY <1>1, <2>4, DispatchedLast
    <3>2. calls'[c].run \in Runs /\ calls'[c].application \in Applications
          /\ candidates[calls'[c].run][calls'[c].application] = "evaluating"
      BY <2>2, <2>4 DEF Dispatched, KeepsCandidate
    <3>3. QED  BY <2>4, <3>1, <3>2 DEF Dispatched, ClaimsStay
  <2>5. CASE Decided(c)
    BY <2>1, <2>2, <2>5 DEF Decided, KeepsCandidate, ClaimsStay, InFlightStates
  <2>6. CASE Reserved(c) \/ GivenBack(c)
    BY <2>6 DEF Reserved, GivenBack
  <2>7. QED  BY <1>2, <2>3, <2>4, <2>5, <2>6
<1>6. WithoutGaps(calls')
  <2> SUFFICES ASSUME NEW c \in Calls, NEW i \in 1..(calls'[c].slot - 1)
               PROVE  \E d \in Calls : OfOneCandidate(calls', c, d) /\ calls'[d].slot = i
    BY DEF WithoutGaps
  <2>1. CASE Dispatched(c)
    <3>1. PICK d \in Calls \ {c} : OfOneCandidate(calls, c, d) /\ calls[d].slot = i
      BY <2>1, DispatchedLast
    <3>2. QED
      BY <1>3, <2>1, <3>1 DEF Dispatched, KeepsCandidate, OfOneCandidate
  <2>2. CASE Stands(c) \/ Decided(c)
    <3>1. calls'[c].slot = calls[c].slot /\ KeepsCandidate(c)
      BY <2>2 DEF Decided, KeepsCandidate
    <3>2. PICK d \in Calls : OfOneCandidate(calls, c, d) /\ calls[d].slot = i
      BY <3>1 DEF TransmissionsInOrder, WithoutGaps
    <3>3. i # 0 /\ i < calls[c].slot
      BY <1>1, <3>1
    <3>4. ~GivenBack(d)
      <4>1. SUFFICES ASSUME GivenBack(d) PROVE FALSE
        OBVIOUS
      <4>2. calls[d].state \in InFlightStates
        BY <1>4, <3>2, <3>3, <4>1 DEF GivenBack, InFlightStates
      <4>3. c # d
        BY <3>1, <3>2, <3>3, <4>1 DEF GivenBack
      <4>4. calls[c].slot < calls[d].slot
        BY <3>2, <4>2, <4>3 DEF TransmissionsInOrder, LastInFlight, OfOneCandidate
      <4>5. QED  BY <1>1, <3>2, <3>3, <4>4
    <3>5. Stands(d) \/ Decided(d)
      BY <1>2, <1>4, <3>2, <3>3, <3>4 DEF Reserved, Dispatched
    <3>6. calls'[d].slot = i /\ KeepsCandidate(d)
      BY <3>2, <3>5 DEF Decided, KeepsCandidate
    <3>7. QED  BY <3>1, <3>2, <3>6 DEF OfOneCandidate, KeepsCandidate
  <2>3. CASE Reserved(c) \/ GivenBack(c)
    BY <2>3 DEF Reserved, GivenBack
  <2>4. QED  BY <1>2, <2>1, <2>2, <2>3
<1>7. LastInFlight(calls')
  <2> SUFFICES ASSUME NEW c \in Calls, calls'[c].state \in InFlightStates,
                      NEW d \in Calls \ {c}, OfOneCandidate(calls', c, d)
               PROVE  calls'[d].slot < calls'[c].slot
    BY DEF LastInFlight
  <2>1. CASE Dispatched(c)
    <3>1. OfOneCandidate(calls, c, d) /\ Stands(d)
      BY <1>3, <2>1 DEF Dispatched, KeepsCandidate, OfOneCandidate
    <3>2. QED  BY <2>1, <3>1, DispatchedLast
  <2>2. CASE Stands(c) \/ Decided(c)
    <3>1. /\ calls[c].state \in InFlightStates
          /\ calls'[c].slot = calls[c].slot /\ KeepsCandidate(c)
      BY <2>2 DEF Decided, KeepsCandidate
    <3>2. calls[c].slot # 0
      BY <3>1 DEF TransmissionsInOrder, IndexedOnceSent, InFlightStates
    <3>3. CASE calls'[d].slot = 0
      BY <1>1, <3>1, <3>2, <3>3
    <3>4. CASE Dispatched(d)
      <4>1. calls[d].run = calls[c].run
        BY <3>1, <3>4 DEF Dispatched, KeepsCandidate, OfOneCandidate
      <4>2. c \in InFlightCalls(calls[d].run)
        BY <3>1, <4>1 DEF InFlightCalls
      <4>3. QED  BY <3>4, <4>2 DEF Dispatched
    <3>5. CASE Stands(d) \/ Decided(d)
      <4>1. calls'[d].slot = calls[d].slot /\ KeepsCandidate(d)
        BY <3>5 DEF Decided, KeepsCandidate
      <4>2. OfOneCandidate(calls, c, d)
        BY <3>1, <4>1 DEF OfOneCandidate, KeepsCandidate
      <4>3. QED  BY <3>1, <4>1, <4>2 DEF TransmissionsInOrder, LastInFlight
    <3>6. QED  BY <1>2, <3>3, <3>4, <3>5 DEF Reserved, GivenBack
  <2>3. CASE Reserved(c) \/ GivenBack(c)
    BY <2>3 DEF Reserved, GivenBack, InFlightStates
  <2>4. QED  BY <1>2, <2>1, <2>2, <2>3
<1>8. QED  BY <1>5, <1>6, <1>7 DEF TransmissionsInOrder

\* Nothing is numbered in an empty table.
LEMMA InOrderInit == StoreInit => TransmissionsInOrder
  BY DEF StoreInit, TransmissionsInOrder, IndexedOnceSent, WithoutGaps, LastInFlight,
         NoCall, InFlightStates

\* Every step of the store keeps the order.
LEMMA InOrderStep ==
    StoreInv /\ TransmissionsInOrder /\ [StoreNext]_storeVars => TransmissionsInOrder'
<1>1. CASE StoreNext
  BY <1>1, CallsMoveByKinds, ClaimsStayByKinds, InOrderByKinds, TypeStep DEF StoreInv
<1>2. CASE UNCHANGED storeVars
  BY <1>2
  DEF storeVars, TransmissionsInOrder, IndexedOnceSent, WithoutGaps, LastInFlight,
      OfOneCandidate
<1>3. QED  BY <1>1, <1>2

\* The transmissions of a candidate are numbered from one, without a gap, in the
\* order they were made, although an index that was given back is used again:
\* "the last transmission" of recover() is the one with the greatest index.
THEOREM TransmissionsStayInOrder == StoreSpec => []TransmissionsInOrder
<1>1. QED  BY InOrderInit, InOrderStep, StoreSafety, PTL DEF StoreSpec

=============================================================================
