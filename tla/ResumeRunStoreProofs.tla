------------------------- MODULE ResumeRunStoreProofs -------------------------
(***************************************************************************)
(* Theorems about ResumeRunStore, for every set of runs, Applications and  *)
(* stages.  The counters of a run are sums over its calls, taken with the  *)
(* lemmas of SetSums.  The lemmas are about the store's operations, one by *)
(* one, so that they serve the store under any callers (here) and under    *)
(* the Resume Run Service (ResumeRunsProofs).                              *)
(***************************************************************************)
EXTENDS ResumeRunStore, SetSums, FiniteSetTheorems, TLAPS

RunRows ==
    [lifecycle : Lifecycles \cup {"absent"}, key : Keys \cup {"absent"},
     target : Targets \cup {0}, queue : Seq(Applications),
     exhausted : BOOLEAN, outcome : Outcomes \cup {"none"},
     reason : Outcomes \cup {"none", "operator_cancelled"},
     verified : Nat, active : Nat, indeterminate : Nat]

\* Why a candidate is not completed: what the store writes and what the
\* service gives fail_candidate.
CandidateReasons ==
    {"none", "failed", "operator_cancelled", "candidate_became_ineligible",
     "run_execution_failure", "spend_limited", "artifact_commit_failed"}

\* "recovering" is a state the table admits and nothing writes.
CandidateRows ==
    [state : {"absent", "pending", "evaluating"} \cup TerminalCandidateStates,
     reason : CandidateReasons, proof : Versions \cup {NoProof},
     set : {"none", "recoverable", "sealed"}]

CallRows == [state : CallStates \cup {"absent"}, reservation : Nat, cost : Nat]

\* Every table holds rows its CHECK constraints admit.
StoreTypeOK ==
    /\ runs \in [Runs -> RunRows]
    /\ candidates \in [Runs -> [Applications -> CandidateRows]]
    /\ calls \in [CallIds -> CallRows]

OnRecord(cs) == {c \in CallIds : cs[c].state # "absent"}

\* A call on record is one of a run that was created.
CallsHaveRuns ==
    \A c \in CallIds : calls[c].state # "absent" => runs[c[1]].lifecycle # "absent"

\* The attempts of a stage are numbered without gaps.
AttemptsInOrder ==
    \A r \in Runs, a \in Applications, s \in Range(Stages), n \in 1..DispatchLimit :
        calls[<<r, a, s, n>>].state # "absent" =>
            \A m \in 1..n : calls[<<r, a, s, m>>].state # "absent"

Held(cs) == [c \in CallIds |-> cs[c].reservation]

Paid(cs) == [c \in CallIds |-> cs[c].cost]

Among(cs, r, states) == {c \in CallIds : c[1] = r /\ cs[c].state \in states}

HeldBy(cs, r, states) == SumOf(Held(cs), Among(cs, r, states))

PaidBy(cs, r) == SumOf(Paid(cs), Among(cs, r, {"settled"}))

\* CountersAreTheCalls in terms of SumOf.
Counted(rs, cs) ==
    \A r \in Runs :
        /\ rs[r].active = HeldBy(cs, r, OpenCallStates)
        /\ rs[r].indeterminate = HeldBy(cs, r, {"indeterminate"})
        /\ rs[r].verified = PaidBy(cs, r)

\* The inductive invariant of the spend.
SpendInv ==
    /\ IsFiniteSet(OnRecord(calls))
    /\ CallsHaveRuns
    /\ AttemptsInOrder
    /\ Counted(runs, calls)
    /\ SpendWithinCeiling

-----------------------------------------------------------------------------
(* What the operations write                                               *)

\* A step that leaves the calls and the counters alone, and removes no run.
SpendRests ==
    /\ calls' = calls
    /\ \A r \in Runs :
          /\ runs'[r].active = runs[r].active
          /\ runs'[r].indeterminate = runs[r].indeterminate
          /\ runs'[r].verified = runs[r].verified
          /\ runs[r].lifecycle # "absent" => runs'[r].lifecycle # "absent"

\* start: of a run that has no calls on record yet.
LEMMA StartRunWrites ==
    ASSUME StoreTypeOK, CallsHaveRuns, Counted(runs, calls), NEW r \in Runs,
           NEW key \in Keys, NEW target \in Targets \cup {0}, NEW queue \in Seq(Applications),
           NEW exhausted \in BOOLEAN, StartRun(r, key, target, queue, exhausted)
    PROVE  StoreTypeOK' /\ SpendRests
<1> DEFINE row == [NoRun EXCEPT !.lifecycle = "queued", !.key = key, !.target = target,
                                !.queue = queue, !.exhausted = exhausted]
           first(a) == [NoCandidate EXCEPT !.state = IF a \in Range(queue) THEN "pending" ELSE @]
<1>1. /\ runs' = [runs EXCEPT ![r] = row]
      /\ candidates' = [candidates EXCEPT ![r] = [a \in Applications |-> first(a)]]
      /\ calls' = calls
      /\ runs[r].lifecycle = "absent"
  BY DEF StartRun
<1>2. row \in RunRows /\ row.active = 0 /\ row.indeterminate = 0 /\ row.verified = 0
      /\ row.lifecycle = "queued"
  BY DEF NoRun, RunRows, Lifecycles, Outcomes
<1>3. \A a \in Applications : first(a) \in CandidateRows
  BY DEF NoCandidate, CandidateRows, OpenCandidateStates, TerminalCandidateStates,
         CandidateReasons
<1>4. [a \in Applications |-> first(a)] \in [Applications -> CandidateRows]
  BY <1>3
<1> HIDE DEF row, first
<1>5. StoreTypeOK'
  BY <1>1, <1>2, <1>4 DEF StoreTypeOK
<1>6. \A states : "absent" \notin states => Among(calls, r, states) = {}
  BY <1>1 DEF CallsHaveRuns, Among
<1>7. runs[r].active = 0 /\ runs[r].indeterminate = 0 /\ runs[r].verified = 0
  BY <1>6, SumEmpty DEF Counted, HeldBy, PaidBy, OpenCallStates
<1>8. SpendRests
  BY <1>1, <1>2, <1>7 DEF SpendRests, StoreTypeOK
<1>9. QED  BY <1>5, <1>8

\* begin, finish, cancel
LEMMA RunWrites ==
    ASSUME StoreTypeOK, NEW r \in Runs, Unfinished(r), Begin(r) \/ Finish(r) \/ Cancel(r)
    PROVE  StoreTypeOK' /\ SpendRests
<1>1. runs[r] \in RunRows
  BY DEF StoreTypeOK
<1>2. candidates' = candidates /\ calls' = calls
  BY DEF Begin, Finish, Cancel
<1>3. ASSUME NEW row \in RunRows, runs' = [runs EXCEPT ![r] = row], row.active = runs[r].active,
             row.verified = runs[r].verified, row.indeterminate = runs[r].indeterminate,
             row.lifecycle # "absent"
      PROVE  StoreTypeOK' /\ SpendRests
  BY <1>2, <1>3 DEF StoreTypeOK, SpendRests
<1>4. CASE Begin(r)
  <2> DEFINE row == [runs[r] EXCEPT !.lifecycle = IF @ = "queued" THEN "running" ELSE @]
  <2>1. runs' = [runs EXCEPT ![r] = row]
    BY <1>4 DEF Begin, StoreTypeOK
  <2>2. /\ row \in RunRows /\ row.active = runs[r].active /\ row.verified = runs[r].verified
        /\ row.indeterminate = runs[r].indeterminate /\ row.lifecycle # "absent"
    BY <1>1 DEF Unfinished, RunRows, Lifecycles
  <2> HIDE DEF row
  <2>3. QED  BY <1>3, <2>1, <2>2
<1>5. CASE Finish(r)
  <2> DEFINE ended == IF runs[r].exhausted THEN "queue_exhausted" ELSE "attempt_budget_exhausted"
             row == [runs[r] EXCEPT
                        !.lifecycle = "finished",
                        !.outcome = IF @ = "none" THEN ended ELSE @,
                        !.reason = IF runs[r].outcome = "none" THEN ended ELSE @]
  <2>1. runs' = [runs EXCEPT ![r] = row]
    BY <1>5 DEF Finish, StoreTypeOK
  <2>2. /\ row \in RunRows /\ row.active = runs[r].active /\ row.verified = runs[r].verified
        /\ row.indeterminate = runs[r].indeterminate /\ row.lifecycle # "absent"
    BY <1>1 DEF RunRows, Lifecycles, Outcomes
  <2> HIDE DEF row
  <2>3. QED  BY <1>3, <2>1, <2>2
<1>6. CASE Cancel(r)
  <2> DEFINE row == [runs[r] EXCEPT
                        !.lifecycle = "cancelling",
                        !.outcome = IF @ = "none" THEN "cancelled" ELSE @,
                        !.reason = IF @ = "none" THEN "operator_cancelled" ELSE @]
  <2>1. runs' = [runs EXCEPT ![r] = row]
    BY <1>6 DEF Cancel, StoreTypeOK
  <2>2. /\ row \in RunRows /\ row.active = runs[r].active /\ row.verified = runs[r].verified
        /\ row.indeterminate = runs[r].indeterminate /\ row.lifecycle # "absent"
    BY <1>1 DEF RunRows, Lifecycles, Outcomes
  <2> HIDE DEF row
  <2>3. QED  BY <1>3, <2>1, <2>2
<1>7. QED  BY <1>4, <1>5, <1>6

\* finish_cancellation
LEMMA FinishCancellationWrites ==
    ASSUME StoreTypeOK, NEW r \in Runs, FinishCancellation(r)
    PROVE  StoreTypeOK' /\ SpendRests
<1> DEFINE after(a) == IF candidates[r][a].state \in OpenCandidateStates
                       THEN [candidates[r][a] EXCEPT !.state = "cancelled",
                                                     !.reason = "operator_cancelled"]
                       ELSE candidates[r][a]
           row == [runs[r] EXCEPT !.lifecycle = "finished", !.outcome = "cancelled",
                                  !.reason = IF @ = "none" THEN "operator_cancelled" ELSE @]
<1>1. /\ candidates' = [candidates EXCEPT ![r] = [a \in Applications |-> after(a)]]
      /\ runs' = [runs EXCEPT ![r] = row] \/ runs' = runs
      /\ calls' = calls
  BY DEF FinishCancellation, StoreTypeOK
<1>2. ASSUME NEW a \in Applications PROVE after(a) \in CandidateRows
  <2>1. candidates[r][a] \in CandidateRows
    BY DEF StoreTypeOK
  <2>2. QED
    BY <2>1 DEF CandidateRows, OpenCandidateStates, TerminalCandidateStates, CandidateReasons
<1>3. [a \in Applications |-> after(a)] \in [Applications -> CandidateRows]
  BY <1>2
<1>4. row \in RunRows /\ row.active = runs[r].active /\ row.verified = runs[r].verified
      /\ row.indeterminate = runs[r].indeterminate /\ row.lifecycle # "absent"
  BY DEF StoreTypeOK, RunRows, Lifecycles, Outcomes
<1> HIDE DEF row, after
<1>5. QED  BY <1>1, <1>3, <1>4 DEF StoreTypeOK, SpendRests

\* begin_candidate, admit_candidate, start_artifact_set, fail_candidate
LEMMA CandidateWrites ==
    ASSUME StoreTypeOK, NEW r \in Runs, NEW a \in Applications,
           \/ BeginCandidate(r, a) \/ StartArtifactSet(r, a)
           \/ \E v \in Versions : AdmitCandidate(r, a, v)
           \/ \E reason \in CandidateReasons : FailCandidate(r, a, reason)
    PROVE  StoreTypeOK' /\ SpendRests
<1>1. candidates[r][a] \in CandidateRows
  BY DEF StoreTypeOK
<1>2. PICK row \in CandidateRows : candidates' = [candidates EXCEPT ![r][a] = row]
  <2>1. CASE BeginCandidate(r, a)
    <3> DEFINE row == [candidates[r][a] EXCEPT !.state = "evaluating"]
    <3>1. candidates' = [candidates EXCEPT ![r][a] = row]
      BY <2>1 DEF BeginCandidate
    <3>2. row \in CandidateRows
      BY <1>1 DEF CandidateRows, OpenCandidateStates
    <3>3. QED  BY <3>1, <3>2
  <2>2. CASE StartArtifactSet(r, a)
    <3> DEFINE row == [candidates[r][a] EXCEPT !.set = "recoverable"]
    <3>1. candidates' = [candidates EXCEPT ![r][a] = row]
      BY <2>2 DEF StartArtifactSet
    <3>2. row \in CandidateRows
      BY <1>1 DEF CandidateRows
    <3>3. QED  BY <3>1, <3>2
  <2>3. ASSUME NEW v \in Versions, AdmitCandidate(r, a, v)
        PROVE  \E row \in CandidateRows : candidates' = [candidates EXCEPT ![r][a] = row]
    <3> DEFINE row == [candidates[r][a] EXCEPT !.state = "evaluating", !.proof = v]
    <3>1. candidates' = [candidates EXCEPT ![r][a] = row]
      BY <2>3 DEF AdmitCandidate, StoreTypeOK
    <3>2. row \in CandidateRows
      BY <1>1 DEF CandidateRows, OpenCandidateStates
    <3>3. QED  BY <3>1, <3>2
  <2>4. ASSUME NEW reason \in CandidateReasons, FailCandidate(r, a, reason)
        PROVE  \E row \in CandidateRows : candidates' = [candidates EXCEPT ![r][a] = row]
    <3> DEFINE row == [candidates[r][a] EXCEPT !.state = "failed", !.reason = reason]
    <3>1. candidates' = [candidates EXCEPT ![r][a] = row]
      BY <2>4 DEF FailCandidate, StoreTypeOK
    <3>2. row \in CandidateRows
      BY <1>1 DEF CandidateRows, TerminalCandidateStates
    <3>3. QED  BY <3>1, <3>2
  <2>5. QED  BY <2>1, <2>2, <2>3, <2>4
<1>3. runs' = runs /\ calls' = calls
  BY DEF BeginCandidate, StartArtifactSet, AdmitCandidate, FailCandidate
<1>4. QED  BY <1>2, <1>3 DEF StoreTypeOK, SpendRests

\* complete_candidate
LEMMA CompleteWrites ==
    ASSUME StoreTypeOK, NEW r \in Runs, NEW a \in Applications, CompleteCandidate(r, a)
    PROVE  StoreTypeOK' /\ SpendRests
<1> DEFINE done == [candidates[r][a] EXCEPT !.state = "completed", !.reason = "none",
                                            !.set = "sealed"]
           row == [runs[r] EXCEPT !.outcome = "target_met", !.reason = "target_met"]
<1>1. /\ candidates' = [candidates EXCEPT ![r][a] = done]
      /\ runs' = [runs EXCEPT ![r] = row] \/ runs' = runs
      /\ calls' = calls
  BY DEF CompleteCandidate, StoreTypeOK
<1>2. done \in CandidateRows
  <2>1. candidates[r][a] \in CandidateRows
    BY DEF StoreTypeOK
  <2>2. QED  BY <2>1 DEF CandidateRows, TerminalCandidateStates, CandidateReasons
<1>3. row \in RunRows /\ row.active = runs[r].active /\ row.verified = runs[r].verified
      /\ row.indeterminate = runs[r].indeterminate /\ row.lifecycle = runs[r].lifecycle
  BY DEF StoreTypeOK, RunRows, Outcomes
<1> HIDE DEF row, done
<1>4. QED  BY <1>1, <1>2, <1>3 DEF StoreTypeOK, SpendRests

\* mark_call_dispatching
LEMMA MarkWrites ==
    ASSUME StoreTypeOK, NEW c \in CallIds, MarkCallDispatching(c)
    PROVE  StoreTypeOK'
<1>1. [calls[c] EXCEPT !.state = "dispatching"] \in CallRows
  BY DEF StoreTypeOK, CallRows, CallStates, OpenCallStates
<1>2. calls' = [calls EXCEPT ![c] = [calls[c] EXCEPT !.state = "dispatching"]]
  BY DEF MarkCallDispatching, StoreTypeOK
<1>3. QED  BY <1>1, <1>2 DEF MarkCallDispatching, StoreTypeOK

-----------------------------------------------------------------------------
(* The attempts of a stage                                                 *)

\* Of the numbers up to L, those that are taken without gaps: the next is
\* free, and everything before it is taken.
LEMMA NextIsFree ==
    ASSUME NEW L \in Nat, NEW T \in SUBSET (1..L), \A n \in T : 1..n \subseteq T
    PROVE  /\ Cardinality(T) \in Nat
           /\ Cardinality(T) + 1 \in Nat \ T
           /\ \A m \in 1..Cardinality(T) : m \in T
<1>1. IsFiniteSet(T) /\ Cardinality(T) \in Nat
  <2>1. IsFiniteSet(1..L)
    BY FS_Interval
  <2>2. IsFiniteSet(T)
    BY <2>1, FS_Subset
  <2>3. QED  BY <2>2, FS_CardinalityType
<1>2. \A n \in Nat : Cardinality(1..n) = n /\ IsFiniteSet(1..n)
  BY FS_Interval
<1>3. ASSUME Cardinality(T) + 1 \in T PROVE FALSE
  <2>1. 1..(Cardinality(T) + 1) \in SUBSET T
    BY <1>3
  <2>2. Cardinality(1..(Cardinality(T) + 1)) <= Cardinality(T)
    BY <1>1, <2>1, FS_Subset
  <2>3. QED  BY <1>1, <1>2, <2>2
<1>4. ASSUME NEW m \in 1..Cardinality(T), m \notin T PROVE FALSE
  <2>1. T \in SUBSET (1..(m - 1))
    BY <1>1, <1>4
  <2>2. Cardinality(T) <= Cardinality(1..(m - 1))
    <3>1. IsFiniteSet(1..(m - 1))
      BY <1>2
    <3>2. QED  BY <2>1, <3>1, FS_Subset
  <2>3. QED  BY <1>1, <1>2, <2>2
<1>5. QED  BY <1>1, <1>3, <1>4

\* The attempt next_call_attempt finds is one that no call on record has,
\* and the first of those.
LEMMA AttemptIsNext ==
    ASSUME StoreTypeOK, AttemptsInOrder, NEW r \in Runs, NEW a \in Applications,
           NEW s \in Range(Stages)
    PROVE  /\ NextAttempt(r, a, s) \in Nat \ {0}
           /\ NextAttempt(r, a, s) <= DispatchLimit =>
                  /\ <<r, a, s, NextAttempt(r, a, s)>> \in CallIds
                  /\ calls[<<r, a, s, NextAttempt(r, a, s)>>].state = "absent"
           /\ \A m \in 1..DispatchLimit :
                  m < NextAttempt(r, a, s) => calls[<<r, a, s, m>>].state # "absent"
           /\ <<r, a, s, 1>> \in OnRecord(calls) =>
                  <<r, a, s, NextAttempt(r, a, s) - 1>> \in CallIds
<1> DEFINE T == {n \in 1..DispatchLimit : calls[<<r, a, s, n>>].state # "absent"}
<1>1. DispatchLimit \in Nat
  BY ResumeStoreAssumption
<1>2. \A n \in T : 1..n \subseteq T
  BY <1>1 DEF AttemptsInOrder
<1>3. NextAttempt(r, a, s) = 1 + Cardinality(T)
  BY DEF NextAttempt
<1>4. /\ Cardinality(T) \in Nat
      /\ Cardinality(T) + 1 \in Nat \ T
      /\ \A m \in 1..Cardinality(T) : m \in T
  BY <1>1, <1>2, NextIsFree
<1> DEFINE k == Cardinality(T)
<1>5. \A n \in 1..DispatchLimit : n \in T <=> calls[<<r, a, s, n>>].state # "absent"
  OBVIOUS
<1> HIDE DEF T, k
<1>6. /\ NextAttempt(r, a, s) \in Nat \ {0}
      /\ NextAttempt(r, a, s) <= DispatchLimit =>
             /\ <<r, a, s, NextAttempt(r, a, s)>> \in CallIds
             /\ calls[<<r, a, s, NextAttempt(r, a, s)>>].state = "absent"
      /\ \A m \in 1..DispatchLimit :
             m < NextAttempt(r, a, s) => calls[<<r, a, s, m>>].state # "absent"
  BY <1>1, <1>3, <1>4, <1>5 DEF CallIds, k
<1>7. ASSUME <<r, a, s, 1>> \in OnRecord(calls)
      PROVE  <<r, a, s, NextAttempt(r, a, s) - 1>> \in CallIds
  <2>1. 1 \in 1..DispatchLimit /\ calls[<<r, a, s, 1>>].state # "absent"
    BY <1>7 DEF OnRecord, CallIds
  <2>2. 1 \in T
    BY <1>5, <2>1
  <2>3. k \in Nat /\ k # 0
    BY <1>4, <2>2 DEF k
  <2>4. k \in 1..DispatchLimit
    <3>1. k \in T
      BY <1>4, <2>3 DEF k
    <3>2. QED  BY <3>1 DEF T
  <2>5. QED  BY <1>3, <2>3, <2>4 DEF CallIds, k
<1>8. QED  BY <1>6, <1>7

-----------------------------------------------------------------------------
(* The counters as sums                                                    *)

\* What the store's properties add up is a sum in the sense of SetSums.
LEMMA HeldIsSum ==
    ASSUME NEW cs, NEW S \in SUBSET CallIds, IsFiniteSet(S)
    PROVE  MapThenSumSet(LAMBDA c : cs[c].reservation, S) = SumOf(Held(cs), S)
<1> DEFINE Step(h, s) == IF s = {} THEN 0 ELSE cs[FirstOf(s)].reservation + h[s \ {FirstOf(s)}]
           chosen == CHOOSE h : h = [s \in SUBSET S |-> Step(h, s)]
<1>1. MapThenSumSet(LAMBDA c : cs[c].reservation, S) = chosen[S]
  BY DEF MapThenSumSet, MapThenFoldSet, FirstOf
<1>2. \A s \in SUBSET S : s # {} => Held(cs)[FirstOf(s)] = cs[FirstOf(s)].reservation
  BY DEF Held, FirstOf
<1>3. \A h : Sums(h, Held(cs), SUBSET S) <=> h = [s \in SUBSET S |-> Step(h, s)]
  BY <1>2 DEF Sums
<1>4. \E h : h = [s \in SUBSET S |-> Step(h, s)]
  <2>1. PICK h : Sums(h, Held(cs), SUBSET S)
    BY SumsExist
  <2>2. QED  BY <1>3, <2>1
<1>5. chosen = [s \in SUBSET S |-> Step(chosen, s)]
  <2> HIDE DEF Step
  <2>1. QED  BY <1>4, Zenon
<1> HIDE DEF chosen
<1>6. Sums(chosen, Held(cs), SUBSET S)
  BY <1>3, <1>5
<1>7. QED  BY <1>1, <1>6, SumIsSolution

LEMMA PaidIsSum ==
    ASSUME NEW cs, NEW S \in SUBSET CallIds, IsFiniteSet(S)
    PROVE  MapThenSumSet(LAMBDA c : cs[c].cost, S) = SumOf(Paid(cs), S)
<1> DEFINE Step(h, s) == IF s = {} THEN 0 ELSE cs[FirstOf(s)].cost + h[s \ {FirstOf(s)}]
           chosen == CHOOSE h : h = [s \in SUBSET S |-> Step(h, s)]
<1>1. MapThenSumSet(LAMBDA c : cs[c].cost, S) = chosen[S]
  BY DEF MapThenSumSet, MapThenFoldSet, FirstOf
<1>2. \A s \in SUBSET S : s # {} => Paid(cs)[FirstOf(s)] = cs[FirstOf(s)].cost
  BY DEF Paid, FirstOf
<1>3. \A h : Sums(h, Paid(cs), SUBSET S) <=> h = [s \in SUBSET S |-> Step(h, s)]
  BY <1>2 DEF Sums
<1>4. \E h : h = [s \in SUBSET S |-> Step(h, s)]
  <2>1. PICK h : Sums(h, Paid(cs), SUBSET S)
    BY SumsExist
  <2>2. QED  BY <1>3, <2>1
<1>5. chosen = [s \in SUBSET S |-> Step(chosen, s)]
  <2> HIDE DEF Step
  <2>1. QED  BY <1>4, Zenon
<1> HIDE DEF chosen
<1>6. Sums(chosen, Paid(cs), SUBSET S)
  BY <1>3, <1>5
<1>7. QED  BY <1>1, <1>6, SumIsSolution

\* The calls of a run in some states on record are finitely many.
LEMMA AmongIsFinite ==
    ASSUME NEW cs, IsFiniteSet(OnRecord(cs)), NEW r, NEW states, "absent" \notin states
    PROVE  Among(cs, r, states) \in SUBSET CallIds /\ IsFiniteSet(Among(cs, r, states))
<1>1. Among(cs, r, states) \in SUBSET OnRecord(cs)
  BY DEF Among, OnRecord
<1>2. QED  BY <1>1, FS_Subset DEF OnRecord

\* The counters are the sums of the calls.
LEMMA CountersAreSums == IsFiniteSet(OnRecord(calls)) => (CountersAreTheCalls <=> Counted(runs, calls))
<1> SUFFICES ASSUME IsFiniteSet(OnRecord(calls))
             PROVE  CountersAreTheCalls <=> Counted(runs, calls)
  OBVIOUS
<1>1. ASSUME NEW r \in Runs, NEW states, "absent" \notin states
      PROVE  /\ Reserved(CallsIn(r, states)) = HeldBy(calls, r, states)
             /\ MapThenSumSet(LAMBDA c : calls[c].cost, CallsIn(r, states))
                    = SumOf(Paid(calls), Among(calls, r, states))
  <2>1. CallsIn(r, states) = Among(calls, r, states)
    BY DEF CallsIn, Among
  <2>2. Among(calls, r, states) \in SUBSET CallIds /\ IsFiniteSet(Among(calls, r, states))
    BY <1>1, AmongIsFinite
  <2>3. MapThenSumSet(LAMBDA c : calls[c].reservation, Among(calls, r, states))
            = HeldBy(calls, r, states)
    BY <2>2, HeldIsSum DEF HeldBy
  <2>4. MapThenSumSet(LAMBDA c : calls[c].cost, Among(calls, r, states))
            = SumOf(Paid(calls), Among(calls, r, states))
    BY <2>2, PaidIsSum
  <2>5. QED  BY <2>1, <2>3, <2>4 DEF Reserved
<1>2. ASSUME NEW r \in Runs
      PROVE  /\ Reserved(CallsIn(r, OpenCallStates)) = HeldBy(calls, r, OpenCallStates)
             /\ Reserved(CallsIn(r, {"indeterminate"})) = HeldBy(calls, r, {"indeterminate"})
             /\ MapThenSumSet(LAMBDA c : calls[c].cost, CallsIn(r, {"settled"}))
                    = PaidBy(calls, r)
  BY <1>1 DEF PaidBy, OpenCallStates
<1>3. QED  BY <1>2 DEF CountersAreTheCalls, Counted

\* How the sum over the calls of a run in some states changes when one call
\* is written.
Moved(cs, ds, c, r, states, f, g, old, new) ==
    /\ old \in Nat
    /\ c[1] # r => new = old
    /\ cs[c].state \notin states /\ ds[c].state \notin states => new = old
    /\ c[1] = r /\ cs[c].state \notin states /\ ds[c].state \in states => new = old + g[c]
    /\ c[1] = r /\ cs[c].state \in states /\ ds[c].state \notin states =>
           new = old - f[c] /\ f[c] <= old
    /\ cs[c].state \in states /\ ds[c].state \in states /\ g[c] = f[c] => new = old

LEMMA SumMoves ==
    ASSUME NEW cs, NEW ds, NEW c \in CallIds, \A d \in CallIds \ {c} : ds[d] = cs[d],
           NEW r, NEW states, IsFiniteSet(Among(cs, r, states)),
           NEW f, NEW g, \A d \in CallIds : f[d] \in Nat /\ g[d] \in Nat,
           \A d \in CallIds \ {c} : g[d] = f[d]
    PROVE  Moved(cs, ds, c, r, states, f, g,
                 SumOf(f, Among(cs, r, states)), SumOf(g, Among(ds, r, states)))
<1> DEFINE old == SumOf(f, Among(cs, r, states))
           new == SumOf(g, Among(ds, r, states))
<1> USE DEF Moved
<1> DEFINE S == Among(cs, r, states)
           T == Among(ds, r, states)
<1>1. S \in SUBSET CallIds /\ T \in SUBSET CallIds
  BY DEF Among
<1>2. old \in Nat
  BY <1>1, SumIsNat
<1>3. ASSUME T = S, \A d \in S : g[d] = f[d] PROVE new = old
  BY <1>3, SumAgrees
<1>4. CASE c[1] # r \/ (cs[c].state \notin states /\ ds[c].state \notin states)
  <2>1. T = S /\ c \notin S
    BY <1>4 DEF Among
  <2>2. \A d \in S : g[d] = f[d]
    BY <1>1, <2>1
  <2>3. new = old
    BY <1>3, <2>1, <2>2
  <2>4. QED  BY <1>2, <1>4, <2>3
<1>5. CASE c[1] = r /\ cs[c].state \notin states /\ ds[c].state \in states
  <2>1. T = S \cup {c} /\ c \notin S
    BY <1>5 DEF Among
  <2>2. \A d \in S : f[d] \in Nat /\ g[d] = f[d]
    BY <1>1, <2>1
  <2> HIDE DEF S, T
  <2>3. SumOf(g, S \cup {c}) = SumOf(f, S) + g[c]
    BY <2>1, <2>2, SumGains DEF S
  <2>4. new = old + g[c]
    BY <2>1, <2>3 DEF S, T
  <2>5. QED  BY <1>2, <1>5, <2>4
<1>6. CASE c[1] = r /\ cs[c].state \in states /\ ds[c].state \notin states
  <2>1. T = S \ {c} /\ c \in S
    BY <1>6 DEF Among
  <2>2. (\A d \in S : f[d] \in Nat) /\ (\A d \in S \ {c} : g[d] = f[d])
    BY <1>1
  <2> HIDE DEF S, T
  <2>3. SumOf(g, S \ {c}) = SumOf(f, S) - f[c] /\ f[c] <= SumOf(f, S)
    BY <2>1, <2>2, SumLoses, SumBounds DEF S
  <2>4. new = old - f[c] /\ f[c] <= old
    BY <2>1, <2>3 DEF S, T
  <2>5. QED  BY <1>2, <1>6, <2>4
<1>7. CASE c[1] = r /\ cs[c].state \in states /\ ds[c].state \in states
  <2>1. T = S
    BY <1>7 DEF Among
  <2>2. g[c] = f[c] => \A d \in S : g[d] = f[d]
    BY <1>1
  <2>3. g[c] = f[c] => new = old
    BY <1>3, <2>1, <2>2
  <2>4. QED  BY <1>2, <1>7, <2>3
<1>8. QED  BY <1>4, <1>5, <1>6, <1>7

-----------------------------------------------------------------------------
(* The invariant of the spend, operation by operation                      *)

LEMMA SpendRest == StoreTypeOK' /\ SpendInv /\ SpendRests => SpendInv'
<1> SUFFICES ASSUME StoreTypeOK', SpendInv, SpendRests PROVE SpendInv'
  OBVIOUS
<1>1. CallsHaveRuns'
  BY DEF SpendInv, SpendRests, CallsHaveRuns, CallIds
<1>2. AttemptsInOrder'
  BY DEF SpendInv, SpendRests, AttemptsInOrder
<1>3. Counted(runs', calls')
  BY DEF SpendInv, SpendRests, Counted
<1>4. SpendWithinCeiling'
  BY DEF SpendInv, SpendRests, SpendWithinCeiling, Committed
<1>5. QED  BY <1>1, <1>2, <1>3, <1>4 DEF SpendInv, SpendRests

\* The sums that one written call moves.
LEMMA CountersMove ==
    ASSUME StoreTypeOK, StoreTypeOK', SpendInv, NEW c \in CallIds,
           \A d \in CallIds \ {c} : calls'[d] = calls[d], NEW r \in Runs
    PROVE  /\ runs[r].active \in Nat /\ runs[r].indeterminate \in Nat /\ runs[r].verified \in Nat
           /\ c[1] # r =>
                 /\ HeldBy(calls', r, OpenCallStates) = runs[r].active
                 /\ HeldBy(calls', r, {"indeterminate"}) = runs[r].indeterminate
                 /\ PaidBy(calls', r) = runs[r].verified
           /\ c[1] = r /\ calls[c].state = "absent" /\ calls'[c].state = "reserved" =>
                 /\ HeldBy(calls', r, OpenCallStates) = runs[r].active + calls'[c].reservation
                 /\ HeldBy(calls', r, {"indeterminate"}) = runs[r].indeterminate
                 /\ PaidBy(calls', r) = runs[r].verified
           /\ c[1] = r /\ calls[c].state = "reserved" /\ calls'[c].state = "dispatching"
              /\ calls'[c].reservation = calls[c].reservation =>
                 /\ HeldBy(calls', r, OpenCallStates) = runs[r].active
                 /\ HeldBy(calls', r, {"indeterminate"}) = runs[r].indeterminate
                 /\ PaidBy(calls', r) = runs[r].verified
           /\ c[1] = r /\ calls[c].state \in OpenCallStates
              /\ calls'[c].state \in {"settled", "not_transmitted", "indeterminate"} =>
                 /\ HeldBy(calls', r, OpenCallStates) = runs[r].active - calls[c].reservation
                 /\ calls[c].reservation <= runs[r].active
                 /\ HeldBy(calls', r, {"indeterminate"}) =
                        runs[r].indeterminate + (IF calls'[c].state = "indeterminate"
                                                 THEN calls'[c].reservation ELSE 0)
                 /\ PaidBy(calls', r) =
                        runs[r].verified + (IF calls'[c].state = "settled"
                                            THEN calls'[c].cost ELSE 0)
<1>1. \A d \in CallIds :
          /\ Held(calls)[d] \in Nat /\ Held(calls')[d] \in Nat
          /\ Paid(calls)[d] \in Nat /\ Paid(calls')[d] \in Nat
          /\ Held(calls)[d] = calls[d].reservation /\ Held(calls')[d] = calls'[d].reservation
          /\ Paid(calls)[d] = calls[d].cost /\ Paid(calls')[d] = calls'[d].cost
  BY DEF StoreTypeOK, CallRows, Held, Paid
<1>2. \A d \in CallIds \ {c} : Held(calls')[d] = Held(calls)[d] /\ Paid(calls')[d] = Paid(calls)[d]
  BY DEF Held, Paid
<1>3. ASSUME NEW states, "absent" \notin states
      PROVE  IsFiniteSet(Among(calls, r, states))
  BY <1>3, AmongIsFinite DEF SpendInv
<1>4. /\ runs[r].active = SumOf(Held(calls), Among(calls, r, OpenCallStates))
      /\ runs[r].indeterminate = SumOf(Held(calls), Among(calls, r, {"indeterminate"}))
      /\ runs[r].verified = SumOf(Paid(calls), Among(calls, r, {"settled"}))
  BY DEF SpendInv, Counted, HeldBy, PaidBy
<1> DEFINE open == HeldBy(calls', r, OpenCallStates)
           lost == HeldBy(calls', r, {"indeterminate"})
           paid == PaidBy(calls', r)
           was == calls[c].state
           is == calls'[c].state
<1>5. /\ runs[r].active \in Nat
      /\ c[1] # r => open = runs[r].active
      /\ was \notin OpenCallStates /\ is \notin OpenCallStates => open = runs[r].active
      /\ c[1] = r /\ was \notin OpenCallStates /\ is \in OpenCallStates =>
            open = runs[r].active + Held(calls')[c]
      /\ c[1] = r /\ was \in OpenCallStates /\ is \notin OpenCallStates =>
            open = runs[r].active - Held(calls)[c] /\ Held(calls)[c] <= runs[r].active
      /\ was \in OpenCallStates /\ is \in OpenCallStates /\ Held(calls')[c] = Held(calls)[c] =>
            open = runs[r].active
  <2>1. open = SumOf(Held(calls'), Among(calls', r, OpenCallStates))
    BY DEF HeldBy
  <2>2. IsFiniteSet(Among(calls, r, OpenCallStates))
    BY <1>3 DEF OpenCallStates
  <2>3. Moved(calls, calls', c, r, OpenCallStates, Held(calls), Held(calls'),
              SumOf(Held(calls), Among(calls, r, OpenCallStates)),
              SumOf(Held(calls'), Among(calls', r, OpenCallStates)))
    BY <1>1, <1>2, <2>2, SumMoves
  <2>4. QED  BY <1>4, <2>1, <2>3 DEF Moved
<1>6. /\ runs[r].indeterminate \in Nat
      /\ c[1] # r => lost = runs[r].indeterminate
      /\ was # "indeterminate" /\ is # "indeterminate" => lost = runs[r].indeterminate
      /\ c[1] = r /\ was # "indeterminate" /\ is = "indeterminate" =>
            lost = runs[r].indeterminate + Held(calls')[c]
  <2>1. lost = SumOf(Held(calls'), Among(calls', r, {"indeterminate"}))
    BY DEF HeldBy
  <2>2. IsFiniteSet(Among(calls, r, {"indeterminate"}))
    BY <1>3
  <2>3. Moved(calls, calls', c, r, {"indeterminate"}, Held(calls), Held(calls'),
              SumOf(Held(calls), Among(calls, r, {"indeterminate"})),
              SumOf(Held(calls'), Among(calls', r, {"indeterminate"})))
    BY <1>1, <1>2, <2>2, SumMoves
  <2>4. QED  BY <1>4, <2>1, <2>3 DEF Moved
<1>7. /\ runs[r].verified \in Nat
      /\ c[1] # r => paid = runs[r].verified
      /\ was # "settled" /\ is # "settled" => paid = runs[r].verified
      /\ c[1] = r /\ was # "settled" /\ is = "settled" =>
            paid = runs[r].verified + Paid(calls')[c]
  <2>1. paid = SumOf(Paid(calls'), Among(calls', r, {"settled"}))
    BY DEF PaidBy
  <2>2. IsFiniteSet(Among(calls, r, {"settled"}))
    BY <1>3
  <2>3. Moved(calls, calls', c, r, {"settled"}, Paid(calls), Paid(calls'),
              SumOf(Paid(calls), Among(calls, r, {"settled"})),
              SumOf(Paid(calls'), Among(calls', r, {"settled"})))
    BY <1>1, <1>2, <2>2, SumMoves
  <2>4. QED  BY <1>4, <2>1, <2>3 DEF Moved
<1>8. /\ Held(calls)[c] = calls[c].reservation /\ Held(calls')[c] = calls'[c].reservation
      /\ Paid(calls')[c] = calls'[c].cost
  BY <1>1
<1> HIDE DEF open, lost, paid
<1>9. QED  BY <1>5, <1>6, <1>7, <1>8 DEF OpenCallStates, open, lost, paid

\* The part of the invariant that one written call of an existing run can
\* disturb beside the sums.
LEMMA RecordMoves ==
    ASSUME SpendInv, NEW c \in CallIds, \A d \in CallIds \ {c} : calls'[d] = calls[d],
           \A r \in Runs : runs'[r].lifecycle = runs[r].lifecycle,
           calls'[c].state # "absent", runs[c[1]].lifecycle # "absent"
    PROVE  IsFiniteSet(OnRecord(calls')) /\ CallsHaveRuns'
<1>1. OnRecord(calls') \in SUBSET (OnRecord(calls) \cup {c})
  BY DEF OnRecord
<1>2. IsFiniteSet(OnRecord(calls) \cup {c})
  BY FS_AddElement DEF SpendInv
<1>3. CallsHaveRuns'
  BY DEF SpendInv, CallsHaveRuns, CallIds
<1>4. QED  BY <1>1, <1>2, <1>3, FS_Subset

\* A row whose counters are written.
WithCounters(run, active, verified, indeterminate) ==
    [run EXCEPT !.active = active, !.verified = verified, !.indeterminate = indeterminate]

HasCounters(row, run, active, verified, indeterminate) ==
    /\ row \in RunRows /\ row.lifecycle = run.lifecycle
    /\ row.active = active /\ row.verified = verified /\ row.indeterminate = indeterminate

LEMMA CountersWritten ==
    ASSUME NEW run \in RunRows, NEW active \in Nat, NEW verified \in Nat,
           NEW indeterminate \in Nat
    PROVE  HasCounters(WithCounters(run, active, verified, indeterminate),
                       run, active, verified, indeterminate)
  BY DEF RunRows, WithCounters, HasCounters

\* reserve_call
LEMMA ReserveSpend ==
    ASSUME StoreTypeOK, SpendInv, NEW r \in Runs, NEW a \in Applications,
           NEW s \in Range(Stages), NEW amount \in Nat, ReserveCall(r, a, s, amount)
    PROVE  StoreTypeOK' /\ SpendInv'
<1> DEFINE n == NextAttempt(r, a, s)
           c == <<r, a, s, n>>
           call == [NoCall EXCEPT !.state = "reserved", !.reservation = amount]
           row == [runs[r] EXCEPT !.active = @ + amount]
<1>1. /\ n \in Nat \ {0} /\ n <= DispatchLimit /\ c \in CallIds /\ calls[c].state = "absent"
      /\ \A m \in 1..DispatchLimit : m < n => calls[<<r, a, s, m>>].state # "absent"
  BY AttemptIsNext DEF SpendInv, ReserveCall
<1>2. /\ calls' = [calls EXCEPT ![c] = call] /\ runs' = [runs EXCEPT ![r] = row]
      /\ candidates' = candidates /\ runs[r].lifecycle = "running"
      /\ Committed(r) + amount <= Ceiling
  BY DEF ReserveCall, StoreTypeOK, Proceeding, Fits
<1>3. call \in CallRows /\ call.state = "reserved" /\ call.reservation = amount
  BY DEF NoCall, CallRows, CallStates, OpenCallStates
<1>4. /\ row \in RunRows /\ row.active = runs[r].active + amount
      /\ row.indeterminate = runs[r].indeterminate /\ row.verified = runs[r].verified
      /\ row.lifecycle = runs[r].lifecycle
  <2>1. runs[r] \in RunRows
    BY DEF StoreTypeOK
  <2>2. /\ runs[r].active \in Nat /\ runs[r].verified \in Nat
        /\ runs[r].indeterminate \in Nat /\ runs[r].active + amount \in Nat
    BY <2>1 DEF RunRows
  <2>3. row = WithCounters(runs[r], runs[r].active + amount, runs[r].verified,
                           runs[r].indeterminate)
    BY <2>1 DEF RunRows, WithCounters
  <2> HIDE DEF row
  <2>4. HasCounters(row, runs[r], runs[r].active + amount, runs[r].verified,
                    runs[r].indeterminate)
    BY <2>1, <2>2, <2>3, CountersWritten, Zenon
  <2>5. QED  BY <2>4 DEF HasCounters
<1> HIDE DEF n, call, row
<1>5. StoreTypeOK'
  BY <1>1, <1>2, <1>3, <1>4 DEF StoreTypeOK
<1>6. /\ calls'[c] = call /\ \A d \in CallIds \ {c} : calls'[d] = calls[d]
      /\ runs'[r] = row /\ \A q \in Runs \ {r} : runs'[q] = runs[q]
      /\ c[1] = r
  BY <1>1, <1>2 DEF StoreTypeOK
<1>7. IsFiniteSet(OnRecord(calls')) /\ CallsHaveRuns'
  <2>1. \A q \in Runs : runs'[q].lifecycle = runs[q].lifecycle
    BY <1>4, <1>6
  <2> HIDE DEF c
  <2>2. calls'[c].state # "absent" /\ runs[c[1]].lifecycle # "absent"
    BY <1>2, <1>3, <1>6
  <2>3. QED  BY <1>1, <1>6, <2>1, <2>2, RecordMoves
<1>8. AttemptsInOrder'
  <2> SUFFICES ASSUME NEW q \in Runs, NEW b \in Applications, NEW t \in Range(Stages),
                      NEW k \in 1..DispatchLimit, calls'[<<q, b, t, k>>].state # "absent",
                      NEW m \in 1..k
               PROVE  calls'[<<q, b, t, m>>].state # "absent"
    BY DEF AttemptsInOrder
  <2>1. m \in 1..DispatchLimit /\ m <= k /\ DispatchLimit \in Nat
    BY ResumeStoreAssumption
  <2>2. <<q, b, t, k>> \in CallIds /\ <<q, b, t, m>> \in CallIds
    BY <2>1 DEF CallIds
  <2>3. CASE <<q, b, t, m>> = c
    BY <1>3, <1>6, <2>3
  <2>4. CASE <<q, b, t, m>> # c
    <3>1. calls'[<<q, b, t, m>>] = calls[<<q, b, t, m>>]
      BY <1>6, <2>2, <2>4
    <3>2. CASE <<q, b, t, k>> = c
      BY <1>1, <2>1, <2>4, <3>1, <3>2
    <3>3. CASE <<q, b, t, k>> # c
      BY <1>6, <2>2, <3>1, <3>3 DEF SpendInv, AttemptsInOrder
    <3>4. QED  BY <3>2, <3>3
  <2>5. QED  BY <2>3, <2>4
<1> HIDE DEF c
<1>9. Counted(runs', calls')
  <2> SUFFICES ASSUME NEW q \in Runs
               PROVE  /\ runs'[q].active = HeldBy(calls', q, OpenCallStates)
                      /\ runs'[q].indeterminate = HeldBy(calls', q, {"indeterminate"})
                      /\ runs'[q].verified = PaidBy(calls', q)
    BY DEF Counted
  <2>1. CASE q = r
    BY <1>1, <1>3, <1>4, <1>5, <1>6, <2>1, CountersMove
  <2>2. CASE q # r
    BY <1>1, <1>5, <1>6, <2>2, CountersMove
  <2>3. QED  BY <2>1, <2>2
<1>10. SpendWithinCeiling'
  <2>1. runs[r].active \in Nat /\ runs[r].verified \in Nat /\ runs[r].indeterminate \in Nat
        /\ Ceiling \in Nat
    BY ResumeStoreAssumption DEF StoreTypeOK, RunRows
  <2>2. \A q \in Runs : Committed(q)' <= Ceiling
    BY <1>2, <1>4, <1>6, <2>1 DEF SpendInv, SpendWithinCeiling, Committed
  <2>3. QED  BY <2>2 DEF SpendWithinCeiling
<1>11. QED  BY <1>5, <1>7, <1>8, <1>9, <1>10 DEF SpendInv

\* mark_call_dispatching
LEMMA MarkSpend ==
    ASSUME StoreTypeOK, SpendInv, NEW c \in CallIds, MarkCallDispatching(c)
    PROVE  StoreTypeOK' /\ SpendInv'
<1>1. StoreTypeOK'
  BY MarkWrites
<1>2. /\ calls[c].state = "reserved" /\ calls'[c].state = "dispatching"
      /\ calls'[c].reservation = calls[c].reservation
      /\ \A d \in CallIds \ {c} : calls'[d] = calls[d]
      /\ runs' = runs
  BY DEF MarkCallDispatching, StoreTypeOK, CallRows
<1>3. IsFiniteSet(OnRecord(calls')) /\ CallsHaveRuns'
  BY <1>2, RecordMoves DEF SpendInv, CallsHaveRuns
<1>4. \A d \in CallIds : calls'[d].state # "absent" <=> calls[d].state # "absent"
  BY <1>2
<1>5. AttemptsInOrder'
  <2>1. \A r \in Runs, a \in Applications, s \in Range(Stages), n \in 1..DispatchLimit :
            /\ <<r, a, s, n>> \in CallIds
            /\ \A m \in 1..n : <<r, a, s, m>> \in CallIds
    BY ResumeStoreAssumption DEF CallIds
  <2>2. QED  BY <1>4, <2>1 DEF SpendInv, AttemptsInOrder
<1>6. Counted(runs', calls')
  BY <1>1, <1>2, CountersMove DEF Counted
<1>7. SpendWithinCeiling'
  BY <1>2 DEF SpendInv, SpendWithinCeiling, Committed
<1>8. QED  BY <1>1, <1>3, <1>5, <1>6, <1>7 DEF SpendInv

\* resolve_call
LEMMA ResolveSpend ==
    ASSUME StoreTypeOK, SpendInv, NEW c \in CallIds,
           NEW state \in {"settled", "not_transmitted", "indeterminate"}, NEW cost,
           ResolveCall(c, state, cost)
    PROVE  StoreTypeOK' /\ SpendInv'
<1> DEFINE r == c[1]
           held == calls[c].reservation
           call == [calls[c] EXCEPT !.state = state, !.cost = cost]
           row == ResolvedCounters(runs[r], held, state, cost)
<1>1. r \in Runs /\ runs[r] \in RunRows /\ calls[c] \in CallRows /\ held \in Nat
  BY DEF CallIds, StoreTypeOK, CallRows
<1>2. cost \in 0..held /\ calls[c].state \in OpenCallStates
  BY DEF ResolveCall
<1>3. /\ calls' = [calls EXCEPT ![c] = call] /\ runs' = [runs EXCEPT ![r] = row]
      /\ candidates' = candidates
  BY DEF ResolveCall, StoreTypeOK
<1>4. call \in CallRows /\ call.state = state /\ call.reservation = held /\ call.cost = cost
  <2>1. cost \in Nat /\ state \in CallStates
    BY <1>1, <1>2 DEF CallStates
  <2> HIDE DEF held
  <2>2. QED  BY <1>1, <2>1 DEF CallRows, held
<1> HIDE DEF call
<1>5. calls'[c] = call /\ \A d \in CallIds \ {c} : calls'[d] = calls[d]
  BY <1>3 DEF StoreTypeOK
<1>6. /\ runs[r].active \in Nat /\ runs[r].verified \in Nat /\ runs[r].indeterminate \in Nat
      /\ runs[r].lifecycle # "absent" /\ Ceiling \in Nat
      /\ runs[r].verified + runs[r].active + runs[r].indeterminate <= Ceiling
  BY <1>1, <1>2, ResumeStoreAssumption
  DEF RunRows, SpendInv, CallsHaveRuns, SpendWithinCeiling, Committed, OpenCallStates
<1>7. held <= runs[r].active
  <2>1. /\ Held(calls)[c] = held
        /\ \A d \in CallIds : Held(calls)[d] \in Nat
    BY DEF Held, StoreTypeOK, CallRows
  <2>2. c \in Among(calls, r, OpenCallStates)
    BY <1>2 DEF Among
  <2>3. IsFiniteSet(Among(calls, r, OpenCallStates)) /\ Among(calls, r, OpenCallStates) \subseteq CallIds
    BY AmongIsFinite DEF SpendInv, OpenCallStates
  <2>4. Held(calls)[c] <= HeldBy(calls, r, OpenCallStates)
    <3>1. \A d \in Among(calls, r, OpenCallStates) : Held(calls)[d] \in Nat
      BY <2>1, <2>3
    <3>2. QED  BY <2>2, <2>3, <3>1, SumBounds DEF HeldBy
  <2>5. QED  BY <1>1, <2>1, <2>4 DEF SpendInv, Counted
<1>8. /\ row \in RunRows /\ row.lifecycle = runs[r].lifecycle
      /\ row.active = runs[r].active - held
      /\ row.verified = runs[r].verified + (IF state = "settled" THEN cost ELSE 0)
      /\ row.indeterminate = runs[r].indeterminate + (IF state = "indeterminate" THEN held ELSE 0)
  <2>1. runs[r].active - held \in Nat /\ runs[r].verified + cost \in Nat
        /\ runs[r].indeterminate + held \in Nat
    BY <1>1, <1>2, <1>6, <1>7
  <2> DEFINE active == runs[r].active - held
             verified == IF state = "settled" THEN runs[r].verified + cost ELSE runs[r].verified
             lost == IF state = "indeterminate" THEN runs[r].indeterminate + held
                                                ELSE runs[r].indeterminate
  <2>2. active \in Nat /\ verified \in Nat /\ lost \in Nat
    BY <1>6, <2>1
  <2>3. row = WithCounters(runs[r], active, verified, lost)
    BY <1>1 DEF RunRows, ResolvedCounters, WithCounters
  <2> HIDE DEF row, active, verified, lost
  <2>4. HasCounters(row, runs[r], active, verified, lost)
    BY <1>1, <2>2, <2>3, CountersWritten, Zenon
  <2>5. QED  BY <1>6, <2>4 DEF HasCounters, active, verified, lost
<1> HIDE DEF row, held
<1>9. StoreTypeOK'
  BY <1>1, <1>3, <1>4, <1>8 DEF StoreTypeOK
<1>10. runs'[r] = row /\ \A q \in Runs \ {r} : runs'[q] = runs[q]
  BY <1>1, <1>3 DEF StoreTypeOK
<1>11. IsFiniteSet(OnRecord(calls')) /\ CallsHaveRuns'
  <2>1. \A q \in Runs : runs'[q].lifecycle = runs[q].lifecycle
    BY <1>8, <1>10
  <2>2. QED  BY <1>4, <1>5, <1>6, <2>1, RecordMoves
<1>12. AttemptsInOrder'
  <2>1. \A q \in Runs, a \in Applications, s \in Range(Stages), n \in 1..DispatchLimit :
            /\ <<q, a, s, n>> \in CallIds
            /\ \A m \in 1..n : <<q, a, s, m>> \in CallIds
    BY ResumeStoreAssumption DEF CallIds
  <2>2. \A d \in CallIds : calls'[d].state # "absent" <=> calls[d].state # "absent"
    BY <1>2, <1>4, <1>5 DEF OpenCallStates
  <2>3. QED  BY <2>1, <2>2 DEF SpendInv, AttemptsInOrder
<1>13. Counted(runs', calls')
  <2> SUFFICES ASSUME NEW q \in Runs
               PROVE  /\ runs'[q].active = HeldBy(calls', q, OpenCallStates)
                      /\ runs'[q].indeterminate = HeldBy(calls', q, {"indeterminate"})
                      /\ runs'[q].verified = PaidBy(calls', q)
    BY DEF Counted
  <2>1. CASE q = r
    <3>1. /\ HeldBy(calls', r, OpenCallStates) = runs[r].active - calls[c].reservation
          /\ HeldBy(calls', r, {"indeterminate"}) =
                 runs[r].indeterminate + (IF calls'[c].state = "indeterminate"
                                          THEN calls'[c].reservation ELSE 0)
          /\ PaidBy(calls', r) =
                 runs[r].verified + (IF calls'[c].state = "settled" THEN calls'[c].cost ELSE 0)
      BY <1>1, <1>2, <1>4, <1>5, <1>9, CountersMove
    <3>2. QED  BY <1>4, <1>5, <1>8, <1>10, <2>1, <3>1 DEF held
  <2>2. CASE q # r
    BY <1>5, <1>9, <1>10, <2>2, CountersMove
  <2>3. QED  BY <2>1, <2>2
<1>14. SpendWithinCeiling'
  <2>1. held \in Nat /\ cost \in Nat /\ cost <= held
    BY <1>1, <1>2
  <2>2. runs'[r].verified + runs'[r].active + runs'[r].indeterminate <= Ceiling
    BY <1>6, <1>7, <1>8, <1>10, <2>1
  <2>3. \A q \in Runs : Committed(q)' <= Ceiling
    BY <1>10, <2>2 DEF SpendInv, SpendWithinCeiling, Committed
  <2>4. QED  BY <2>3 DEF SpendWithinCeiling
<1>15. QED  BY <1>9, <1>11, <1>12, <1>13, <1>14 DEF SpendInv

-----------------------------------------------------------------------------
(* The store under any callers                                             *)

LEMMA InvInit == StoreInit => StoreTypeOK /\ SpendInv
<1> SUFFICES ASSUME StoreInit PROVE StoreTypeOK /\ SpendInv
  OBVIOUS
<1>1. StoreTypeOK
  <2>1. NoRun \in RunRows
    BY DEF NoRun, RunRows
  <2>2. NoCandidate \in CandidateRows
    BY DEF NoCandidate, CandidateRows, CandidateReasons
  <2>3. NoCall \in CallRows
    BY DEF NoCall, CallRows
  <2>4. QED  BY <2>1, <2>2, <2>3 DEF StoreInit, StoreTypeOK
<1>2. \A c \in CallIds : calls[c].state = "absent"
  BY DEF StoreInit, NoCall
<1>3. OnRecord(calls) = {}
  BY <1>2 DEF OnRecord
<1>4. AttemptsInOrder
  BY <1>2 DEF AttemptsInOrder, CallIds
<1>5. \A r \in Runs : runs[r].active = 0 /\ runs[r].indeterminate = 0 /\ runs[r].verified = 0
  BY DEF StoreInit, NoRun
<1>6. Counted(runs, calls)
  <2>1. \A r, states : "absent" \notin states => Among(calls, r, states) = {}
    BY <1>2 DEF Among
  <2>2. QED  BY <1>5, <2>1, SumEmpty DEF Counted, HeldBy, PaidBy, OpenCallStates
<1>7. SpendWithinCeiling
  BY <1>5, ResumeStoreAssumption DEF SpendWithinCeiling, Committed
<1>8. QED  BY <1>1, <1>2, <1>3, <1>4, <1>6, <1>7, FS_EmptySet DEF SpendInv, CallsHaveRuns

LEMMA InvStep == StoreTypeOK /\ SpendInv /\ [StoreNext]_storeVars => (StoreTypeOK /\ SpendInv)'
<1> SUFFICES ASSUME StoreTypeOK, SpendInv, [StoreNext]_storeVars
             PROVE  StoreTypeOK' /\ SpendInv'
  OBVIOUS
<1>1. StoreTypeOK' /\ SpendRests => SpendInv'
  BY SpendRest
<1>2. ASSUME NEW r \in Runs, NEW key \in Keys, NEW target \in Targets, NEW queue \in Queues,
             NEW exhausted \in BOOLEAN, StartRun(r, key, target, queue, exhausted)
      PROVE  StoreTypeOK' /\ SpendRests
  <2>1. queue \in Seq(Applications)
    BY ResumeStoreAssumption
  <2>2. QED  BY <1>2, <2>1, StartRunWrites DEF SpendInv
<1>3. ASSUME NEW r \in Runs, Unfinished(r),
             Begin(r) \/ Finish(r) \/ Cancel(r) \/ FinishCancellation(r)
      PROVE  StoreTypeOK' /\ SpendRests
  BY <1>3, RunWrites, FinishCancellationWrites
<1>4. ASSUME NEW r \in Runs, NEW a \in Applications,
             \/ BeginCandidate(r, a) \/ StartArtifactSet(r, a)
             \/ \E v \in Versions : AdmitCandidate(r, a, v)
             \/ FailCandidate(r, a, "failed")
      PROVE  StoreTypeOK' /\ SpendRests
  BY <1>4, CandidateWrites DEF CandidateReasons
<1>5. ASSUME NEW r \in Runs, NEW a \in Applications, CompleteCandidate(r, a)
      PROVE  StoreTypeOK' /\ SpendRests
  BY <1>5, CompleteWrites
<1>6. ASSUME NEW r \in Runs, NEW a \in Applications, NEW s \in Range(Stages),
             NEW amount \in Reservations, ReserveCall(r, a, s, amount)
      PROVE  StoreTypeOK' /\ SpendInv'
  <2>1. amount \in Nat
    BY ResumeStoreAssumption
  <2>2. QED  BY <1>6, <2>1, ReserveSpend
<1>7. ASSUME NEW c \in CallIds, MarkCallDispatching(c)
      PROVE  StoreTypeOK' /\ SpendInv'
  BY <1>7, MarkSpend
<1>8. ASSUME NEW c \in CallIds, NEW state \in {"settled", "not_transmitted", "indeterminate"},
             NEW cost, ResolveCall(c, state, cost)
      PROVE  StoreTypeOK' /\ SpendInv'
  BY <1>8, ResolveSpend
<1>9. CASE UNCHANGED storeVars
  <2>1. StoreTypeOK' /\ SpendRests
    BY <1>9 DEF storeVars, StoreTypeOK, SpendRests
  <2>2. QED  BY <1>1, <2>1
<1>10. CASE StoreNext
  BY <1>10, <1>1, <1>2, <1>3, <1>4, <1>5, <1>6, <1>7, <1>8, Zenon DEF StoreNext
<1>11. QED  BY <1>9, <1>10

\* Every table of the store holds rows its CHECK constraints admit: the
\* counters, moved by deltas, never fall below zero.
THEOREM StoreTypes == StoreSpec => []StoreTypeOK
<1>1. QED  BY InvInit, InvStep, PTL DEF StoreSpec

\* The invariant of the spend is one.
LEMMA SpendSafety == StoreSpec => []SpendInv
<1>1. QED  BY InvInit, InvStep, PTL DEF StoreSpec

\* The counters a run is stopped by are, after any calls of the store's
\* methods in any order, the sums of its calls.
THEOREM CountersStayTheCalls == StoreSpec => []CountersAreTheCalls
<1>1. SpendInv => CountersAreTheCalls
  BY CountersAreSums DEF SpendInv
<1>2. QED  BY <1>1, SpendSafety, PTL

\* Committed Spend never passes the ceiling.
THEOREM SpendStaysWithinCeiling == StoreSpec => []SpendWithinCeiling
<1>1. SpendInv => SpendWithinCeiling
  BY DEF SpendInv
<1>2. QED  BY <1>1, SpendSafety, PTL

\* The attempts of a stage are taken in order: a call is never reserved under
\* an index that is taken, and its UNIQUE constraint never fires.
THEOREM AttemptsStayInOrder == StoreSpec => []AttemptsInOrder
<1>1. SpendInv => AttemptsInOrder
  BY DEF SpendInv
<1>2. QED  BY <1>1, SpendSafety, PTL

=============================================================================
