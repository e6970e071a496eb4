-------------------------- MODULE AnalysisRunsProofs --------------------------
(***************************************************************************)
(* Theorems about AnalysisRuns, for every set of runs, Applications,       *)
(* workers, calls and start requests, and any number of faults.            *)
(*                                                                         *)
(* First: what the service does to the store is what a store may do        *)
(* (Spec => StoreSpec), so the theorems of the store hold of it.  Then the *)
(* service's own: what a worker knows of its run while it holds the lease  *)
(* (Leading), what it knows of the page whether it does or not (Seen).     *)
(*                                                                         *)
(* A second Analysis body and a second purchase are excluded for start     *)
(* requests that come one at a time (OneStarter); with two at once the     *)
(* first of them does happen.                                              *)
(***************************************************************************)
EXTENDS AnalysisRuns, AnalysisRunStoreProofs

-----------------------------------------------------------------------------
(* What a worker's locals say by themselves                                *)

\* The steps of a candidate's evaluation, and those that may keep a call.
Evaluates == {"recovering", "confirm", "judge", "load", "reserve", "dispatch", "transmit",
              "answered", "protect", "guard", "append", "appended", "settle", "rejected",
              "unsettled", "finalize", "finalized"}

Holding == {"dispatch", "transmit", "answered", "protect", "guard", "append", "appended",
            "settle", "rejected", "unsettled"}

\* The outcomes an evaluation asks for, and those the loop does.
Stops == {"failed", "authorization_blocked", "spend_limited"}

Ends == {"target_met", "cancelled", "queue_exhausted", "attempt_budget_exhausted"}

Completed == {"analyzed", "repaired"}

\* v is a worker's row, cs the calls table.
Located(v, cs) ==
    /\ v.pc # "idle" => v.run \in Runs
    /\ v.pc \in Evaluates \cup {"record"} => v.app \in Applications
    /\ v.pc = "record" => /\ v.verdict.state \in TerminalCandidateStates
                          /\ v.verdict.stop \in Stops \cup {"none"}
    /\ v.pc = "finish" => v.verdict.stop \in Ends
    /\ v.pc \in {"finalize", "finalized"} => v.stage = "finalize"
    /\ v.stage = "finalize" =>
          v.pc \in {"protect", "guard", "finalize", "finalized", "rejected"} /\ v.call = "none"
    /\ v.pc \in {"protect", "guard", "append", "appended", "settle", "finalize", "finalized"} =>
          v.result \in Completed
    /\ v.pc \in {"dispatch", "transmit", "answered", "unsettled"} => v.call # "none"
    /\ v.call # "none" =>
          /\ v.pc \in Holding
          /\ cs[v.call].state # "absent"
          /\ cs[v.call].run = v.run
          /\ cs[v.call].application = v.app

\* What its reads and writes have shown it of the page, lease or no lease: an
\* Analysis body and final properties are never taken away.
Seen(v, pg) ==
    /\ v.pc = "confirm" => pg[v.app].bodies > 0 /\ pg[v.app].analyzed
    /\ v.stage = "finalize" => pg[v.app].bodies > 0
    /\ v.pc \in {"appended", "settle"} => pg[v.app].bodies > 0
    /\ v.pc = "finalized" => pg[v.app].analyzed
    /\ v.pc = "record" /\ v.verdict.state \in Completed =>
          pg[v.app].bodies > 0 /\ pg[v.app].analyzed

-----------------------------------------------------------------------------
(* What a worker knows while its lease is current                          *)

\* Every candidate of the run has its result.
AllDecided(row, cands) ==
    \A a \in Range(row.queue) : cands[a] \in TerminalCandidateStates

\* row is the run's, cands its candidates.
Leading(v, row, cands) ==
    /\ v.pc \in Evaluates \cup {"record"} => cands[v.app] = "evaluating"
    /\ v.pc \in {"renew", "claim"} =>
          /\ row.completions < row.target
          /\ v.resumed \/ \A a \in Applications : cands[a] # "evaluating"
    /\ v.pc = "finish" /\ v.verdict.stop = "target_met" => row.completions >= row.target
    /\ v.pc = "finish" /\ v.verdict.stop \in {"queue_exhausted", "attempt_budget_exhausted"}
                       /\ row.lifecycle = "running" =>
          /\ AllDecided(row, cands)
          /\ row.truncated <=> v.verdict.stop = "attempt_budget_exhausted"

\* A run's row and its candidates.
RunAccount(row, cands) ==
    /\ row.lifecycle # "absent" =>
          /\ \A a \in Range(row.queue) : cands[a] # "absent"
          /\ row.completions <= row.target
    /\ row.outcome # "none" => row.lifecycle = "finished"
    /\ row.lifecycle = "queued" => row.lease = 0
    /\ (\E a \in Applications : cands[a] = "evaluating") => row.completions < row.target
    /\ row.outcome = "target_met" => row.completions = row.target
    /\ row.outcome \in {"queue_exhausted", "attempt_budget_exhausted"} =>
          /\ AllDecided(row, cands)
          /\ row.truncated <=> row.outcome = "attempt_budget_exhausted"

LocatedAll == \A w \in Workers : Located(worker[w], calls)

SeenAll == \A w \in Workers : Seen(worker[w], page)

LeadersKnow ==
    \A w \in Workers : Leads(w) => Leading(worker[w], runs[Mine(w)], candidates[Mine(w)])

RunsAccounted == \A r \in Runs : RunAccount(runs[r], candidates[r])

\* The inductive invariant of the service, whatever requests come.
ServiceInv ==
    /\ StoreInv /\ SpendInv /\ ProgressIsCounted /\ TransmissionsInOrder
    /\ RunsTypeOK
    /\ LocatedAll /\ SeenAll
    /\ LeadersKnow
    /\ RunsAccounted
    /\ ResultsMatchNotion

-----------------------------------------------------------------------------
(* The Applications, when one start request comes at a time                *)

OneStarter == \A s, t \in Starters : s = t

\* The workers whose append to an Application is out, or was rejected and
\* still has its quarantine.
Appending(a) ==
    {w \in Workers : /\ worker[w].app = a
                     /\ \/ worker[w].pc = "append"
                        \/ worker[w].pc = "rejected" /\ worker[w].stage = "append"}

\* An Application is appended to by one worker, when it is blank and no append
\* is still to come; while one is out or may come it is under quarantine.
AppendsApart ==
    \A a \in Applications :
        /\ page[a].bodies + page[a].late <= 1
        /\ page[a].late > 0 => a \in quarantine
        /\ \A w \in Appending(a) :
              /\ a \in quarantine /\ page[a].bodies = 0 /\ page[a].late = 0
              /\ \A v \in Appending(a) : v = w
              /\ \A c \in Calls : calls[c].application = a => calls[c].result # "commit_unknown"

\* What a settled draft says of the page.
DraftsShow ==
    \A c \in Calls : LET a == calls[c].application IN
        calls[c].state # "absent" =>
            /\ calls[c].result = "valid" => page[a].bodies > 0
            /\ calls[c].result = "commit_unknown" => page[a].bodies > 0 \/ a \in quarantine

\* A candidate nobody has evaluated yet is under no quarantine.
PendingUntouched ==
    \A r \in Runs, a \in Applications :
        Unfinished(r) /\ candidates[r][a] = "pending" => a \notin quarantine

\* While a start request is under way no run is, and what it leaves out holds
\* every quarantine.
StartAlone ==
    \A s \in Starters :
        /\ starter[s].pc # "idle" => NoActiveRun
        /\ starter[s].pc = "snapshot" => quarantine \subseteq starter[s].seen

\* The call bought a draft, or its response was paid for and lost.
Spent(call) ==
    call.result \in Bought \/ (call.state = "settled" /\ call.result = "received")

\* Of the transmissions of an Application in a run, all but x bought nothing.
Unspent(cs, r, a, x) ==
    \A c \in Calls \ {x} :
        cs[c].run = r /\ cs[c].application = a /\ cs[c].slot # 0 => ~Spent(cs[c])

\* What the holder of the lease knows before it buys, and before it appends.
Buying(v, pg, q, cs) ==
    /\ v.pc = "load" =>
          \/ pg[v.app].bodies > 0
          \/ v.app \notin q /\ Unspent(cs, v.run, v.app, v.call)
    /\ v.pc \in {"reserve", "dispatch", "transmit", "answered"} =>
          pg[v.app].bodies = 0 /\ v.app \notin q /\ Unspent(cs, v.run, v.app, v.call)
    /\ v.pc \in {"protect", "guard"} /\ v.stage = "append" =>
          pg[v.app].bodies = 0 /\ v.app \notin q


-----------------------------------------------------------------------------
(* The rows of workers                                                     *)

VerdictRows == [state : TerminalCandidateStates \cup {"none"}, stop : Outcomes \cup {"none"}]

RowsGiving(verdicts) ==
    [pc : Steps, run : Runs \cup {"none"}, app : Applications \cup {"none"},
     resumed : BOOLEAN, retry : BOOLEAN, stage : {"append", "finalize"},
     call : Calls \cup {"none"}, tries : Nat, unsent : Nat,
     result : {"none", "analyzed", "repaired"}, verdict : verdicts]

WorkerRows == RowsGiving(VerdictRows)

Pages == [bodies : Nat, analyzed : BOOLEAN, late : Nat]

\* The rows a worker moves on to.
AtPc(v, pc) == [v EXCEPT !.pc = pc]

Verdict(v, state, stop) ==
    [AtRest EXCEPT !.pc = "record", !.run = v.run, !.app = v.app, !.retry = v.retry,
                   !.verdict = [state |-> state, stop |-> stop]]

Ending(v, outcome) ==
    [AtRest EXCEPT !.pc = "finish", !.run = v.run,
                   !.verdict = [state |-> "none", stop |-> outcome]]

Finalizing(v, result) == [v EXCEPT !.pc = "protect", !.stage = "finalize", !.result = result]

Again(v, tries, unsent) ==
    [v EXCEPT !.pc = "reserve", !.call = "none", !.tries = tries, !.unsent = unsent]

Drafted(v, pending) ==
    [v EXCEPT !.pc = "protect", !.stage = "append", !.call = pending, !.result = "analyzed"]

\* u keeps the run and the Application of v, and what it does and holds there.
SamePlace(u, v) == u.run = v.run /\ u.app = v.app

SameWork(u, v) ==
    /\ SamePlace(u, v)
    /\ u.stage = v.stage /\ u.call = v.call /\ u.result = v.result
    /\ u.verdict = v.verdict /\ u.resumed = v.resumed /\ u.retry = v.retry

\* Nothing is under way.
Empty(u) == u.stage = "append" /\ u.call = "none" /\ u.result = "none" /\ u.verdict = NoVerdict

LEMMA RestFields ==
    AtRest \in WorkerRows /\ AtRest.pc = "idle" /\ AtRest.run = "none" /\ Empty(AtRest)
  BY DEF AtRest, WorkerRows, RowsGiving, VerdictRows, NoVerdict, Steps, Empty

LEMMA AtPcFields ==
    ASSUME NEW v \in WorkerRows, NEW pc \in Steps
    PROVE  AtPc(v, pc) \in WorkerRows /\ AtPc(v, pc).pc = pc /\ SameWork(AtPc(v, pc), v)
  BY DEF AtPc, WorkerRows, RowsGiving, SameWork, SamePlace

LEMMA VerdictFields ==
    ASSUME NEW v \in WorkerRows, NEW state \in TerminalCandidateStates,
           NEW stop \in Stops \cup {"none"}
    PROVE  LET u == Verdict(v, state, stop) IN
           /\ u \in WorkerRows /\ u.pc = "record" /\ SamePlace(u, v)
           /\ u.stage = "append" /\ u.call = "none" /\ u.retry = v.retry
           /\ u.verdict.state = state /\ u.verdict.stop = stop
<1> DEFINE verdict == [state |-> state, stop |-> stop]
<1>1. verdict \in VerdictRows /\ verdict.state = state /\ verdict.stop = stop
  BY DEF Stops, Outcomes, VerdictRows
<1> DEFINE row == [AtRest EXCEPT !.pc = "record", !.run = v.run, !.app = v.app, !.retry = v.retry,
                                 !.verdict = verdict]
<1>2. Verdict(v, state, stop) = row
  BY DEF Verdict
<1> HIDE DEF verdict
<1>3. row \in WorkerRows
  BY <1>1 DEF AtRest, WorkerRows, RowsGiving, Steps
<1>4. /\ row.pc = "record" /\ row.run = v.run /\ row.app = v.app
      /\ row.stage = "append" /\ row.call = "none" /\ row.retry = v.retry
      /\ row.verdict = verdict
  BY <1>1 DEF AtRest, WorkerRows, RowsGiving, Steps
<1> HIDE DEF row
<1>5. QED  BY <1>1, <1>2, <1>3, <1>4 DEF SamePlace

LEMMA EndingFields ==
    ASSUME NEW v \in WorkerRows, NEW outcome \in Ends
    PROVE  LET u == Ending(v, outcome) IN
           /\ u \in WorkerRows /\ u.pc = "finish" /\ u.run = v.run
           /\ u.stage = "append" /\ u.call = "none" /\ u.verdict.stop = outcome
<1> DEFINE verdict == [state |-> "none", stop |-> outcome]
<1>1. verdict \in VerdictRows /\ verdict.stop = outcome
  BY DEF Ends, Outcomes, VerdictRows
<1> DEFINE row == [AtRest EXCEPT !.pc = "finish", !.run = v.run, !.verdict = verdict]
<1>2. Ending(v, outcome) = row
  BY DEF Ending
<1> HIDE DEF verdict
<1>3. row \in WorkerRows
  BY <1>1 DEF AtRest, WorkerRows, RowsGiving, Steps
<1>4. /\ row.pc = "finish" /\ row.run = v.run /\ row.stage = "append"
      /\ row.call = "none" /\ row.verdict = verdict
  BY <1>1 DEF AtRest, WorkerRows, RowsGiving, Steps
<1> HIDE DEF row
<1>5. QED  BY <1>1, <1>2, <1>3, <1>4

LEMMA FinalizingFields ==
    ASSUME NEW v \in WorkerRows, NEW result \in Completed
    PROVE  LET u == Finalizing(v, result) IN
           /\ u \in WorkerRows /\ u.pc = "protect" /\ SamePlace(u, v)
           /\ u.stage = "finalize" /\ u.call = v.call /\ u.result = result
  BY DEF Finalizing, WorkerRows, RowsGiving, Steps, Completed, SamePlace

LEMMA AgainFields ==
    ASSUME NEW v \in WorkerRows, NEW tries \in Nat, NEW unsent \in Nat
    PROVE  LET u == Again(v, tries, unsent) IN
           /\ u \in WorkerRows /\ u.pc = "reserve" /\ SamePlace(u, v)
           /\ u.stage = v.stage /\ u.call = "none"
  BY DEF Again, WorkerRows, RowsGiving, Steps, SamePlace

LEMMA DraftedFields ==
    ASSUME NEW v \in WorkerRows, NEW pending \in Calls \cup {"none"}
    PROVE  LET u == Drafted(v, pending) IN
           /\ u \in WorkerRows /\ u.pc = "protect" /\ SamePlace(u, v)
           /\ u.stage = "append" /\ u.call = pending /\ u.result = "analyzed"
  BY DEF Drafted, WorkerRows, RowsGiving, Steps, SamePlace

-----------------------------------------------------------------------------
(* The steps of a worker, by the row they end in                           *)

\* Only w moves, to this row.
Turns(w, row) == row \in WorkerRows /\ worker' = [worker EXCEPT ![w] = row]

\* The rows of the workers are well typed, and so are the pages.
RowsOK == worker \in [Workers -> WorkerRows] /\ page \in [Applications -> Pages]

LEMMA GoesTurns ==
    ASSUME RowsOK, NEW w \in Workers, NEW pc \in Steps, Goes(w, pc)
    PROVE  Turns(w, AtPc(worker[w], pc))
<1>1. worker[w] \in WorkerRows
  BY DEF RowsOK
<1>2. worker' = [worker EXCEPT ![w] = [worker[w] EXCEPT !.pc = pc]]
  BY DEF Goes
<1>3. QED  BY <1>1, <1>2, AtPcFields DEF Turns, AtPc

LEMMA RestsTurns ==
    ASSUME NEW w \in Workers, Rests(w)
    PROVE  Turns(w, AtRest)
  BY RestFields DEF Rests, Turns

LEMMA ConcludesTurns ==
    ASSUME RowsOK, NEW w \in Workers, NEW state \in TerminalCandidateStates,
           NEW stop \in Stops \cup {"none"}, Concludes(w, state, stop)
    PROVE  Turns(w, Verdict(worker[w], state, stop))
<1>1. worker[w] \in WorkerRows
  BY DEF RowsOK
<1>2. worker' = [worker EXCEPT ![w] = Verdict(worker[w], state, stop)]
  BY DEF Concludes, Verdict, Mine
<1>3. QED  BY <1>1, <1>2, VerdictFields DEF Turns

LEMMA FinishesTurns ==
    ASSUME RowsOK, NEW w \in Workers, NEW outcome \in Ends, Finishes(w, outcome)
    PROVE  Turns(w, Ending(worker[w], outcome))
<1>1. worker[w] \in WorkerRows
  BY DEF RowsOK
<1>2. worker' = [worker EXCEPT ![w] = Ending(worker[w], outcome)]
  BY DEF Finishes, ToFinish, Ending, Mine
<1>3. QED  BY <1>1, <1>2, EndingFields DEF Turns

LEMMA FinalizesTurns ==
    ASSUME RowsOK, NEW w \in Workers, NEW result \in Completed, Finalizes(w, result)
    PROVE  Turns(w, Finalizing(worker[w], result))
<1>1. worker[w] \in WorkerRows
  BY DEF RowsOK
<1>2. worker' = [worker EXCEPT ![w] = Finalizing(worker[w], result)]
  BY <1>1 DEF Finalizes, Finalizing, RowsOK, WorkerRows, RowsGiving
<1>3. QED  BY <1>1, <1>2, FinalizingFields DEF Turns

LEMMA DraftsTurns ==
    ASSUME RowsOK, NEW w \in Workers, NEW pending \in Calls \cup {"none"}, Drafts(w, pending)
    PROVE  Turns(w, Drafted(worker[w], pending))
<1>1. worker[w] \in WorkerRows
  BY DEF RowsOK
<1>2. worker' = [worker EXCEPT ![w] = Drafted(worker[w], pending)]
  BY <1>1 DEF Drafts, Drafted, RowsOK, WorkerRows, RowsGiving
<1>3. QED  BY <1>1, <1>2, DraftedFields DEF Turns

LEMMA CallsAgainTurns ==
    ASSUME RowsOK, NEW w \in Workers, NEW tries \in Nat, NEW unsent \in Nat, NEW Otherwise,
           CallsAgain(w, tries, unsent, Otherwise)
    PROVE  Otherwise \/ Turns(w, Again(worker[w], tries, unsent))
<1>1. worker[w] \in WorkerRows
  BY DEF RowsOK
<1>2. Otherwise \/ worker' = [worker EXCEPT ![w] = Again(worker[w], tries, unsent)]
  BY <1>1 DEF CallsAgain, Again, RowsOK, WorkerRows, RowsGiving
<1>3. QED  BY <1>1, <1>2, AgainFields DEF Turns

LEMMA RowsAreTyped == RunsTypeOK => RowsOK
  BY DEF RunsTypeOK, RowsOK, WorkerRows, RowsGiving, VerdictRows, Pages

-----------------------------------------------------------------------------
(* What the workers' steps do to the store                                 *)

\* The holder of the lease gives the call c this state and this result.
Writes(c, w, state, result) ==
    /\ StoreNext
    /\ UNCHANGED <<runs, candidates, quarantine>>
    /\ CurrentLease(calls[c].run, w, Leased)
    /\ calls[c].state \in ActiveCallStates
    /\ \A d \in Calls \ {c} : calls'[d] = calls[d]
    /\ KeepsCandidate(c)
    /\ calls'[c].state = state /\ calls'[c].result = result
    /\ state \in {"released", "settled", "indeterminate", "response_recorded"}
    /\ calls'[c].slot = IF state = "released" THEN 0 ELSE calls[c].slot
    /\ state # "released" => calls[c].state \in InFlightStates

\* What is recorded of a call, when nothing replaces it.
Kept(result, old) == IF result = "none" THEN old ELSE result

LEMMA StepsOfCalls ==
    ASSUME NEW c \in Calls, NEW w \in Workers, CallStep(c, w)
    PROVE  StoreNext
  BY DEF StoreNext

LEMMA SettleWrites ==
    ASSUME StoreInv, SpendInv, NEW c \in Calls, NEW w \in Workers,
           NEW result \in ResultCodes \cup {"none"}, SettleProviderCall(c, w, 1, result)
    PROVE  Writes(c, w, "settled", Kept(result, calls[c].result))
<1>1. calls[c] \in CallRows /\ calls \in [Calls -> CallRows]
  BY DEF StoreInv, StoreTypeOK
<1>2. calls[c].reservation \in 0..Ceiling
  <2>1. Charge(calls[c]) \in 0..Ceiling
    BY ChargesFit DEF ChargesInRange
  <2>2. calls[c].state = "response_recorded"
    BY DEF SettleProviderCall
  <2>3. QED  BY <2>1, <2>2 DEF Charge, ActiveCallStates, InFlightStates
<1>3. 1 \in 0..Ceiling
  BY <1>2, StoreAssumption DEF SettleProviderCall, Settleable
<1>4. result \in Results \cup {"none"}
  BY RunsAssumption
<1>5. CallStep(c, w)
  BY <1>3, <1>4 DEF CallStep
<1> DEFINE kept == Kept(result, calls[c].result)
           row == [calls[c] EXCEPT !.state = "settled", !.cost = 1, !.result = kept]
<1>6. calls' = [calls EXCEPT ![c] = row]
  BY DEF SettleProviderCall, Kept
<1>7. /\ row.state = "settled" /\ row.slot = calls[c].slot /\ row.result = kept
      /\ row.run = calls[c].run /\ row.application = calls[c].application
  <2> HIDE DEF kept
  <2>1. QED  BY <1>1 DEF CallRows
<1> HIDE DEF row, kept
<1>8. calls'[c] = row /\ \A d \in Calls \ {c} : calls'[d] = calls[d]
  BY <1>1, <1>6
<1>9. /\ calls[c].state = "response_recorded" /\ CurrentLease(calls[c].run, w, Leased)
      /\ UNCHANGED <<runs, candidates, quarantine>>
  BY DEF SettleProviderCall
<1>10. StoreNext
  BY <1>5, StepsOfCalls
<1>11. QED
  BY <1>7, <1>8, <1>9, <1>10 DEF Writes, ActiveCallStates, InFlightStates, KeepsCandidate, kept

LEMMA IndeterminateWrites ==
    ASSUME StoreInv, NEW c \in Calls, NEW w \in Workers,
           NEW result \in ResultCodes \cup {"none"}, MarkIndeterminate(c, w, result)
    PROVE  Writes(c, w, "indeterminate", Kept(result, calls[c].result))
<1>1. calls[c] \in CallRows /\ calls \in [Calls -> CallRows]
  BY DEF StoreInv, StoreTypeOK
<1>2. result \in Results \cup {"none"}
  BY RunsAssumption
<1>3. StoreNext
  BY <1>2, StepsOfCalls DEF CallStep
<1> DEFINE kept == Kept(result, calls[c].result)
           row == [calls[c] EXCEPT !.state = "indeterminate", !.result = kept]
<1>4. calls' = [calls EXCEPT ![c] = row]
  BY DEF MarkIndeterminate, Kept
<1>5. /\ row.state = "indeterminate" /\ row.slot = calls[c].slot /\ row.result = kept
      /\ row.run = calls[c].run /\ row.application = calls[c].application
  <2> HIDE DEF kept
  <2>1. QED  BY <1>1 DEF CallRows
<1> HIDE DEF row, kept
<1>6. calls'[c] = row /\ \A d \in Calls \ {c} : calls'[d] = calls[d]
  BY <1>1, <1>4
<1>7. /\ calls[c].state \in InFlightStates /\ CurrentLease(calls[c].run, w, Leased)
      /\ UNCHANGED <<runs, candidates, quarantine>>
  BY DEF MarkIndeterminate
<1>8. QED
  BY <1>3, <1>5, <1>6, <1>7 DEF Writes, ActiveCallStates, InFlightStates, KeepsCandidate, kept

LEMMA ResponseWrites ==
    ASSUME StoreInv, NEW c \in Calls, NEW w \in Workers,
           RecordProviderCallResponse(c, w, "received")
    PROVE  Writes(c, w, "response_recorded", "received")
<1>1. calls[c] \in CallRows /\ calls \in [Calls -> CallRows]
  BY DEF StoreInv, StoreTypeOK
<1>2. "received" \in Results
  BY RunsAssumption DEF ResultCodes
<1>3. StoreNext
  BY <1>2, StepsOfCalls DEF CallStep
<1> DEFINE row == [calls[c] EXCEPT !.state = "response_recorded", !.result = "received"]
<1>4. calls' = [calls EXCEPT ![c] = row]
  BY DEF RecordProviderCallResponse
<1>5. /\ row.state = "response_recorded" /\ row.slot = calls[c].slot /\ row.result = "received"
      /\ row.run = calls[c].run /\ row.application = calls[c].application
  BY <1>1 DEF CallRows
<1> HIDE DEF row
<1>6. calls'[c] = row /\ \A d \in Calls \ {c} : calls'[d] = calls[d]
  BY <1>1, <1>4
<1>7. /\ calls[c].state \in {"dispatching", "sent"} /\ CurrentLease(calls[c].run, w, Leased)
      /\ UNCHANGED <<runs, candidates, quarantine>>
  BY DEF RecordProviderCallResponse
<1>8. QED
  BY <1>3, <1>5, <1>6, <1>7 DEF Writes, ActiveCallStates, InFlightStates, KeepsCandidate

LEMMA ReleaseWrites ==
    ASSUME StoreInv, NEW c \in Calls, NEW w \in Workers, ReleaseProviderCall(c, w)
    PROVE  Writes(c, w, "released", calls[c].result)
<1>1. calls[c] \in CallRows /\ calls \in [Calls -> CallRows]
  BY DEF StoreInv, StoreTypeOK
<1>2. StoreNext
  BY StepsOfCalls DEF CallStep
<1> DEFINE row == [calls[c] EXCEPT !.state = "released", !.slot = 0]
<1>3. calls' = [calls EXCEPT ![c] = row]
  BY DEF ReleaseProviderCall
<1>4. /\ row.state = "released" /\ row.slot = 0 /\ row.result = calls[c].result
      /\ row.run = calls[c].run /\ row.application = calls[c].application
  BY <1>1 DEF CallRows
<1> HIDE DEF row
<1>5. calls'[c] = row /\ \A d \in Calls \ {c} : calls'[d] = calls[d]
  BY <1>1, <1>3
<1>6. /\ calls[c].state \in {"reserved", "dispatching"} /\ CurrentLease(calls[c].run, w, Leased)
      /\ UNCHANGED <<runs, candidates, quarantine>>
  BY DEF ReleaseProviderCall
<1>7. QED
  BY <1>2, <1>4, <1>5, <1>6 DEF Writes, ActiveCallStates, InFlightStates, KeepsCandidate

\* The holder of the lease puts the call c in flight.
Sends(c, w) ==
    /\ StoreNext
    /\ UNCHANGED <<runs, candidates, quarantine>>
    /\ CurrentLease(calls[c].run, w, Leased)
    /\ Dispatched(c)
    /\ calls'[c].result = calls[c].result
    /\ \A d \in Calls \ {c} : calls'[d] = calls[d]

LEMMA DispatchSends ==
    ASSUME StoreInv, NEW c \in Calls, NEW w \in Workers, BeginProviderDispatch(c, w)
    PROVE  Sends(c, w)
<1>1. calls[c] \in CallRows /\ calls \in [Calls -> CallRows]
  BY DEF StoreInv, StoreTypeOK
<1>2. StoreNext
  BY StepsOfCalls DEF CallStep
<1> DEFINE slot == NextSlot(calls[c].run, calls[c].application)
           row == [calls[c] EXCEPT !.state = "dispatching", !.slot = slot]
<1>3. calls' = [calls EXCEPT ![c] = row]
  BY DEF BeginProviderDispatch
<1>4. /\ row.state = "dispatching" /\ row.slot = slot /\ row.result = calls[c].result
      /\ row.run = calls[c].run /\ row.application = calls[c].application
  BY <1>1 DEF CallRows
<1>5. /\ calls[c].state = "reserved"
      /\ CurrentLease(calls[c].run, w, Leased)
      /\ candidates[calls[c].run][calls[c].application] = "evaluating"
      /\ InFlightCalls(calls[c].run) \subseteq {c}
      /\ FreeSlots(calls[c].run, calls[c].application) # {}
      /\ UNCHANGED <<runs, candidates, quarantine>>
  BY DEF BeginProviderDispatch, NothingElseInFlight, DispatchLifecycles, CurrentLease, Leased
<1> HIDE DEF row
<1>6. calls'[c] = row /\ \A d \in Calls \ {c} : calls'[d] = calls[d]
  BY <1>1, <1>3
<1>7. Dispatched(c)
  BY <1>4, <1>5, <1>6 DEF Dispatched, KeepsCandidate
<1>8. QED  BY <1>2, <1>4, <1>5, <1>6, <1>7 DEF Sends

\* The holder of the lease of r reserves the call c for a.
Reserves(c, r, a, w) ==
    /\ StoreNext
    /\ UNCHANGED <<runs, candidates, quarantine>>
    /\ CurrentLease(r, w, Leased)
    /\ Reserved(c)
    /\ calls'[c].run = r /\ calls'[c].application = a /\ calls'[c].result = "none"
    /\ \A d \in Calls \ {c} : calls'[d] = calls[d]

LEMMA ReserveReserves ==
    ASSUME StoreInv, NEW c \in Calls, NEW r \in Runs, NEW a \in Applications,
           NEW w \in Workers, NEW amount \in Reservations, ReserveProviderCall(c, r, a, w, amount)
    PROVE  Reserves(c, r, a, w)
<1>1. calls \in [Calls -> CallRows]
  BY DEF StoreInv, StoreTypeOK
<1>2. StoreNext
  <2>1. CandidateStep(r, a, w)
    BY DEF CandidateStep
  <2>2. QED  BY <2>1 DEF StoreNext
<1> DEFINE row == [NoCall EXCEPT !.state = "reserved", !.run = r, !.application = a,
                                 !.reservation = amount]
<1>3. calls' = [calls EXCEPT ![c] = row]
  BY DEF ReserveProviderCall
<1>4. /\ row.state = "reserved" /\ row.slot = 0 /\ row.result = "none"
      /\ row.run = r /\ row.application = a
  BY DEF NoCall
<1>5. /\ calls[c].state = "absent" /\ CurrentLease(r, w, Leased)
      /\ UNCHANGED <<runs, candidates, quarantine>>
  BY DEF ReserveProviderCall, CurrentLease, Leased
<1> HIDE DEF row
<1>6. calls'[c] = row /\ \A d \in Calls \ {c} : calls'[d] = calls[d]
  BY <1>1, <1>3
<1>7. QED  BY <1>2, <1>4, <1>5, <1>6 DEF Reserves, Reserved

-----------------------------------------------------------------------------
(* What a step leaves to the others                                        *)

\* A call on record keeps its run and its Application.
Keeps(cs, ds) ==
    \A c \in Calls : cs[c].state # "absent" =>
        /\ ds[c].state # "absent"
        /\ ds[c].run = cs[c].run /\ ds[c].application = cs[c].application

LEMMA CallsKept ==
    ASSUME StoreInv, StoreNext \/ UNCHANGED storeVars
    PROVE  Keeps(calls, calls')
<1>1. CASE UNCHANGED storeVars
  BY <1>1 DEF storeVars, Keeps
<1>2. CASE StoreNext
  <2>1. CallsMove
    BY <1>2, CallsMoveByKinds DEF StoreInv
  <2>2. QED
    BY <2>1
    DEF CallsMove, Keeps, Reserved, Dispatched, GivenBack, Decided, KeepsCandidate
<1>3. QED  BY <1>1, <1>2

LEMMA LocatedKept ==
    ASSUME NEW v \in WorkerRows, NEW cs, NEW ds, Keeps(cs, ds), Located(v, cs)
    PROVE  Located(v, ds)
  BY DEF Located, Keeps, WorkerRows, RowsGiving

\* No page loses an Analysis body or its final properties.
Grows(pg, qg) ==
    \A a \in Applications :
        /\ pg[a].bodies <= qg[a].bodies
        /\ pg[a].analyzed => qg[a].analyzed

LEMMA SeenKept ==
    ASSUME NEW v \in WorkerRows, NEW cs, Located(v, cs), NEW pg \in [Applications -> Pages],
           NEW qg \in [Applications -> Pages], Grows(pg, qg), Seen(v, pg)
    PROVE  Seen(v, qg)
<1>1. v.pc \in Evaluates \cup {"record"} => v.app \in Applications
  BY DEF Located
<1>2. v.stage = "finalize" => v.pc \in Evaluates
  BY DEF Located, Evaluates
<1>3. \A a \in Applications : /\ pg[a].bodies \in Nat /\ qg[a].bodies \in Nat
                              /\ pg[a].bodies > 0 => qg[a].bodies > 0
                              /\ pg[a].analyzed => qg[a].analyzed
  BY DEF Grows, Pages
<1>4. QED  BY <1>1, <1>2, <1>3 DEF Seen, Evaluates

\* A run goes on, or stands still: neither created nor ended, nor counted anew.
Continues(x, y) ==
    /\ y.queue = x.queue /\ y.target = x.target /\ y.completions = x.completions
    /\ y.truncated = x.truncated /\ y.outcome = x.outcome
    /\ y.lifecycle = "absent" <=> x.lifecycle = "absent"
    /\ y.lifecycle = "finished" <=> x.lifecycle = "finished"
    /\ y.lifecycle = "queued" => x.lifecycle = "queued" /\ (x.lease = 0 => y.lease = 0)

LEMMA AccountContinues ==
    ASSUME NEW x, NEW y, NEW states, Continues(x, y), RunAccount(x, states)
    PROVE  RunAccount(y, states)
  BY DEF Continues, RunAccount, AllDecided

\* The runs a step leaves alone, and the pages it only adds to.
LEMMA AccountsStand ==
    ASSUME ServiceInv, UNCHANGED candidates, Grows(page, page'), page' \in [Applications -> Pages],
           \A r \in Runs : Continues(runs[r], runs'[r])
    PROVE  RunsAccounted' /\ ResultsMatchNotion'
<1>1. RunsAccounted'
  BY AccountContinues DEF ServiceInv, RunsAccounted
<1>2. page \in [Applications -> Pages]
  BY RowsAreTyped DEF ServiceInv, RowsOK
<1>3. \A a \in Applications : Complete(a) => Complete(a)'
  BY <1>2 DEF Grows, Complete, Pages
<1>4. QED  BY <1>1, <1>3 DEF ServiceInv, ResultsMatchNotion

LEMMA GrowsItself ==
    ASSUME ServiceInv, UNCHANGED page
    PROVE  Grows(page, page') /\ page' \in [Applications -> Pages]
<1>1. page \in [Applications -> Pages]
  BY RowsAreTyped DEF ServiceInv, RowsOK
<1>2. QED  BY <1>1 DEF Grows, Pages

LEMMA StandContinues ==
    ASSUME UNCHANGED runs
    PROVE  \A r \in Runs : Continues(runs[r], runs'[r])
  BY DEF Continues

\* w writes under the lease of a run, or takes it over.
Fenced(w) ==
    \E r \in Runs :
        /\ Unfinished(r)
        /\ runs'[r].owner \in {w, NoOne}
        /\ \A q \in Runs \ {r} : runs'[q] = runs[q]

\* Nobody else leads then.
LEMMA NobodyElseLeads ==
    ASSUME ServiceInv, NEW w \in Workers, NEW v \in Workers \ {w}, Fenced(w),
           worker'[v] = worker[v]
    PROVE  ~Leads(v)'
<1> SUFFICES ASSUME Leads(v)' PROVE FALSE
  OBVIOUS
<1>1. PICK r \in Runs : /\ Unfinished(r)
                        /\ runs'[r].owner \in {w, NoOne}
                        /\ \A q \in Runs \ {r} : runs'[q] = runs[q]
  BY DEF Fenced
<1>2. worker[v].pc # "idle"
  BY DEF Leads, Busy
<1>3. worker[v].run \in Runs
  BY <1>2 DEF ServiceInv, LocatedAll, Located
<1>4. runs'[worker[v].run].owner = v /\ runs'[worker[v].run].lifecycle \in Leased
  BY DEF Leads, Mine, CurrentLease
<1>5. worker[v].run # r
  BY <1>1, <1>4, StoreAssumption
<1>6. runs[worker[v].run].lifecycle \in Leased
  BY <1>1, <1>3, <1>4, <1>5
<1>7. Unfinished(worker[v].run)
  BY <1>6 DEF Unfinished, Leased
<1>8. QED
  BY <1>1, <1>3, <1>5, <1>7 DEF ServiceInv, StoreInv, OneActiveRun

LEMMA LeaseFencesOthers ==
    ASSUME NEW w \in Workers, NEW r \in Runs, CurrentLease(r, w, Leased), UNCHANGED runs
    PROVE  Fenced(w)
  BY DEF Fenced, CurrentLease, Unfinished, Leased

-----------------------------------------------------------------------------
(* The steps of a worker                                                   *)

\* What every step of a worker does.
Stepped(w) ==
    /\ worker'[w] \in WorkerRows /\ worker' = [worker EXCEPT ![w] = worker'[w]]
    /\ StoreNext \/ UNCHANGED storeVars
    /\ Fenced(w) \/ UNCHANGED <<runs, candidates, calls>>
    /\ page' \in [Applications -> Pages] /\ Grows(page, page')
    /\ UNCHANGED starter /\ faults' \in 0..MaxFaults
    /\ Located(worker'[w], calls') /\ Seen(worker'[w], page')
    /\ Leads(w)' =>
          Leading(worker'[w], runs'[worker'[w].run], candidates'[worker'[w].run])
    /\ RunsAccounted' /\ ResultsMatchNotion'

\* The steps of an evaluation that touch neither the run nor its candidates.
Works(w) ==
    /\ worker[w].pc \in Evaluates
    /\ worker'[w] \in WorkerRows /\ worker' = [worker EXCEPT ![w] = worker'[w]]
    /\ worker'[w].pc \in Evaluates \cup {"record"} /\ SamePlace(worker'[w], worker[w])
    /\ UNCHANGED <<runs, candidates, starter>> /\ faults' \in 0..MaxFaults
    /\ StoreNext \/ UNCHANGED storeVars
    /\ calls' = calls \/ Leads(w)
    /\ page' \in [Applications -> Pages] /\ Grows(page, page')
    /\ Located(worker'[w], calls') /\ Seen(worker'[w], page')

LEMMA WorkSteps ==
    ASSUME ServiceInv, NEW w \in Workers, Works(w)
    PROVE  Stepped(w)
<1>1. RunsAccounted' /\ ResultsMatchNotion'
  BY AccountsStand, StandContinues DEF Works
<1>2. worker[w].run \in Runs
  BY DEF Works, Evaluates, ServiceInv, LocatedAll, Located
<1>3. Fenced(w) \/ UNCHANGED <<runs, candidates, calls>>
  BY <1>2, LeaseFencesOthers DEF Works, Leads, Mine
<1>4. ASSUME Leads(w)'
      PROVE  Leading(worker'[w], runs'[worker'[w].run], candidates'[worker'[w].run])
  <2>1. Leads(w)
    BY <1>4 DEF Works, Leads, Mine, Busy, CurrentLease, SamePlace, Evaluates
  <2>2. Leading(worker[w], runs[worker[w].run], candidates[worker[w].run])
    BY <2>1 DEF ServiceInv, LeadersKnow, Mine
  <2>3. candidates[worker[w].run][worker[w].app] = "evaluating"
    BY <2>2 DEF Works, Leading
  <2>4. QED  BY <2>3 DEF Works, SamePlace, Leading, Evaluates
<1>5. QED  BY <1>1, <1>3, <1>4 DEF Works, Stepped

\* The steps that end a pass without a word to the run.
Rested(w) ==
    /\ worker[w].pc # "idle"
    /\ worker' = [worker EXCEPT ![w] = AtRest]
    /\ UNCHANGED <<runs, candidates, starter>> /\ faults' \in 0..MaxFaults
    /\ StoreNext \/ UNCHANGED storeVars
    /\ calls' = calls \/ Leads(w)
    /\ page' \in [Applications -> Pages] /\ Grows(page, page')

\* Nothing is known at rest.
LEMMA RestKnows ==
    /\ \A cs : Located(AtRest, cs)
    /\ \A pg : Seen(AtRest, pg)
<1>1. AtRest.pc = "idle" /\ AtRest.stage = "append" /\ AtRest.call = "none"
  BY RestFields DEF Empty
<1>2. QED  BY <1>1 DEF Located, Seen, Evaluates

LEMMA RestSteps ==
    ASSUME ServiceInv, NEW w \in Workers, Rested(w)
    PROVE  Stepped(w)
<1>1. RunsAccounted' /\ ResultsMatchNotion'
  BY AccountsStand, StandContinues DEF Rested
<1>2. worker[w].run \in Runs
  BY DEF Rested, ServiceInv, LocatedAll, Located
<1>3. Fenced(w) \/ UNCHANGED <<runs, candidates, calls>>
  BY <1>2, LeaseFencesOthers DEF Rested, Leads, Mine
<1>4. worker'[w] = AtRest
  BY RowsAreTyped DEF Rested, ServiceInv, RowsOK
<1>5. ~Leads(w)'
  BY <1>4, RestFields DEF Leads, Busy
<1>6. Located(worker'[w], calls') /\ Seen(worker'[w], page')
  BY <1>4, RestKnows
<1>7. QED  BY <1>1, <1>3, <1>4, <1>5, <1>6, RestFields DEF Rested, Stepped

-----------------------------------------------------------------------------
(* What the steps of a worker do to the Applications                       *)

\* The worker of this row has an append to a out, or to give up.
Appends(v, a) ==
    v.app = a /\ (v.pc = "append" \/ (v.pc = "rejected" /\ v.stage = "append"))

\* A step that appends nothing, and lifts quarantines by what the page shows.
Plain(w) ==
    /\ \A a \in Applications :
          page'[a].bodies = page[a].bodies /\ page'[a].late = page[a].late
    /\ quarantine' \subseteq quarantine
    /\ \A a \in quarantine \ quarantine' : page[a].bodies > 0
    /\ \A a \in Applications : ~Appends(worker'[w], a)
    /\ \A c \in Calls : calls'[c].result \in {"valid", "commit_unknown"} =>
          \/ calls'[c].result = calls[c].result /\ KeepsCandidate(c)
          \/ calls'[c].result = "valid" /\ page[calls'[c].application].bodies > 0

\* No call is transmitted.
NothingSent == \A c \in Calls : ~Dispatched(c)

PlainWork(w) == Works(w) /\ Plain(w) /\ NothingSent

\* The row a step of an evaluation leads to, when it leads on.
Onward(w, row) ==
    /\ Turns(w, row)
    /\ worker[w].pc \in Evaluates /\ row.pc \in Evaluates \cup {"record"}
    /\ SamePlace(row, worker[w])
    /\ UNCHANGED <<page, starter>> /\ faults' \in 0..MaxFaults

LEMMA TurnsTo ==
    ASSUME ServiceInv, NEW w \in Workers, NEW row, Turns(w, row)
    PROVE  /\ worker'[w] = row /\ worker'[w] \in WorkerRows
           /\ worker' = [worker EXCEPT ![w] = worker'[w]]
  BY RowsAreTyped DEF Turns, ServiceInv, RowsOK

\* Nothing but the worker moves.
LEMMA QuietWork ==
    ASSUME ServiceInv, NEW w \in Workers, NEW row, Onward(w, row), UNCHANGED storeVars,
           Located(row, calls), Seen(row, page), row.pc \notin {"append", "rejected"}
    PROVE  PlainWork(w)
<1>1. worker'[w] = row /\ worker'[w] \in WorkerRows /\ worker' = [worker EXCEPT ![w] = worker'[w]]
  BY TurnsTo DEF Onward
<1>2. Grows(page, page') /\ page' \in [Applications -> Pages]
  BY GrowsItself DEF Onward
<1>3. Works(w)
  BY <1>1, <1>2 DEF Works, Onward, storeVars
<1>4. Plain(w)
  BY <1>1 DEF Plain, Onward, storeVars, Appends, KeepsCandidate
<1>5. NothingSent
  BY DEF NothingSent, Dispatched, storeVars
<1>6. QED  BY <1>3, <1>4, <1>5 DEF PlainWork

\* This result of the worker's call says no more of the page than is known.
Harmless(w, result) ==
    result \in {"valid", "commit_unknown"} =>
        \/ result = calls[worker[w].call].result
        \/ result = "valid" /\ page[worker[w].app].bodies > 0

\* What has become of the worker's call is recorded.
LEMMA WritingWork ==
    ASSUME ServiceInv, NEW w \in Workers, NEW row, Onward(w, row),
           worker[w].call # "none", NEW state, NEW result,
           Writes(worker[w].call, w, state, result),
           Harmless(w, result), Located(row, calls'), Seen(row, page), row.pc \notin {"append", "rejected"}
    PROVE  PlainWork(w)
<1> DEFINE c == worker[w].call
<1>1. worker'[w] = row /\ worker'[w] \in WorkerRows /\ worker' = [worker EXCEPT ![w] = worker'[w]]
  BY TurnsTo DEF Onward
<1>2. Grows(page, page') /\ page' \in [Applications -> Pages]
  BY GrowsItself DEF Onward
<1>3. c \in Calls /\ calls[c].run = worker[w].run /\ calls[c].application = worker[w].app
  BY RowsAreTyped DEF ServiceInv, RowsOK, WorkerRows, RowsGiving, LocatedAll, Located
<1>4. Leads(w)
  BY <1>3 DEF Writes, Leads, Mine, Busy, Onward, Evaluates
<1>5. Works(w)
  BY <1>1, <1>2, <1>4 DEF Works, Onward, Writes
<1>6. Plain(w)
  BY <1>1, <1>3 DEF Plain, Onward, Writes, Appends, KeepsCandidate, Harmless
<1>7. NothingSent
  BY <1>3 DEF NothingSent, Dispatched, Writes
<1>8. QED  BY <1>5, <1>6, <1>7 DEF PlainWork

\* The quarantine of an Application that shows an Analysis body is lifted.
LEMMA ClearingWork ==
    ASSUME ServiceInv, NEW w \in Workers, NEW row, Onward(w, row),
           ClearCommitQuarantine(worker[w].app), page[worker[w].app].bodies > 0,
           Located(row, calls), Seen(row, page), row.pc \notin {"append", "rejected"}
    PROVE  PlainWork(w)
<1>1. worker'[w] = row /\ worker'[w] \in WorkerRows /\ worker' = [worker EXCEPT ![w] = worker'[w]]
  BY TurnsTo DEF Onward
<1>2. Grows(page, page') /\ page' \in [Applications -> Pages]
  BY GrowsItself DEF Onward
<1>3. worker[w].app \in Applications
  BY DEF Onward, ServiceInv, LocatedAll, Located
<1>4. StoreNext
  BY <1>3 DEF StoreNext
<1>5. Works(w)
  BY <1>1, <1>2, <1>4 DEF Works, Onward, ClearCommitQuarantine
<1>6. Plain(w)
  BY <1>1 DEF Plain, Onward, ClearCommitQuarantine, Appends, KeepsCandidate
<1>7. NothingSent
  BY DEF NothingSent, Dispatched, ClearCommitQuarantine
<1>8. QED  BY <1>5, <1>6, <1>7 DEF PlainWork

\* What is known where a worker is in its evaluation.
LEMMA WorkPlace ==
    ASSUME ServiceInv, NEW w \in Workers, worker[w].pc \in Evaluates
    PROVE  /\ worker[w] \in WorkerRows
           /\ worker[w].run \in Runs /\ worker[w].app \in Applications
           /\ Located(worker[w], calls) /\ Seen(worker[w], page)
           /\ faults \in 0..MaxFaults
           /\ page[worker[w].app] \in Pages
<1>1. worker \in [Workers -> WorkerRows] /\ page \in [Applications -> Pages]
  BY RowsAreTyped DEF ServiceInv, RowsOK
<1>2. Located(worker[w], calls) /\ Seen(worker[w], page)
  BY DEF ServiceInv, LocatedAll, SeenAll
<1>3. worker[w].run \in Runs /\ worker[w].app \in Applications
  BY <1>2 DEF Located, Evaluates
<1>4. faults \in 0..MaxFaults
  BY DEF ServiceInv, RunsTypeOK
<1>5. QED  BY <1>1, <1>2, <1>3, <1>4

\* The verdict of a candidate, with nothing written.
LEMMA VerdictKnown ==
    ASSUME ServiceInv, NEW w \in Workers, worker[w].pc \in Evaluates,
           NEW state \in TerminalCandidateStates, NEW stop \in Stops \cup {"none"},
           Concludes(w, state, stop), UNCHANGED <<page, starter>>, faults' \in 0..MaxFaults,
           state \in Completed =>
               page[worker[w].app].bodies > 0 /\ page[worker[w].app].analyzed
    PROVE  LET row == Verdict(worker[w], state, stop) IN
           /\ Onward(w, row) /\ row.pc = "record"
           /\ \A cs : Located(row, cs)
           /\ Seen(row, page)
<1> DEFINE row == Verdict(worker[w], state, stop)
<1>1. Turns(w, row)
  BY RowsAreTyped, ConcludesTurns DEF ServiceInv
<1>2. worker[w] \in WorkerRows /\ worker[w].run \in Runs /\ worker[w].app \in Applications
  BY WorkPlace
<1>3. /\ row.pc = "record" /\ SamePlace(row, worker[w])
      /\ row.stage = "append" /\ row.call = "none"
      /\ row.verdict.state = state /\ row.verdict.stop = stop
  BY <1>2, VerdictFields
<1> HIDE DEF row
<1>4. QED  BY <1>1, <1>2, <1>3 DEF Onward, Located, Seen, SamePlace, Evaluates, row

-----------------------------------------------------------------------------
(* What the holder of the lease knows before it buys                       *)

LeadersBuy ==
    \A w \in Workers : Leads(w) => Buying(worker[w], page, quarantine, calls)

\* The inductive invariant of the Applications, for one start request at a time.
ApplicationsInv ==
    /\ AppendsApart /\ DraftsShow
    /\ PendingUntouched /\ StartAlone
    /\ LeadersBuy
    /\ NoSecondPurchase

\* The mover still may buy after its step.
StillBuying(w) == Leads(w)' => Buying(worker'[w], page', quarantine', calls')

\* There is nothing to know in most places.
LEMMA NothingToBuy ==
    ASSUME NEW w,
           worker'[w].pc \notin {"load", "reserve", "dispatch", "transmit", "answered"},
           worker'[w].pc \in {"protect", "guard"} => worker'[w].stage = "finalize"
    PROVE  StillBuying(w)
  BY DEF StillBuying, Buying

LEMMA FailsKnown ==
    ASSUME ServiceInv, NEW w \in Workers, worker[w].pc \in Evaluates,
           NEW state \in {"failed", "skipped", "indeterminate"}, NEW stop \in Stops \cup {"none"},
           Concludes(w, state, stop), UNCHANGED <<page, starter>>, faults' \in 0..MaxFaults
    PROVE  LET row == Verdict(worker[w], state, stop) IN
           /\ Onward(w, row) /\ row.pc = "record"
           /\ \A cs : Located(row, cs)
           /\ Seen(row, page)
<1>1. state \in TerminalCandidateStates /\ state \notin Completed
  BY DEF TerminalCandidateStates, Completed
<1>2. QED  BY <1>1, VerdictKnown

\* A verdict that claims nothing, and no write.
LEMMA QuietFailure ==
    ASSUME ServiceInv, NEW w \in Workers, worker[w].pc \in Evaluates,
           NEW state \in {"failed", "skipped", "indeterminate"}, NEW stop \in Stops \cup {"none"},
           Concludes(w, state, stop), UNCHANGED <<storeVars, page, starter, faults>>
    PROVE  PlainWork(w) /\ StillBuying(w)
<1> DEFINE row == Verdict(worker[w], state, stop)
<1>1. faults' \in 0..MaxFaults
  BY WorkPlace
<1>2. /\ Onward(w, row) /\ row.pc = "record"
      /\ \A cs : Located(row, cs)
      /\ Seen(row, page)
  BY <1>1, FailsKnown
<1> HIDE DEF row
<1>3. PlainWork(w)
  BY <1>2, QuietWork
<1>4. worker'[w].pc = "record"
  BY <1>2, TurnsTo DEF Onward
<1>5. QED  BY <1>3, <1>4, NothingToBuy

\* A verdict that claims nothing, with what is recorded of the worker's call.
LEMMA WritingFailure ==
    ASSUME ServiceInv, NEW w \in Workers, worker[w].pc \in Evaluates,
           NEW stop \in Stops \cup {"none"}, Concludes(w, "failed", stop),
           worker[w].call # "none", NEW state, NEW result,
           Writes(worker[w].call, w, state, result), Harmless(w, result),
           UNCHANGED <<page, starter>>, faults' \in 0..MaxFaults
    PROVE  PlainWork(w) /\ StillBuying(w)
<1> DEFINE row == Verdict(worker[w], "failed", stop)
<1>1. /\ Onward(w, row) /\ row.pc = "record"
      /\ \A cs : Located(row, cs)
      /\ Seen(row, page)
  BY FailsKnown
<1> HIDE DEF row
<1>2. PlainWork(w)
  BY <1>1, WritingWork
<1>3. worker'[w].pc = "record"
  BY <1>1, TurnsTo DEF Onward
<1>4. QED  BY <1>2, <1>3, NothingToBuy

LEMMA CannotReadFails ==
    ASSUME NEW w, CannotRead(w)
    PROVE  \E stop \in Stops \cup {"none"} : Concludes(w, "failed", stop)
  BY DEF CannotRead, FailsCandidate, FailsRun, Stops

LEMMA FailureStops ==
    ASSUME NEW w, FailsCandidate(w) \/ FailsRun(w)
    PROVE  \E stop \in Stops \cup {"none"} : Concludes(w, "failed", stop)
  BY DEF FailsCandidate, FailsRun, Stops

-----------------------------------------------------------------------------
(* recover()                                                               *)

LEMMA RecoverLoadWorks ==
    ASSUME ServiceInv, NEW w \in Workers, RecoverLoad(w)
    PROVE  PlainWork(w) /\ StillBuying(w)
<1> DEFINE v == worker[w]
           a == v.app
<1>1. /\ v.pc = "recovering" /\ v.pc \in Evaluates
      /\ UNCHANGED <<storeVars, page, starter, faults>>
  BY DEF RecoverLoad, Evaluates
<1>2. /\ v \in WorkerRows /\ v.run \in Runs /\ a \in Applications
      /\ Located(v, calls) /\ Seen(v, page) /\ faults' \in 0..MaxFaults
  BY <1>1, WorkPlace
<1>3. v.call = "none" /\ v.stage = "append"
  BY <1>1, <1>2 DEF Located, Holding, WorkerRows, RowsGiving
<1>4. CASE CannotRead(w)
  BY <1>1, <1>4, CannotReadFails, QuietFailure
<1>5. CASE Concludes(w, "skipped", "none")
  BY <1>1, <1>5, QuietFailure
<1>6. CASE Complete(a) /\ Goes(w, "confirm")
  <2> DEFINE row == AtPc(v, "confirm")
  <2>1. Turns(w, row) /\ row.pc = "confirm" /\ SameWork(row, v)
    BY <1>2, <1>6, RowsAreTyped, GoesTurns, AtPcFields DEF ServiceInv, Steps
  <2> HIDE DEF row
  <2>2. Onward(w, row)
    BY <1>1, <1>2, <2>1 DEF Onward, Evaluates, SameWork
  <2>3. Located(row, calls) /\ Seen(row, page)
    BY <1>2, <1>3, <1>6, <2>1 DEF Located, Seen, SameWork, SamePlace, Evaluates, Complete
  <2>4. PlainWork(w)
    BY <1>1, <2>1, <2>2, <2>3, QuietWork
  <2>5. QED  BY <2>1, <2>4, TurnsTo, NothingToBuy
<1>7. CASE Blank(a) /\ Goes(w, "judge")
  <2> DEFINE row == AtPc(v, "judge")
  <2>1. Turns(w, row) /\ row.pc = "judge" /\ SameWork(row, v)
    BY <1>2, <1>7, RowsAreTyped, GoesTurns, AtPcFields DEF ServiceInv, Steps
  <2> HIDE DEF row
  <2>2. Onward(w, row)
    BY <1>1, <1>2, <2>1 DEF Onward, Evaluates, SameWork
  <2>3. Located(row, calls) /\ Seen(row, page)
    BY <1>2, <1>3, <2>1 DEF Located, Seen, SameWork, SamePlace, Evaluates
  <2>4. PlainWork(w)
    BY <1>1, <2>1, <2>2, <2>3, QuietWork
  <2>5. QED  BY <2>1, <2>4, TurnsTo, NothingToBuy
<1>8. ASSUME NEW result \in Completed, Partial(a), Finalizes(w, result)
      PROVE  PlainWork(w) /\ StillBuying(w)
  <2> DEFINE row == Finalizing(v, result)
  <2>1. Turns(w, row) /\ row.pc = "protect" /\ SamePlace(row, v)
        /\ row.stage = "finalize" /\ row.call = v.call /\ row.result = result
    BY <1>2, <1>8, RowsAreTyped, FinalizesTurns, FinalizingFields DEF ServiceInv
  <2> HIDE DEF row
  <2>2. Onward(w, row)
    BY <1>1, <1>2, <2>1 DEF Onward, Evaluates
  <2>3. Located(row, calls) /\ Seen(row, page)
    BY <1>2, <1>3, <1>8, <2>1 DEF Located, Seen, SamePlace, Evaluates, Partial
  <2>4. PlainWork(w)
    BY <1>1, <2>1, <2>2, <2>3, QuietWork
  <2>5. QED  BY <2>1, <2>4, TurnsTo, NothingToBuy
<1>9. QED
  BY <1>4, <1>5, <1>6, <1>7, <1>8 DEF RecoverLoad, Completed

LEMMA ConfirmWorks ==
    ASSUME ServiceInv, NEW w \in Workers, Confirm(w)
    PROVE  PlainWork(w) /\ StillBuying(w)
<1> DEFINE v == worker[w]
<1>1. v.pc = "confirm" /\ v.pc \in Evaluates /\ UNCHANGED <<page, starter, faults>>
      /\ ClearCommitQuarantine(v.app)
  BY DEF Confirm, Evaluates
<1>2. Seen(v, page) /\ faults' \in 0..MaxFaults
  BY <1>1, WorkPlace
<1>3. page[v.app].bodies > 0 /\ page[v.app].analyzed
  BY <1>1, <1>2 DEF Seen
<1>4. PICK state \in Completed : Concludes(w, state, "none")
  BY DEF Confirm, Completed
<1> DEFINE row == Verdict(v, state, "none")
<1>5. /\ Onward(w, row) /\ row.pc = "record"
      /\ \A cs : Located(row, cs)
      /\ Seen(row, page)
  BY <1>1, <1>2, <1>3, <1>4, VerdictKnown DEF Completed, TerminalCandidateStates
<1> HIDE DEF row
<1>6. PlainWork(w)
  BY <1>1, <1>3, <1>5, ClearingWork
<1>7. QED  BY <1>5, <1>6, TurnsTo, NothingToBuy DEF Onward

LEMMA JudgementRange ==
    ASSUME NEW r, NEW a, NEW retry, Judgement(r, a, retry) # NoVerdict
    PROVE  \E state \in {"failed", "skipped", "indeterminate"}, stop \in Stops \cup {"none"} :
              Judgement(r, a, retry) = [state |-> state, stop |-> stop]
<1> DEFINE Fails(verdict) ==
              \/ verdict = NoVerdict
              \/ \E state \in {"failed", "skipped", "indeterminate"}, stop \in Stops \cup {"none"} :
                    verdict = [state |-> state, stop |-> stop]
<1>1. /\ Fails(NoVerdict)
      /\ \A state \in {"failed", "skipped", "indeterminate"}, stop \in Stops \cup {"none"} :
            Fails([state |-> state, stop |-> stop])
  OBVIOUS
<1>2. {"none", "failed", "authorization_blocked"} \subseteq Stops \cup {"none"}
  BY DEF Stops
<1> HIDE DEF Fails
<1>3. /\ Fails([state |-> "indeterminate", stop |-> "none"])
      /\ Fails([state |-> "indeterminate", stop |-> "failed"])
      /\ Fails([state |-> "indeterminate", stop |-> "authorization_blocked"])
      /\ Fails([state |-> "failed", stop |-> "none"])
      /\ Fails([state |-> "failed", stop |-> "failed"])
      /\ Fails([state |-> "skipped", stop |-> "none"])
  BY <1>1, <1>2
<1>4. Fails(Judgement(r, a, retry))
  BY <1>1, <1>3 DEF Judgement
<1>5. QED  BY <1>4 DEF Fails

\* What recover() rules out before it lets a candidate be evaluated afresh.
LEMMA JudgementClears ==
    ASSUME NEW r, NEW a, NEW retry, Judgement(r, a, retry) = NoVerdict
    PROVE  /\ a \notin quarantine
           /\ LastResult(r, a) \notin {"rejected", "source", "received"}
  BY DEF Judgement, NoVerdict

\* An Application that may be evaluated afresh shows an Analysis already, or
\* nothing was bought for it.
LEMMA FreshIsUnspent ==
    ASSUME ServiceInv, ApplicationsInv, NEW r \in Runs, NEW a \in Applications, NEW retry,
           Judgement(r, a, retry) = NoVerdict
    PROVE  \/ page[a].bodies > 0
           \/ a \notin quarantine /\ Unspent(calls, r, a, "none")
<1> SUFFICES ASSUME ~(page[a].bodies > 0)
             PROVE  a \notin quarantine /\ Unspent(calls, r, a, "none")
  OBVIOUS
<1>1. a \notin quarantine /\ LastResult(r, a) \notin {"rejected", "source", "received"}
  BY JudgementClears
<1>2. SUFFICES ASSUME NEW c \in Calls, calls[c].run = r, calls[c].application = a,
                      calls[c].slot # 0, Spent(calls[c])
               PROVE  FALSE
  BY <1>1 DEF Unspent
<1>3. calls \in [Calls -> CallRows] /\ TransmissionLimit \in Nat
      /\ \A d \in Calls : calls[d].slot \in 0..TransmissionLimit
  BY StoreAssumption DEF ServiceInv, StoreInv, StoreTypeOK, CallRows
<1>4. calls[c].state # "absent"
  BY <1>2 DEF ServiceInv, TransmissionsInOrder, IndexedOnceSent
<1>5. calls[c].result \notin {"valid", "commit_unknown"}
  BY <1>1, <1>2, <1>4 DEF ApplicationsInv, DraftsShow
<1>6. c \in Transmitted(r, a)
  BY <1>2 DEF Transmitted
<1>7. ASSUME NEW d \in Transmitted(r, a) PROVE calls[d].slot <= calls[c].slot
  <2>1. SUFFICES ASSUME calls[c].slot < calls[d].slot PROVE FALSE
    BY <1>3 DEF Transmitted
  <2>2. /\ calls[c].run = calls[d].run /\ calls[c].application = calls[d].application
        /\ 0 < calls[c].slot
    BY <1>2, <1>3 DEF Transmitted
  <2>3. calls[c].result \notin Bought /\ (calls[c].state = "settled" => calls[c].result # "received")
    BY <2>1, <2>2, <1>7 DEF ApplicationsInv, NoSecondPurchase, Transmitted
  <2>4. QED  BY <1>2, <2>3 DEF Spent
<1> DEFINE last == {d \in Transmitted(r, a) :
                       \A e \in Transmitted(r, a) : calls[e].slot <= calls[d].slot}
<1>8. c \in last
  BY <1>6, <1>7
<1>9. \A d \in last : d = c
  <2> SUFFICES ASSUME NEW d \in last PROVE d = c
    OBVIOUS
  <2>1. d \in Calls /\ calls[d].slot = calls[c].slot
    BY <1>3, <1>6, <1>7 DEF Transmitted
  <2>2. QED
    BY <1>2, <2>1 DEF Transmitted, ServiceInv, StoreInv, TransmissionsNumbered
<1>10. LastResult(r, a) = calls[c].result
  <2> HIDE DEF last
  <2>1. (CHOOSE d \in last : TRUE) = c /\ last # {}
    BY <1>8, <1>9
  <2>2. LastResult(r, a) = IF last = {} THEN "none" ELSE calls[CHOOSE d \in last : TRUE].result
    BY DEF LastResult, last
  <2>3. QED  BY <2>1, <2>2
<1>11. QED  BY <1>1, <1>2, <1>5, <1>10 DEF Spent, Bought

LEMMA JudgeWorks ==
    ASSUME ServiceInv, NEW w \in Workers, Judge(w)
    PROVE  PlainWork(w) /\ (ApplicationsInv => StillBuying(w))
<1> DEFINE v == worker[w]
           verdict == Judgement(v.run, v.app, v.retry)
<1>1. v.pc = "judge" /\ v.pc \in Evaluates /\ UNCHANGED <<storeVars, page, starter, faults>>
  BY DEF Judge, Evaluates
<1>2. /\ v \in WorkerRows /\ v.run \in Runs /\ v.app \in Applications
      /\ Located(v, calls) /\ Seen(v, page) /\ faults' \in 0..MaxFaults
  BY <1>1, WorkPlace
<1>3. v.call = "none" /\ v.stage = "append"
  BY <1>1, <1>2 DEF Located, Holding, WorkerRows, RowsGiving
<1>4. CASE verdict = NoVerdict /\ Goes(w, "load")
  <2> DEFINE row == AtPc(v, "load")
  <2>1. Turns(w, row) /\ row.pc = "load" /\ SameWork(row, v)
    BY <1>2, <1>4, RowsAreTyped, GoesTurns, AtPcFields DEF ServiceInv, Steps
  <2> HIDE DEF row
  <2>2. Onward(w, row)
    BY <1>1, <1>2, <2>1 DEF Onward, Evaluates, SameWork
  <2>3. Located(row, calls) /\ Seen(row, page)
    BY <1>2, <1>3, <2>1 DEF Located, Seen, SameWork, SamePlace, Evaluates
  <2>4. PlainWork(w)
    BY <1>1, <2>1, <2>2, <2>3, QuietWork
  <2>5. ApplicationsInv => StillBuying(w)
    <3> SUFFICES ASSUME ApplicationsInv PROVE StillBuying(w)
      OBVIOUS
    <3>1. \/ page[v.app].bodies > 0
          \/ v.app \notin quarantine /\ Unspent(calls, v.run, v.app, "none")
      BY <1>2, <1>4, FreshIsUnspent
    <3>2. worker'[w] = row
      BY <2>1, TurnsTo
    <3>3. QED
      BY <1>1, <1>3, <2>1, <3>1, <3>2
      DEF StillBuying, Buying, SameWork, SamePlace, storeVars
  <2>6. QED  BY <2>4, <2>5
<1>5. CASE verdict # NoVerdict /\ Concludes(w, verdict.state, verdict.stop)
  <2>1. PICK state \in {"failed", "skipped", "indeterminate"}, stop \in Stops \cup {"none"} :
            verdict = [state |-> state, stop |-> stop]
    BY <1>5, JudgementRange
  <2>2. Concludes(w, state, stop)
    BY <1>5, <2>1
  <2>3. QED  BY <1>1, <2>2, QuietFailure
<1>6. QED  BY <1>4, <1>5 DEF Judge, Mine

-----------------------------------------------------------------------------
(* The graph                                                               *)

LEMMA LoadWorks ==
    ASSUME ServiceInv, NEW w \in Workers, Load(w)
    PROVE  PlainWork(w) /\ (ApplicationsInv => StillBuying(w))
<1> DEFINE v == worker[w]
<1>1. v.pc = "load" /\ v.pc \in Evaluates /\ UNCHANGED <<storeVars, page, starter, faults>>
  BY DEF Load, Evaluates
<1>2. /\ v \in WorkerRows /\ v.run \in Runs /\ v.app \in Applications
      /\ Located(v, calls) /\ Seen(v, page) /\ faults' \in 0..MaxFaults
      /\ page[v.app] \in Pages
  BY <1>1, WorkPlace
<1>3. v.call = "none" /\ v.stage = "append"
  BY <1>1, <1>2 DEF Located, Holding, WorkerRows, RowsGiving
<1>4. CASE CannotRead(w)
  BY <1>1, <1>4, CannotReadFails, QuietFailure
<1>5. CASE Concludes(w, "skipped", "none")
  BY <1>1, <1>5, QuietFailure
<1>6. CASE Partial(v.app) /\ Finalizes(w, "repaired")
  <2> DEFINE row == Finalizing(v, "repaired")
  <2>1. Turns(w, row) /\ row.pc = "protect" /\ SamePlace(row, v)
        /\ row.stage = "finalize" /\ row.call = v.call /\ row.result = "repaired"
    BY <1>2, <1>6, RowsAreTyped, FinalizesTurns, FinalizingFields DEF ServiceInv, Completed
  <2> HIDE DEF row
  <2>2. Onward(w, row)
    BY <1>1, <1>2, <2>1 DEF Onward, Evaluates
  <2>3. Located(row, calls) /\ Seen(row, page)
    BY <1>2, <1>3, <1>6, <2>1 DEF Located, Seen, SamePlace, Evaluates, Partial, Completed
  <2>4. PlainWork(w)
    BY <1>1, <2>1, <2>2, <2>3, QuietWork
  <2>5. QED  BY <2>1, <2>4, TurnsTo, NothingToBuy
<1>7. CASE Blank(v.app) /\ CallsAgain(w, 0, 0, FALSE)
  <2> DEFINE row == Again(v, 0, 0)
  <2>1. Turns(w, row) /\ row.pc = "reserve" /\ SamePlace(row, v)
        /\ row.stage = v.stage /\ row.call = "none"
    <3>1. FALSE \/ Turns(w, row)
      BY <1>7, RowsAreTyped, CallsAgainTurns DEF ServiceInv
    <3>2. QED  BY <1>2, <3>1, AgainFields
  <2> HIDE DEF row
  <2>2. Onward(w, row)
    BY <1>1, <1>2, <2>1 DEF Onward, Evaluates
  <2>3. Located(row, calls) /\ Seen(row, page)
    BY <1>2, <1>3, <2>1 DEF Located, Seen, SamePlace, Evaluates
  <2>4. PlainWork(w)
    BY <1>1, <2>1, <2>2, <2>3, QuietWork
  <2>5. ASSUME ApplicationsInv, Leads(w)'
        PROVE  Buying(worker'[w], page', quarantine', calls')
    <3>1. worker'[w] = row
      BY <2>1, TurnsTo
    <3>2. Leads(w)
      BY <1>1, <2>1, <2>5, <3>1 DEF Leads, Mine, Busy, CurrentLease, SamePlace, storeVars
    <3>3. v.app \notin quarantine /\ Unspent(calls, v.run, v.app, "none")
          /\ page[v.app].bodies = 0
      BY <1>1, <1>2, <1>3, <1>7, <2>5, <3>2 DEF ApplicationsInv, LeadersBuy, Buying, Blank, Pages
    <3>4. QED
      BY <1>1, <2>1, <3>1, <3>3 DEF Buying, SamePlace, storeVars
  <2>6. QED  BY <2>4, <2>5 DEF StillBuying
<1>8. QED
  BY <1>4, <1>5, <1>6, <1>7 DEF Load

\* A worker that leads after a step that leaves the runs alone led before it.
LEMMA LedBefore ==
    ASSUME ServiceInv, NEW w \in Workers, NEW row, Onward(w, row), UNCHANGED runs, Leads(w)'
    PROVE  Leads(w)
<1>1. worker'[w] = row
  BY TurnsTo DEF Onward
<1>2. QED
  BY <1>1 DEF Onward, SamePlace, Leads, Mine, Busy, CurrentLease, Evaluates

\* From a transmitted call that bought nothing to the next one.
LEMMA AgainWorks ==
    ASSUME ServiceInv, NEW w \in Workers, worker[w].pc \in {"transmit", "answered"},
           NEW tries \in Nat, NEW unsent \in Nat, Turns(w, Again(worker[w], tries, unsent)),
           NEW state, NEW result, Writes(worker[w].call, w, state, result),
           Harmless(w, result),
           \/ state = "released"
           \/ result \notin Bought /\ (state = "settled" => result # "received"),
           UNCHANGED <<page, starter>>, faults' \in 0..MaxFaults
    PROVE  PlainWork(w) /\ (ApplicationsInv => StillBuying(w))
<1> DEFINE v == worker[w]
           c == v.call
           row == Again(v, tries, unsent)
<1>1. v.pc \in Evaluates
  BY DEF Evaluates
<1>2. /\ v \in WorkerRows /\ v.run \in Runs /\ v.app \in Applications
      /\ Located(v, calls) /\ Seen(v, page)
  BY <1>1, WorkPlace
<1>3. c # "none" /\ v.stage = "append"
  BY <1>2 DEF Located, WorkerRows, RowsGiving
<1>4. /\ row.pc = "reserve" /\ SamePlace(row, v)
      /\ row.stage = v.stage /\ row.call = "none"
  BY <1>2, AgainFields
<1> HIDE DEF row
<1>5. Onward(w, row)
  BY <1>1, <1>4 DEF Onward, Evaluates, row
<1>6. Located(row, calls') /\ Seen(row, page)
  BY <1>2, <1>3, <1>4 DEF Located, Seen, SamePlace, Evaluates
<1>7. PlainWork(w)
  BY <1>3, <1>4, <1>5, <1>6, WritingWork
<1>8. ASSUME ApplicationsInv, Leads(w)'
      PROVE  Buying(worker'[w], page', quarantine', calls')
  <2>1. worker'[w] = row
    BY <1>5, TurnsTo DEF Onward
  <2>2. Leads(w)
    BY <1>5, <1>8, LedBefore DEF Writes
  <2>3. v.app \notin quarantine /\ Unspent(calls, v.run, v.app, c) /\ page[v.app].bodies = 0
    BY <1>8, <2>2 DEF ApplicationsInv, LeadersBuy, Buying
  <2>4. c \in Calls
    BY <1>2, <1>3 DEF WorkerRows, RowsGiving
  <2>5. calls'[c].slot # 0 => ~Spent(calls'[c])
    BY DEF Writes, Spent
  <2>6. Unspent(calls', v.run, v.app, "none")
    BY <2>3, <2>4, <2>5 DEF Unspent, Writes
  <2>7. QED
    BY <1>4, <2>1, <2>3, <2>6 DEF Buying, SamePlace, Writes
<1>9. QED  BY <1>7, <1>8 DEF StillBuying

\* From an answer to a draft to append.
LEMMA DraftWorks ==
    ASSUME ServiceInv, NEW w \in Workers, worker[w].pc \in {"transmit", "answered"},
           NEW pending \in {"none", worker[w].call}, Drafts(w, pending),
           \/ UNCHANGED storeVars
           \/ Writes(worker[w].call, w, "indeterminate", "received") /\ pending = "none",
           UNCHANGED <<page, starter, faults>>
    PROVE  PlainWork(w) /\ (ApplicationsInv => StillBuying(w))
<1> DEFINE v == worker[w]
           row == Drafted(v, pending)
<1>1. v.pc \in Evaluates
  BY DEF Evaluates
<1>2. /\ v \in WorkerRows /\ v.run \in Runs /\ v.app \in Applications
      /\ Located(v, calls) /\ Seen(v, page) /\ faults' \in 0..MaxFaults
  BY <1>1, WorkPlace
<1>3. v.call # "none" /\ v.stage = "append" /\ pending \in Calls \cup {"none"}
  BY <1>2 DEF Located, WorkerRows, RowsGiving
<1>4. /\ Turns(w, row) /\ row.pc = "protect" /\ SamePlace(row, v)
      /\ row.stage = "append" /\ row.call = pending /\ row.result = "analyzed"
  BY <1>2, <1>3, RowsAreTyped, DraftsTurns, DraftedFields DEF ServiceInv
<1> HIDE DEF row
<1>5. Onward(w, row)
  BY <1>1, <1>2, <1>4 DEF Onward, Evaluates
<1>6. Seen(row, page)
  BY <1>4 DEF Seen
<1>7. ASSUME UNCHANGED storeVars PROVE PlainWork(w)
  <2>1. Located(row, calls)
    BY <1>2, <1>3, <1>4 DEF Located, SamePlace, Evaluates, Holding, Completed
  <2>2. QED
    BY <1>4, <1>5, <1>6, <1>7, <2>1, QuietWork
<1>8. ASSUME Writes(v.call, w, "indeterminate", "received"), pending = "none"
      PROVE  PlainWork(w)
  <2>1. Located(row, calls')
    BY <1>2, <1>3, <1>4, <1>8 DEF Located, SamePlace, Evaluates, Completed
  <2>2. QED
    BY <1>3, <1>4, <1>5, <1>6, <1>8, <2>1, WritingWork DEF Harmless
<1>9. ASSUME ApplicationsInv, Leads(w)'
      PROVE  Buying(worker'[w], page', quarantine', calls')
  <2>1. worker'[w] = row
    BY <1>4, TurnsTo
  <2>2. UNCHANGED <<runs, quarantine>>
    BY DEF Writes, storeVars
  <2>3. Leads(w)
    BY <1>5, <1>9, <2>2, LedBefore
  <2>4. v.app \notin quarantine /\ page[v.app].bodies = 0
    BY <1>9, <2>3 DEF ApplicationsInv, LeadersBuy, Buying
  <2>5. QED
    BY <1>4, <2>1, <2>2, <2>4 DEF Buying, SamePlace
<1>10. QED  BY <1>7, <1>8, <1>9 DEF StillBuying

LEMMA InvalidDraftWorks ==
    ASSUME ServiceInv, NEW w \in Workers, worker[w].pc \in {"transmit", "answered"},
           DraftInvalid(w), NEW state, NEW result, Writes(worker[w].call, w, state, result),
           result \notin Bought, state = "settled" => result # "received",
           UNCHANGED <<page, starter, faults>>
    PROVE  PlainWork(w) /\ (ApplicationsInv => StillBuying(w))
<1> DEFINE v == worker[w]
<1>1. v.pc \in Evaluates
  BY DEF Evaluates
<1>2. v \in WorkerRows /\ faults' \in 0..MaxFaults /\ Located(v, calls)
  BY <1>1, WorkPlace
<1>3. v.tries + 1 \in Nat /\ v.unsent \in Nat /\ v.call # "none"
      /\ Harmless(w, result)
  BY <1>2 DEF WorkerRows, RowsGiving, Bought, Located, Harmless
<1>4. FailsCandidate(w) \/ Turns(w, Again(v, v.tries + 1, v.unsent))
  BY <1>3, RowsAreTyped, CallsAgainTurns DEF DraftInvalid, ServiceInv
<1>5. CASE FailsCandidate(w)
  BY <1>1, <1>2, <1>3, <1>5, FailureStops, WritingFailure
<1>6. CASE Turns(w, Again(v, v.tries + 1, v.unsent))
  BY <1>2, <1>3, <1>6, AgainWorks
<1>7. QED  BY <1>4, <1>5, <1>6

LEMMA UnmeteredWorks ==
    ASSUME ServiceInv, NEW w \in Workers, worker[w].pc \in {"transmit", "answered"},
           Unmetered(w, worker[w].call), UNCHANGED <<page, starter, faults>>
    PROVE  PlainWork(w) /\ (ApplicationsInv => StillBuying(w))
<1> DEFINE v == worker[w]
<1>1. v.pc \in Evaluates
  BY DEF Evaluates
<1>2. v \in WorkerRows /\ faults' \in 0..MaxFaults /\ Located(v, calls)
  BY <1>1, WorkPlace
<1>3. v.call # "none" /\ v.call \in Calls
  BY <1>2 DEF WorkerRows, RowsGiving, Located
<1>4. Writes(v.call, w, "indeterminate", "received")
  <2>1. Writes(v.call, w, "indeterminate", Kept("received", calls[v.call].result))
    BY <1>3, IndeterminateWrites DEF Unmetered, ServiceInv, ResultCodes
  <2>2. QED  BY <2>1 DEF Kept
<1>5. CASE Drafts(w, "none")
  BY <1>4, <1>5, DraftWorks
<1>6. CASE DraftInvalid(w)
  BY <1>4, <1>6, InvalidDraftWorks DEF Bought
<1>7. CASE FailsRun(w)
  BY <1>1, <1>2, <1>3, <1>4, <1>7, FailureStops, WritingFailure DEF Harmless
<1>8. QED  BY <1>5, <1>6, <1>7 DEF Unmetered

LEMMA AnswerWorks ==
    ASSUME ServiceInv, NEW w \in Workers, Answer(w)
    PROVE  PlainWork(w) /\ (ApplicationsInv => StillBuying(w))
<1> DEFINE v == worker[w]
           c == v.call
<1>1. v.pc = "transmit" /\ v.pc \in Evaluates /\ UNCHANGED <<page, starter, faults>>
  BY DEF Answer, Evaluates
<1>2. /\ v \in WorkerRows /\ v.run \in Runs /\ v.app \in Applications
      /\ Located(v, calls) /\ Seen(v, page) /\ faults' \in 0..MaxFaults
  BY <1>1, WorkPlace
<1>3. c # "none" /\ c \in Calls /\ v.stage = "append"
  BY <1>1, <1>2 DEF Located, WorkerRows, RowsGiving
<1>4. CASE Unmetered(w, c)
  BY <1>1, <1>4, UnmeteredWorks
<1>5. CASE RecordProviderCallResponse(c, w, "received") /\ Goes(w, "answered")
  <2> DEFINE row == AtPc(v, "answered")
  <2>1. Turns(w, row) /\ row.pc = "answered" /\ SameWork(row, v)
    BY <1>2, <1>5, RowsAreTyped, GoesTurns, AtPcFields DEF ServiceInv, Steps
  <2>2. Writes(c, w, "response_recorded", "received")
    BY <1>3, <1>5, ResponseWrites DEF ServiceInv
  <2> HIDE DEF row
  <2>3. Onward(w, row)
    BY <1>1, <1>2, <2>1 DEF Onward, Evaluates, SameWork
  <2>4. Located(row, calls') /\ Seen(row, page)
    BY <1>1, <1>2, <1>3, <2>1, <2>2
    DEF Located, Seen, SameWork, SamePlace, Evaluates, Holding, Writes, KeepsCandidate
  <2>5. PlainWork(w)
    BY <1>3, <2>1, <2>2, <2>3, <2>4, WritingWork DEF Harmless
  <2>6. ASSUME ApplicationsInv, Leads(w)'
        PROVE  Buying(worker'[w], page', quarantine', calls')
    <3>1. worker'[w] = row
      BY <2>1, TurnsTo
    <3>2. Leads(w)
      BY <2>3, <2>2, <2>6, LedBefore DEF Writes
    <3>3. v.app \notin quarantine /\ Unspent(calls, v.run, v.app, c) /\ page[v.app].bodies = 0
      BY <1>1, <2>6, <3>2 DEF ApplicationsInv, LeadersBuy, Buying
    <3>4. Unspent(calls', v.run, v.app, c)
      BY <2>2, <3>3 DEF Unspent, Writes
    <3>5. QED
      BY <1>1, <2>1, <2>2, <3>1, <3>3, <3>4 DEF Buying, SameWork, SamePlace, Writes
  <2>7. QED  BY <2>5, <2>6 DEF StillBuying
<1>6. QED  BY <1>4, <1>5 DEF Answer

LEMMA ProviderFailsWorks ==
    ASSUME ServiceInv, NEW w \in Workers, ProviderFails(w)
    PROVE  PlainWork(w) /\ (ApplicationsInv => StillBuying(w))
<1> DEFINE v == worker[w]
           c == v.call
<1>1. v.pc = "transmit" /\ v.pc \in Evaluates /\ UNCHANGED <<page, starter, faults>>
  BY DEF ProviderFails, Evaluates
<1>2. v \in WorkerRows /\ Located(v, calls) /\ faults' \in 0..MaxFaults
  BY <1>1, WorkPlace
<1>3. c # "none" /\ c \in Calls /\ v.tries + 1 \in Nat /\ v.unsent \in Nat
  BY <1>1, <1>2 DEF Located, WorkerRows, RowsGiving
<1>4. ASSUME NEW result \in {"systemic", "authorization", "terminal"}, MarkIndeterminate(c, w, result)
      PROVE  Writes(c, w, "indeterminate", result) /\ Harmless(w, result)
  <2>1. Writes(c, w, "indeterminate", Kept(result, calls[c].result))
    BY <1>3, <1>4, IndeterminateWrites DEF ServiceInv, ResultCodes
  <2>2. QED  BY <2>1 DEF Kept, Harmless
<1>5. ASSUME NEW result \in {"systemic", "authorization", "terminal"}, NEW stop \in Stops \cup {"none"},
             MarkIndeterminate(c, w, result), Concludes(w, "failed", stop)
      PROVE  PlainWork(w) /\ StillBuying(w)
  BY <1>1, <1>2, <1>3, <1>4, <1>5, WritingFailure
<1>6. CASE /\ MarkIndeterminate(c, w, "systemic")
           /\ CallsAgain(w, v.tries + 1, v.unsent, FailsRun(w))
  <2>1. FailsRun(w) \/ Turns(w, Again(v, v.tries + 1, v.unsent))
    BY <1>3, <1>6, RowsAreTyped, CallsAgainTurns DEF ServiceInv
  <2>2. CASE FailsRun(w)
    BY <1>5, <1>6, <2>2, FailureStops
  <2>3. CASE Turns(w, Again(v, v.tries + 1, v.unsent))
    <3>1. Writes(c, w, "indeterminate", "systemic") /\ Harmless(w, "systemic")
      BY <1>4, <1>6
    <3>2. "systemic" \notin Bought
      BY DEF Bought
    <3>3. QED
      BY <1>1, <1>2, <1>3, <2>3, <3>1, <3>2, AgainWorks
  <2>4. QED  BY <2>1, <2>2, <2>3
<1>7. CASE /\ MarkIndeterminate(c, w, "authorization")
           /\ Concludes(w, "failed", "authorization_blocked")
  BY <1>5, <1>7 DEF Stops
<1>8. CASE MarkIndeterminate(c, w, "terminal") /\ FailsRun(w)
  BY <1>5, <1>8, FailureStops
<1>9. QED  BY <1>1, <1>6, <1>7, <1>8 DEF ProviderFails

LEMMA UnsentWorks ==
    ASSUME ServiceInv, NEW w \in Workers, Unsent(w)
    PROVE  PlainWork(w) /\ (ApplicationsInv => StillBuying(w))
<1> DEFINE v == worker[w]
           c == v.call
<1>1. v.pc = "transmit" /\ v.pc \in Evaluates /\ UNCHANGED <<page, starter>>
  BY DEF Unsent, Evaluates
<1>2. v \in WorkerRows /\ Located(v, calls) /\ faults \in 0..MaxFaults
  BY <1>1, WorkPlace
<1>3. faults' \in 0..MaxFaults
  BY <1>2, RunsAssumption DEF Unsent
<1>4. c # "none" /\ c \in Calls /\ v.tries \in Nat /\ v.unsent + 1 \in Nat
  BY <1>1, <1>2 DEF Located, WorkerRows, RowsGiving
<1>5. Writes(c, w, "released", calls[c].result) /\ Harmless(w, calls[c].result)
  BY <1>4, ReleaseWrites DEF Unsent, ServiceInv, Harmless
<1>6. FailsRun(w) \/ Turns(w, Again(v, v.tries, v.unsent + 1))
  BY <1>4, RowsAreTyped, CallsAgainTurns DEF Unsent, ServiceInv
<1>7. CASE FailsRun(w)
  BY <1>1, <1>3, <1>4, <1>5, <1>7, FailureStops, WritingFailure
<1>8. CASE Turns(w, Again(v, v.tries, v.unsent + 1))
  BY <1>1, <1>2, <1>3, <1>4, <1>5, <1>8, AgainWorks
<1>9. QED  BY <1>6, <1>7, <1>8

LEMMA ValidateWorks ==
    ASSUME ServiceInv, NEW w \in Workers, Validate(w)
    PROVE  PlainWork(w) /\ (ApplicationsInv => StillBuying(w))
<1> DEFINE v == worker[w]
           c == v.call
<1>1. v.pc = "answered" /\ v.pc \in Evaluates /\ UNCHANGED <<page, starter, faults>>
  BY DEF Validate, Evaluates
<1>2. v \in WorkerRows /\ Located(v, calls) /\ faults' \in 0..MaxFaults
  BY <1>1, WorkPlace
<1>3. c # "none" /\ c \in Calls
  BY <1>1, <1>2 DEF Located, WorkerRows, RowsGiving
<1>4. ASSUME NEW result \in {"invalid", "rejected"}, SettleProviderCall(c, w, 1, result)
      PROVE  Writes(c, w, "settled", result) /\ Harmless(w, result)
  <2>1. Writes(c, w, "settled", Kept(result, calls[c].result))
    BY <1>3, <1>4, SettleWrites DEF ServiceInv, ResultCodes
  <2>2. QED  BY <2>1 DEF Kept, Harmless
<1>5. CASE Drafts(w, c) /\ UNCHANGED storeVars
  BY <1>1, <1>5, DraftWorks
<1>6. CASE SettleProviderCall(c, w, 1, "invalid") /\ DraftInvalid(w)
  BY <1>1, <1>4, <1>6, InvalidDraftWorks DEF Bought
<1>7. CASE Unmetered(w, c)
  BY <1>1, <1>7, UnmeteredWorks
<1>8. CASE SettleProviderCall(c, w, 1, "rejected") /\ FailsRun(w)
  BY <1>1, <1>2, <1>3, <1>4, <1>8, FailureStops, WritingFailure
<1>9. QED  BY <1>5, <1>6, <1>7, <1>8 DEF Validate

\* The worker takes up the call it has reserved.
Taking(v, c) == [v EXCEPT !.pc = "dispatch", !.call = c]

LEMMA TakingFields ==
    ASSUME NEW v \in WorkerRows, NEW c \in Calls
    PROVE  LET u == Taking(v, c) IN
           /\ u \in WorkerRows /\ u.pc = "dispatch" /\ SamePlace(u, v)
           /\ u.stage = v.stage /\ u.call = c
  BY DEF Taking, WorkerRows, RowsGiving, Steps, SamePlace

LEMMA ReserveWorks ==
    ASSUME ServiceInv, NEW w \in Workers, Reserve(w)
    PROVE  PlainWork(w) /\ (ApplicationsInv => StillBuying(w))
<1> DEFINE v == worker[w]
           r == v.run
           a == v.app
<1>1. v.pc = "reserve" /\ v.pc \in Evaluates /\ UNCHANGED <<page, starter, faults>>
  BY DEF Reserve, Evaluates
<1>2. /\ v \in WorkerRows /\ r \in Runs /\ a \in Applications
      /\ Located(v, calls) /\ Seen(v, page) /\ faults' \in 0..MaxFaults
  BY <1>1, WorkPlace
<1>3. v.call = "none" /\ v.stage = "append"
  BY <1>1, <1>2 DEF Located, Holding, WorkerRows, RowsGiving
<1>4. CASE UNCHANGED storeVars /\ \E stop \in Stops \cup {"none"} : Concludes(w, "failed", stop)
  BY <1>1, <1>4, QuietFailure
<1>5. ASSUME NEW amount \in Reservations, \E c \in Calls : calls[c].state = "absent",
             ReserveProviderCall(FreshCall, r, a, w, amount),
             worker' = [worker EXCEPT ![w].pc = "dispatch", ![w].call = FreshCall]
      PROVE  PlainWork(w) /\ (ApplicationsInv => StillBuying(w))
  <2> DEFINE c == FreshCall
             row == Taking(v, c)
  <2>1. c \in Calls /\ calls[c].state = "absent"
    BY <1>5 DEF FreshCall
  <2>2. c # "none"
    BY <2>1, RunsAssumption
  <2> HIDE DEF c
  <2>3. worker' = [worker EXCEPT ![w] = row]
    BY <1>2, <1>5, RowsAreTyped DEF Taking, ServiceInv, RowsOK, WorkerRows, RowsGiving, c
  <2>4. /\ row \in WorkerRows /\ row.pc = "dispatch" /\ SamePlace(row, v)
        /\ row.stage = v.stage /\ row.call = c
    BY <1>2, <2>1, TakingFields
  <2> HIDE DEF row
  <2>5. Onward(w, row)
    BY <1>1, <1>2, <2>3, <2>4 DEF Onward, Turns, Evaluates
  <2>6. Reserves(c, r, a, w)
    BY <1>2, <1>5, <2>1, ReserveReserves DEF ServiceInv, c
  <2>7. worker'[w] = row /\ worker'[w] \in WorkerRows
        /\ worker' = [worker EXCEPT ![w] = worker'[w]]
    BY <2>5, TurnsTo DEF Onward
  <2>8. Located(row, calls') /\ Seen(row, page)
    BY <1>2, <1>3, <2>2, <2>4, <2>6
    DEF Located, Seen, SamePlace, Evaluates, Holding, Reserves, Reserved
  <2>9. Grows(page, page') /\ page' \in [Applications -> Pages]
    BY <1>1, GrowsItself
  <2>10. Leads(w)
    BY <1>1, <2>6 DEF Reserves, Leads, Busy, Mine
  <2>11. Works(w)
    BY <1>1, <1>2, <2>4, <2>6, <2>7, <2>8, <2>9, <2>10 DEF Works, Reserves, Evaluates
  <2>12. Plain(w)
    <3>1. \A d \in Calls : calls'[d].result \in {"valid", "commit_unknown"} =>
              calls'[d].result = calls[d].result /\ KeepsCandidate(d)
      BY <2>6 DEF Reserves, KeepsCandidate
    <3>2. QED
      BY <1>1, <2>4, <2>6, <2>7, <3>1 DEF Plain, Reserves, Appends
  <2>13. NothingSent
    BY <2>6 DEF NothingSent, Dispatched, Reserves, Reserved
  <2>14. ASSUME ApplicationsInv PROVE StillBuying(w)
    <3>1. a \notin quarantine /\ Unspent(calls, r, a, "none") /\ page[a].bodies = 0
      BY <1>1, <1>3, <2>10, <2>14 DEF ApplicationsInv, LeadersBuy, Buying
    <3>2. Unspent(calls', r, a, c)
      BY <2>6, <3>1, RunsAssumption DEF Unspent, Reserves
    <3>3. QED
      BY <1>1, <2>4, <2>6, <2>7, <3>1, <3>2 DEF StillBuying, Buying, SamePlace, Reserves
  <2>15. QED  BY <2>11, <2>12, <2>13, <2>14 DEF PlainWork
<1>6. \/ UNCHANGED storeVars /\ \E stop \in Stops \cup {"none"} : Concludes(w, "failed", stop)
      \/ \E amount \in Reservations :
            /\ \E c \in Calls : calls[c].state = "absent"
            /\ ReserveProviderCall(FreshCall, r, a, w, amount)
            /\ worker' = [worker EXCEPT ![w].pc = "dispatch", ![w].call = FreshCall]
  BY DEF Reserve, Mine, FailsCandidate, Stops
<1>7. QED  BY <1>4, <1>5, <1>6

\* What is sent is sent for a candidate nothing has been bought for.
SendsUnspent ==
    \A c \in Calls : Dispatched(c) => Unspent(calls, calls[c].run, calls[c].application, c)

\* What a step of an evaluation shows, but for the commits to Notion.
WorksAsAgreed(w) ==
    Works(w) /\ Plain(w) /\ (ApplicationsInv => StillBuying(w) /\ SendsUnspent)

LEMMA PlainAgrees ==
    ASSUME NEW w, PlainWork(w), ApplicationsInv => StillBuying(w)
    PROVE  WorksAsAgreed(w)
  BY DEF PlainWork, WorksAsAgreed, NothingSent, SendsUnspent

LEMMA DispatchWorks ==
    ASSUME ServiceInv, NEW w \in Workers, Dispatch(w)
    PROVE  WorksAsAgreed(w)
<1> DEFINE v == worker[w]
           c == v.call
<1>1. v.pc = "dispatch" /\ v.pc \in Evaluates /\ UNCHANGED <<page, starter, faults>>
  BY DEF Dispatch, Evaluates
<1>2. /\ v \in WorkerRows /\ v.run \in Runs /\ v.app \in Applications
      /\ Located(v, calls) /\ Seen(v, page) /\ faults' \in 0..MaxFaults
  BY <1>1, WorkPlace
<1>3. /\ c # "none" /\ c \in Calls /\ v.stage = "append"
      /\ calls[c].run = v.run /\ calls[c].application = v.app
  BY <1>1, <1>2 DEF Located, WorkerRows, RowsGiving
<1>4. CASE ReleaseProviderCall(c, w) /\ FailsCandidate(w)
  <2>1. Writes(c, w, "released", calls[c].result) /\ Harmless(w, calls[c].result)
    BY <1>3, <1>4, ReleaseWrites DEF ServiceInv, Harmless
  <2>2. PlainWork(w) /\ StillBuying(w)
    BY <1>1, <1>2, <1>3, <1>4, <2>1, FailureStops, WritingFailure
  <2>3. QED  BY <2>2, PlainAgrees
<1>5. CASE BeginProviderDispatch(c, w) /\ Goes(w, "transmit")
  <2> DEFINE row == AtPc(v, "transmit")
  <2>1. Turns(w, row) /\ row.pc = "transmit" /\ SameWork(row, v)
    BY <1>2, <1>5, RowsAreTyped, GoesTurns, AtPcFields DEF ServiceInv, Steps
  <2> HIDE DEF row
  <2>2. Sends(c, w)
    BY <1>3, <1>5, DispatchSends DEF ServiceInv
  <2>3. Onward(w, row)
    BY <1>1, <1>2, <2>1 DEF Onward, Evaluates, SameWork
  <2>4. Located(row, calls') /\ Seen(row, page)
    BY <1>1, <1>2, <1>3, <2>1, <2>2
    DEF Located, Seen, SameWork, SamePlace, Evaluates, Holding, Sends, Dispatched, KeepsCandidate
  <2>5. worker'[w] = row /\ worker'[w] \in WorkerRows
        /\ worker' = [worker EXCEPT ![w] = worker'[w]]
    BY <2>1, TurnsTo
  <2>6. Grows(page, page') /\ page' \in [Applications -> Pages]
    BY <1>1, GrowsItself
  <2>7. Leads(w)
    BY <1>1, <1>3, <2>2 DEF Sends, Leads, Busy, Mine
  <2>8. Works(w)
    BY <1>1, <1>2, <2>1, <2>2, <2>4, <2>5, <2>6, <2>7 DEF Works, Sends, Evaluates, SameWork
  <2>9. Plain(w)
    BY <1>1, <2>1, <2>2, <2>5 DEF Plain, Sends, Appends, Dispatched, KeepsCandidate
  <2>10. ASSUME ApplicationsInv PROVE StillBuying(w) /\ SendsUnspent
    <3>1. v.app \notin quarantine /\ Unspent(calls, v.run, v.app, c) /\ page[v.app].bodies = 0
      BY <1>1, <2>7, <2>10 DEF ApplicationsInv, LeadersBuy, Buying
    <3>2. Unspent(calls', v.run, v.app, c)
      BY <2>2, <3>1 DEF Unspent, Sends
    <3>3. StillBuying(w)
      BY <1>1, <2>1, <2>2, <2>5, <3>1, <3>2
      DEF StillBuying, Buying, SameWork, SamePlace, Sends
    <3>4. SendsUnspent
      BY <1>3, <2>2, <3>1 DEF SendsUnspent, Sends, Dispatched
    <3>5. QED  BY <3>3, <3>4
  <2>11. QED  BY <2>8, <2>9, <2>10 DEF WorksAsAgreed
<1>6. QED  BY <1>4, <1>5 DEF Dispatch

-----------------------------------------------------------------------------
(* What a step leaves true of the Applications                             *)

\* No run is created, and no candidate is put back.
NothingNew ==
    \A r \in Runs :
        /\ Unfinished(r)' => Unfinished(r)
        /\ \A a \in Applications : candidates'[r][a] = "pending" => candidates[r][a] = "pending"

Agreed(w) ==
    ApplicationsInv =>
        /\ AppendsApart' /\ DraftsShow'
        /\ PendingUntouched' /\ StartAlone'
        /\ StillBuying(w) /\ SendsUnspent
        /\ \/ Fenced(w)
           \/ \A a \in Applications \ quarantine :
                 a \notin quarantine' /\ page'[a].bodies = page[a].bodies

\* An Application keeps its quarantine, or comes out of it, while nothing new
\* begins.
LEMMA QuarantineShrinks ==
    ASSUME ApplicationsInv, NothingNew, UNCHANGED starter, quarantine' \subseteq quarantine
    PROVE  PendingUntouched' /\ StartAlone'
<1>1. PendingUntouched'
  BY DEF ApplicationsInv, PendingUntouched, NothingNew
<1>2. NoActiveRun => NoActiveRun'
  BY DEF NoActiveRun, NothingNew
<1>3. StartAlone'
  BY <1>2 DEF ApplicationsInv, StartAlone
<1>4. QED  BY <1>1, <1>3

\* The appends of the others.
LEMMA OthersAppend ==
    ASSUME ServiceInv, NEW w \in Workers, worker' = [worker EXCEPT ![w] = worker'[w]],
           NEW a \in Applications
    PROVE  /\ \A v \in Workers \ {w} : v \in Appending(a)' <=> v \in Appending(a)
           /\ w \in Appending(a)' <=> Appends(worker'[w], a)
           /\ w \in Appending(a) <=> Appends(worker[w], a)
<1>1. \A v \in Workers \ {w} : worker'[v] = worker[v]
  BY RowsAreTyped DEF ServiceInv, RowsOK
<1>2. QED  BY <1>1 DEF Appending, Appends

LEMMA PlainApart ==
    ASSUME ServiceInv, ApplicationsInv, NEW w \in Workers,
           worker' = [worker EXCEPT ![w] = worker'[w]],
           page' \in [Applications -> Pages], StoreNext \/ UNCHANGED storeVars, Plain(w)
    PROVE  AppendsApart' /\ DraftsShow'
<1>1. page \in [Applications -> Pages]
  BY RowsAreTyped DEF ServiceInv, RowsOK
<1>2. ASSUME NEW a \in Applications
      PROVE  /\ page'[a].bodies + page'[a].late <= 1
             /\ page'[a].late > 0 => a \in quarantine'
             /\ \A v \in Appending(a)' :
                   /\ a \in quarantine' /\ page'[a].bodies = 0 /\ page'[a].late = 0
                   /\ \A u \in Appending(a)' : u = v
                   /\ \A c \in Calls :
                         calls'[c].application = a => calls'[c].result # "commit_unknown"
  <2>1. Appending(a)' \subseteq Appending(a)
    BY OthersAppend DEF Plain, Appending
  <2>2. /\ page'[a].bodies = page[a].bodies /\ page'[a].late = page[a].late
        /\ page[a].bodies \in Nat /\ page[a].late \in Nat
        /\ a \in quarantine /\ a \notin quarantine' => page[a].bodies > 0
    BY <1>1 DEF Plain, Pages
  <2>3. /\ page[a].bodies + page[a].late <= 1
        /\ page[a].late > 0 => a \in quarantine
        /\ \A v \in Appending(a) :
              /\ a \in quarantine /\ page[a].bodies = 0 /\ page[a].late = 0
              /\ \A u \in Appending(a) : u = v
              /\ \A c \in Calls : calls[c].application = a => calls[c].result # "commit_unknown"
    BY DEF ApplicationsInv, AppendsApart
  <2>4. \A c \in Calls : calls'[c].result = "commit_unknown" =>
            calls[c].result = "commit_unknown" /\ calls'[c].application = calls[c].application
    BY DEF Plain, KeepsCandidate
  <2>5. QED  BY <2>1, <2>2, <2>3, <2>4
<1>3. AppendsApart'
  BY <1>2 DEF AppendsApart
<1>4. ASSUME NEW c \in Calls, calls'[c].state # "absent"
      PROVE  LET a == calls'[c].application IN
             /\ calls'[c].result = "valid" => page'[a].bodies > 0
             /\ calls'[c].result = "commit_unknown" => page'[a].bodies > 0 \/ a \in quarantine'
  <2> DEFINE a == calls'[c].application
  <2>1. a \in Applications
    BY <1>4, InvStep DEF ServiceInv, StoreInv, CallsHaveRuns
  <2>2. page'[a].bodies = page[a].bodies
    BY <2>1 DEF Plain
  <2>3. a \in quarantine /\ a \notin quarantine' => page[a].bodies > 0
    BY DEF Plain
  <2>4. ASSUME calls'[c].result = calls[c].result, KeepsCandidate(c),
               calls[c].result \in {"valid", "commit_unknown"}
        PROVE  /\ calls[c].result = "valid" => page[a].bodies > 0
               /\ calls[c].result = "commit_unknown" => page[a].bodies > 0 \/ a \in quarantine
    <3>1. calls[c].state # "absent"
      BY <2>4 DEF ServiceInv, StoreInv, CallsHaveRuns, NoCall
    <3>2. QED  BY <2>4, <3>1 DEF ApplicationsInv, DraftsShow, KeepsCandidate
  <2>5. QED  BY <2>2, <2>3, <2>4 DEF Plain
<1>5. QED  BY <1>3, <1>4 DEF DraftsShow

\* A step that is plain, creates nothing and keeps what may be bought agrees.
LEMMA PlainAgreed ==
    ASSUME ServiceInv, NEW w \in Workers, worker' = [worker EXCEPT ![w] = worker'[w]],
           page' \in [Applications -> Pages], StoreNext \/ UNCHANGED storeVars,
           NothingNew, UNCHANGED starter, Plain(w),
           ApplicationsInv => StillBuying(w) /\ SendsUnspent
    PROVE  Agreed(w)
<1>1. quarantine' \subseteq quarantine
      /\ \A a \in Applications : page'[a].bodies = page[a].bodies
  BY DEF Plain
<1>2. QED  BY <1>1, PlainApart, QuarantineShrinks DEF Agreed

LEMMA StandingIsNothingNew ==
    ASSUME UNCHANGED <<runs, candidates>>
    PROVE  NothingNew
  BY DEF NothingNew, Unfinished

LEMMA WorksAgreed ==
    ASSUME ServiceInv, NEW w \in Workers, WorksAsAgreed(w)
    PROVE  Stepped(w) /\ Agreed(w)
<1>1. Stepped(w)
  BY WorkSteps DEF WorksAsAgreed
<1>2. NothingNew
  BY StandingIsNothingNew DEF WorksAsAgreed, Works
<1>3. QED  BY <1>1, <1>2, PlainAgreed DEF WorksAsAgreed, Works

-----------------------------------------------------------------------------
(* The lease-fenced commits                                                *)

\* A lease is extended, and nothing else changes.
Extends(r, w) ==
    /\ StoreNext
    /\ UNCHANGED <<candidates, calls, quarantine>>
    /\ CurrentLease(r, w, Leased) /\ CurrentLease(r, w, Leased)'
    /\ runs'[r].lifecycle = runs[r].lifecycle
    /\ \A q \in Runs : Continues(runs[q], runs'[q])
    /\ Fenced(w)
    /\ NothingNew

LEMMA RenewExtends ==
    ASSUME StoreInv, NEW r \in Runs, NEW w \in Workers, NEW term \in LeaseTerms,
           RenewLease(r, w, term)
    PROVE  Extends(r, w)
<1>1. runs \in [Runs -> RunRows] /\ LeaseTerms \subseteq Nat \ {0}
  BY StoreAssumption DEF StoreInv, StoreTypeOK
<1>2. StoreNext
  <2>1. RunStep(r, w)
    BY DEF RunStep
  <2>2. QED  BY <2>1 DEF StoreNext
<1> DEFINE row == [runs[r] EXCEPT !.lease = LaterOf(runs[r].lease, term)]
<1>3. runs[r] \in RunRows
  BY <1>1
<1>4. /\ runs' = [runs EXCEPT ![r] = row]
      /\ CurrentLease(r, w, Leased) /\ UNCHANGED <<candidates, calls, quarantine>>
  BY <1>1 DEF RenewLease
<1>5. /\ row.lifecycle = runs[r].lifecycle /\ row.owner = runs[r].owner
      /\ row.lease > 0
      /\ row.queue = runs[r].queue /\ row.target = runs[r].target
      /\ row.completions = runs[r].completions
      /\ row.truncated = runs[r].truncated /\ row.outcome = runs[r].outcome
  BY <1>1, <1>3, <1>4 DEF RunRows, LaterOf, CurrentLease
<1> HIDE DEF row
<1>6. runs'[r] = row /\ \A q \in Runs \ {r} : runs'[q] = runs[q]
  BY <1>1, <1>4
<1>7. \A q \in Runs : Continues(runs[q], runs'[q])
  BY <1>4, <1>5, <1>6 DEF Continues, CurrentLease, Leased
<1>8. CurrentLease(r, w, Leased)'
  BY <1>4, <1>5, <1>6 DEF CurrentLease
<1>9. Fenced(w)
  BY <1>4, <1>5, <1>6 DEF Fenced, CurrentLease, Unfinished, Leased
<1>10. NothingNew
  BY <1>4, <1>5, <1>6 DEF NothingNew, Unfinished
<1>11. QED  BY <1>2, <1>4, <1>5, <1>6, <1>7, <1>8, <1>9, <1>10 DEF Extends

LEMMA TermsOfLeases == LeaseTerm \in LeaseTerms /\ Protection \in LeaseTerms
  BY RunsAssumption

LEMMA QuietPlain ==
    ASSUME NEW w, UNCHANGED <<page, quarantine, calls>>,
           worker'[w].pc \notin {"append", "rejected"}
    PROVE  Plain(w) /\ NothingSent
  BY DEF Plain, NothingSent, Dispatched, Appends, KeepsCandidate

LEMMA ProtectAgreed ==
    ASSUME ServiceInv, NEW w \in Workers, Protect(w)
    PROVE  Stepped(w) /\ Agreed(w)
<1> DEFINE v == worker[w]
           row == AtPc(v, "guard")
<1>1. v.pc = "protect" /\ v.pc \in Evaluates /\ UNCHANGED <<page, starter, faults>>
  BY DEF Protect, Evaluates
<1>2. /\ v \in WorkerRows /\ v.run \in Runs /\ v.app \in Applications
      /\ Located(v, calls) /\ Seen(v, page) /\ faults' \in 0..MaxFaults
  BY <1>1, WorkPlace
<1>3. Extends(v.run, w)
  BY <1>2, TermsOfLeases, RenewExtends DEF Protect, Mine, ServiceInv
<1>4. Turns(w, row) /\ row.pc = "guard" /\ SameWork(row, v)
  BY <1>2, RowsAreTyped, GoesTurns, AtPcFields DEF ServiceInv, Steps, Protect
<1> HIDE DEF row
<1>5. worker'[w] = row /\ worker'[w] \in WorkerRows
      /\ worker' = [worker EXCEPT ![w] = worker'[w]]
  BY <1>4, TurnsTo
<1>6. Grows(page, page') /\ page' \in [Applications -> Pages]
  BY <1>1, GrowsItself
<1>7. RunsAccounted' /\ ResultsMatchNotion'
  BY <1>3, <1>6, AccountsStand DEF Extends
<1>8. Leads(w)
  BY <1>1, <1>3 DEF Extends, Leads, Mine, Busy
<1>9. Leading(row, runs'[row.run], candidates'[row.run])
  <2>1. Leading(v, runs[v.run], candidates[v.run])
    BY <1>8 DEF ServiceInv, LeadersKnow, Mine
  <2>2. candidates[v.run][v.app] = "evaluating"
    BY <1>1, <2>1 DEF Leading
  <2>3. QED
    BY <1>3, <1>4, <2>2 DEF Leading, SameWork, SamePlace, Extends, Evaluates
<1>10. Located(row, calls')
  BY <1>1, <1>2, <1>3, <1>4 DEF Located, SameWork, SamePlace, Extends, Evaluates, Holding
<1>11. Seen(row, page')
  BY <1>1, <1>2, <1>4 DEF Seen, SameWork, SamePlace
<1>12. Stepped(w)
  BY <1>1, <1>2, <1>3, <1>5, <1>6, <1>7, <1>9, <1>10, <1>11 DEF Stepped, Extends
<1>13. ASSUME ApplicationsInv PROVE StillBuying(w) /\ SendsUnspent
  <2>1. Buying(v, page, quarantine, calls)
    BY <1>8, <1>13 DEF ApplicationsInv, LeadersBuy
  <2>2. StillBuying(w)
    BY <1>1, <1>3, <1>4, <1>5, <2>1 DEF StillBuying, Buying, SameWork, SamePlace, Extends
  <2>3. SendsUnspent
    BY <1>3 DEF SendsUnspent, Dispatched, Extends
  <2>4. QED  BY <2>2, <2>3
<1>14. Plain(w)
  BY <1>1, <1>3, <1>4, <1>5, QuietPlain DEF Extends
<1>15. Agreed(w)
  BY <1>1, <1>3, <1>5, <1>6, <1>13, <1>14, PlainAgreed DEF Extends
<1>16. QED  BY <1>12, <1>15

LEMMA GuardAgreed ==
    ASSUME ServiceInv, NEW w \in Workers, Guard(w)
    PROVE  Stepped(w) /\ Agreed(w)
<1> DEFINE v == worker[w]
           a == v.app
           row == AtPc(v, v.stage)
<1>1. v.pc = "guard" /\ v.pc \in Evaluates /\ UNCHANGED <<page, starter, faults>>
  BY DEF Guard, Evaluates
<1>2. /\ v \in WorkerRows /\ v.run \in Runs /\ a \in Applications
      /\ Located(v, calls) /\ Seen(v, page) /\ faults' \in 0..MaxFaults
  BY <1>1, WorkPlace
<1>3. /\ QuarantineCommitUnknown(v.run, a, w) /\ CurrentLease(v.run, w, Leased)
      /\ quarantine' = quarantine \cup {a}
      /\ UNCHANGED <<runs, candidates, calls>>
  BY DEF Guard, Mine, QuarantineCommitUnknown
<1>4. StoreNext
  <2>1. CandidateStep(v.run, a, w)
    BY <1>3 DEF CandidateStep
  <2>2. QED  BY <1>2, <2>1 DEF StoreNext
<1>5. v.stage \in {"append", "finalize"} /\ v.stage \in Steps /\ v.result \in Completed
  BY <1>1, <1>2 DEF WorkerRows, RowsGiving, Steps, Located
<1>6. Turns(w, row) /\ row.pc = v.stage /\ SameWork(row, v)
  BY <1>2, <1>5, RowsAreTyped, GoesTurns, AtPcFields DEF ServiceInv, Guard
<1> HIDE DEF row
<1>7. worker'[w] = row /\ worker'[w] \in WorkerRows
      /\ worker' = [worker EXCEPT ![w] = worker'[w]]
  BY <1>6, TurnsTo
<1>8. Grows(page, page') /\ page' \in [Applications -> Pages]
  BY <1>1, GrowsItself
<1>9. Leads(w)
  BY <1>1, <1>3 DEF Leads, Mine, Busy
<1>10. Located(row, calls') /\ Seen(row, page')
  BY <1>1, <1>2, <1>3, <1>5, <1>6
  DEF Located, Seen, SameWork, SamePlace, Evaluates, Holding
<1>11. Works(w)
  BY <1>1, <1>2, <1>3, <1>4, <1>5, <1>6, <1>7, <1>8, <1>10
  DEF Works, Evaluates, SameWork
<1>12. Stepped(w)
  BY <1>11, WorkSteps
<1>13. Agreed(w)
  <2> SUFFICES ASSUME ApplicationsInv
               PROVE  /\ AppendsApart' /\ DraftsShow'
                      /\ PendingUntouched' /\ StartAlone'
                      /\ StillBuying(w) /\ SendsUnspent
                      /\ Fenced(w)
    BY DEF Agreed
  <2>1. Fenced(w)
    BY <1>2, <1>3, LeaseFencesOthers
  <2>2. SendsUnspent
    BY <1>3 DEF SendsUnspent, Dispatched
  <2>3. StillBuying(w)
    BY <1>5, <1>6, <1>7, NothingToBuy
  <2>4. Unfinished(v.run) /\ ~NoActiveRun
    BY <1>2, <1>3 DEF CurrentLease, Unfinished, Leased, NoActiveRun
  <2>5. StartAlone'
    BY <1>1, <2>4 DEF ApplicationsInv, StartAlone
  <2>6. candidates[v.run][a] = "evaluating"
    BY <1>1, <1>9 DEF ServiceInv, LeadersKnow, Leading, Mine
  <2>7. PendingUntouched'
    BY <1>2, <1>3, <2>4, <2>6
    DEF ApplicationsInv, PendingUntouched, ServiceInv, StoreInv, OneActiveRun, Unfinished
  <2>8. DraftsShow'
    BY <1>1, <1>3 DEF ApplicationsInv, DraftsShow
  <2>9. page \in [Applications -> Pages]
    BY RowsAreTyped DEF ServiceInv, RowsOK
  <2>10. ASSUME NEW b \in Applications
         PROVE  /\ page'[b].bodies + page'[b].late <= 1
                /\ page'[b].late > 0 => b \in quarantine'
                /\ \A u \in Appending(b)' :
                      /\ b \in quarantine' /\ page'[b].bodies = 0 /\ page'[b].late = 0
                      /\ \A x \in Appending(b)' : x = u
                      /\ \A c \in Calls :
                            calls'[c].application = b => calls'[c].result # "commit_unknown"
    <3>1. /\ page[b].bodies + page[b].late <= 1
          /\ page[b].late > 0 => b \in quarantine
          /\ \A u \in Appending(b) :
                /\ b \in quarantine /\ page[b].bodies = 0 /\ page[b].late = 0
                /\ \A x \in Appending(b) : x = u
                /\ \A c \in Calls :
                      calls[c].application = b => calls[c].result # "commit_unknown"
      BY DEF ApplicationsInv, AppendsApart
    <3>2. CASE w \notin Appending(b)'
      <4>1. Appending(b)' \subseteq Appending(b)
        BY <1>7, <3>2, OthersAppend DEF Appending
      <4>2. QED  BY <1>1, <1>3, <3>1, <4>1
    <3>3. CASE w \in Appending(b)'
      <4>1. b = a /\ v.stage = "append"
        BY <1>5, <1>6, <1>7, <3>3, OthersAppend DEF Appends, SameWork, SamePlace
      <4>2. page[a].bodies = 0 /\ a \notin quarantine
        BY <1>1, <1>9, <4>1 DEF ApplicationsInv, LeadersBuy, Buying
      <4>3. page[a].late = 0 /\ Appending(a) = {}
        BY <1>2, <2>9, <3>1, <4>1, <4>2 DEF Pages
      <4>4. \A x \in Appending(b)' : x = w
        BY <1>7, <4>1, <4>3, OthersAppend DEF Appending
      <4>5. \A c \in Calls : calls[c].application = a => calls[c].result # "commit_unknown"
        <5> SUFFICES ASSUME NEW c \in Calls, calls[c].application = a,
                            calls[c].result = "commit_unknown"
                     PROVE  FALSE
          OBVIOUS
        <5>1. calls[c].state # "absent"
          BY DEF ServiceInv, StoreInv, CallsHaveRuns, NoCall
        <5>2. QED  BY <4>2, <5>1 DEF ApplicationsInv, DraftsShow
      <4>6. QED  BY <1>1, <1>3, <4>1, <4>2, <4>3, <4>4, <4>5
    <3>4. QED  BY <3>2, <3>3
  <2>11. AppendsApart'
    BY <2>10 DEF AppendsApart
  <2>12. QED  BY <2>1, <2>2, <2>3, <2>5, <2>7, <2>8, <2>11
<1>14. QED  BY <1>12, <1>13

\* What may become of an append: it stays out, rejected or not; it is decided
\* or given up; it was rejected and its quarantine is lifted.
StaysOut(w) ==
    /\ UNCHANGED <<page, quarantine, calls>>
    /\ worker'[w].app = worker[w].app

GivesUp(w) ==
    LET a == worker[w].app
    IN  /\ UNCHANGED quarantine
        /\ \A b \in Applications \ {a} : page'[b] = page[b]
        /\ page'[a].bodies + page'[a].late <= page[a].bodies + page[a].late + 1
        /\ \A b \in Applications : ~Appends(worker'[w], b)
        /\ \A c \in Calls : calls'[c].result \in {"valid", "commit_unknown"} =>
              \/ calls'[c].result = calls[c].result /\ KeepsCandidate(c)
              \/ calls'[c].result = "commit_unknown" /\ calls'[c].application = a

TakesBack(w) ==
    /\ UNCHANGED <<page, calls>>
    /\ quarantine' = quarantine \ {worker[w].app}
    /\ \A b \in Applications : ~Appends(worker'[w], b)

LEMMA AppenderApart ==
    ASSUME ServiceInv, ApplicationsInv, NEW w \in Workers, worker[w].app \in Applications,
           Appends(worker[w], worker[w].app),
           worker' = [worker EXCEPT ![w] = worker'[w]],
           page' \in [Applications -> Pages], Grows(page, page'),
           StoreNext \/ UNCHANGED storeVars,
           StaysOut(w) \/ GivesUp(w) \/ TakesBack(w)
    PROVE  /\ AppendsApart' /\ DraftsShow'
           /\ worker[w].app \in quarantine
<1> PICK a \in Applications : a = worker[w].app
  OBVIOUS
<1>1. page \in [Applications -> Pages]
  BY RowsAreTyped DEF ServiceInv, RowsOK
<1>2. w \in Appending(a)
  BY OthersAppend
<1>3. /\ a \in quarantine /\ page[a].bodies = 0 /\ page[a].late = 0
      /\ \A v \in Appending(a) : v = w
      /\ \A c \in Calls : calls[c].application = a => calls[c].result # "commit_unknown"
  BY <1>2 DEF ApplicationsInv, AppendsApart
<1>4. ASSUME NEW b \in Applications \ {a}
      PROVE  /\ page'[b] = page[b]
             /\ b \in quarantine' <=> b \in quarantine
             /\ Appending(b)' \subseteq Appending(b)
  <2>1. page'[b] = page[b] /\ (b \in quarantine' <=> b \in quarantine)
    BY DEF StaysOut, GivesUp, TakesBack
  <2>2. ~Appends(worker'[w], b)
    BY DEF StaysOut, GivesUp, TakesBack, Appends
  <2>3. QED  BY <2>1, <2>2, OthersAppend DEF Appending
<1>5. ASSUME NEW c \in Calls, calls'[c].result = "commit_unknown"
      PROVE  \/ calls[c].result = "commit_unknown" /\ KeepsCandidate(c)
             \/ calls'[c].application = a /\ GivesUp(w)
  BY <1>5 DEF StaysOut, GivesUp, TakesBack, KeepsCandidate
<1>6. ASSUME NEW b \in Applications
      PROVE  /\ page'[b].bodies + page'[b].late <= 1
             /\ page'[b].late > 0 => b \in quarantine'
             /\ \A u \in Appending(b)' :
                   /\ b \in quarantine' /\ page'[b].bodies = 0 /\ page'[b].late = 0
                   /\ \A x \in Appending(b)' : x = u
                   /\ \A c \in Calls :
                         calls'[c].application = b => calls'[c].result # "commit_unknown"
  <2>1. CASE b # a
    <3>1. /\ page[b].bodies + page[b].late <= 1
          /\ page[b].late > 0 => b \in quarantine
          /\ \A u \in Appending(b) :
                /\ b \in quarantine /\ page[b].bodies = 0 /\ page[b].late = 0
                /\ \A x \in Appending(b) : x = u
                /\ \A c \in Calls :
                      calls[c].application = b => calls[c].result # "commit_unknown"
      BY DEF ApplicationsInv, AppendsApart
    <3>2. \A c \in Calls : calls'[c].application = b /\ calls'[c].result = "commit_unknown" =>
              calls[c].application = b /\ calls[c].result = "commit_unknown"
      BY <1>5, <2>1 DEF KeepsCandidate
    <3>3. QED  BY <1>4, <2>1, <3>1, <3>2
  <2>2. CASE b = a
    <3>1. \A v \in Workers : v \in Appending(a)' => v = w
      BY <1>3, OthersAppend
    <3>2. CASE StaysOut(w)
      <4>1. \A c \in Calls : calls'[c].application = a => calls'[c].result # "commit_unknown"
        BY <1>3, <3>2 DEF StaysOut
      <4>2. page'[a] = page[a] /\ a \in quarantine'
        BY <1>3, <3>2 DEF StaysOut
      <4>3. \A x \in Appending(a)' : x = w
        BY <3>1 DEF Appending
      <4>4. QED  BY <1>3, <2>2, <4>1, <4>2, <4>3
    <3>3. CASE GivesUp(w)
      <4>1. Appending(a)' = {}
        BY <3>1, <3>3, OthersAppend DEF GivesUp, Appending, Appends
      <4>2. a \in quarantine' /\ page'[a].bodies + page'[a].late <= 1
        BY <1>3, <3>3 DEF GivesUp
      <4>3. QED  BY <2>2, <4>1, <4>2
    <3>4. CASE TakesBack(w)
      <4>1. Appending(a)' = {}
        BY <3>1, <3>4, OthersAppend DEF TakesBack, Appending, Appends
      <4>2. page'[a].bodies = 0 /\ page'[a].late = 0
        BY <1>3, <3>4 DEF TakesBack
      <4>3. QED  BY <2>2, <4>1, <4>2
    <3>5. QED  BY <3>2, <3>3, <3>4
  <2>3. QED  BY <2>1, <2>2
<1>7. AppendsApart'
  BY <1>6 DEF AppendsApart
<1>8. ASSUME NEW c \in Calls, calls'[c].state # "absent"
      PROVE  LET b == calls'[c].application IN
             /\ calls'[c].result = "valid" => page'[b].bodies > 0
             /\ calls'[c].result = "commit_unknown" => page'[b].bodies > 0 \/ b \in quarantine'
  <2> DEFINE b == calls'[c].application
  <2>1. b \in Applications
    BY <1>8, InvStep DEF ServiceInv, StoreInv, CallsHaveRuns
  <2>2. page[b].bodies > 0 => page'[b].bodies > 0
    BY <1>1, <2>1 DEF Grows, Pages
  <2>3. ASSUME calls'[c].result = calls[c].result, KeepsCandidate(c),
               calls[c].result \in {"valid", "commit_unknown"}
        PROVE  /\ calls[c].result = "valid" => page[b].bodies > 0
               /\ calls[c].result = "commit_unknown" =>
                     b # a /\ (page[b].bodies > 0 \/ b \in quarantine)
    <3>1. calls[c].state # "absent"
      BY <2>3 DEF ServiceInv, StoreInv, CallsHaveRuns, NoCall
    <3>2. QED  BY <1>3, <2>3, <3>1 DEF ApplicationsInv, DraftsShow, KeepsCandidate
  <2>4. b # a => (b \in quarantine' <=> b \in quarantine)
    BY <1>4, <2>1
  <2>5. CASE calls'[c].result = calls[c].result /\ KeepsCandidate(c)
    BY <2>2, <2>3, <2>4, <2>5
  <2>6. CASE GivesUp(w) /\ calls'[c].result = "commit_unknown" /\ b = a
    BY <1>3, <2>6 DEF GivesUp
  <2>7. QED
    BY <2>5, <2>6 DEF StaysOut, GivesUp, TakesBack, KeepsCandidate
<1>9. QED  BY <1>3, <1>7, <1>8 DEF DraftsShow

LEMMA AppenderAgreed ==
    ASSUME ServiceInv, NEW w \in Workers, worker[w].app \in Applications,
           Appends(worker[w], worker[w].app),
           worker' = [worker EXCEPT ![w] = worker'[w]],
           page' \in [Applications -> Pages], Grows(page, page'),
           StoreNext \/ UNCHANGED storeVars,
           StaysOut(w) \/ GivesUp(w) \/ TakesBack(w),
           UNCHANGED <<runs, candidates, starter>>, NothingSent,
           worker'[w].pc \in {"idle", "record", "appended", "rejected", "unsettled"}
    PROVE  Agreed(w)
<1> SUFFICES ASSUME ApplicationsInv
             PROVE  /\ AppendsApart' /\ DraftsShow'
                    /\ PendingUntouched' /\ StartAlone'
                    /\ StillBuying(w) /\ SendsUnspent
                    /\ \A a \in Applications \ quarantine :
                          a \notin quarantine' /\ page'[a].bodies = page[a].bodies
  BY DEF Agreed
<1>1. AppendsApart' /\ DraftsShow' /\ worker[w].app \in quarantine
  BY AppenderApart
<1>2. quarantine' \subseteq quarantine
  BY DEF StaysOut, GivesUp, TakesBack
<1>3. PendingUntouched' /\ StartAlone'
  BY <1>2, StandingIsNothingNew, QuarantineShrinks
<1>4. StillBuying(w)
  BY NothingToBuy
<1>5. SendsUnspent
  BY DEF NothingSent, SendsUnspent
<1>6. \A a \in Applications \ quarantine : page'[a] = page[a]
  BY <1>1 DEF StaysOut, GivesUp, TakesBack
<1>7. QED  BY <1>1, <1>2, <1>3, <1>4, <1>5, <1>6

\* What an append, or the final properties, make of the pages.
LEMMA AppendLands ==
    ASSUME ServiceInv, NEW a \in Applications,
           \/ UNCHANGED page
           \/ page' = [page EXCEPT ![a].bodies = @ + 1]
           \/ page' = [page EXCEPT ![a].late = @ + 1]
    PROVE  /\ page' \in [Applications -> Pages] /\ Grows(page, page')
           /\ \A b \in Applications \ {a} : page'[b] = page[b]
           /\ page'[a].bodies + page'[a].late <= page[a].bodies + page[a].late + 1
           /\ page' = [page EXCEPT ![a].bodies = @ + 1] => page'[a].bodies > 0
<1>1. page \in [Applications -> Pages] /\ page[a] \in Pages
  BY RowsAreTyped DEF ServiceInv, RowsOK
<1> DEFINE more == [page[a] EXCEPT !.bodies = page[a].bodies + 1]
           later == [page[a] EXCEPT !.late = page[a].late + 1]
<1>2. /\ more \in Pages /\ later \in Pages
      /\ more.bodies = page[a].bodies + 1 /\ more.late = page[a].late
      /\ later.late = page[a].late + 1 /\ later.bodies = page[a].bodies
      /\ more.analyzed <=> page[a].analyzed
      /\ later.analyzed <=> page[a].analyzed
  BY <1>1 DEF Pages
<1>3. /\ page' = [page EXCEPT ![a].bodies = @ + 1] => page' = [page EXCEPT ![a] = more]
      /\ page' = [page EXCEPT ![a].late = @ + 1] => page' = [page EXCEPT ![a] = later]
  OBVIOUS
<1>4. page[a].bodies \in Nat /\ page[a].late \in Nat
      /\ \A b \in Applications : page[b].bodies \in Nat
  BY <1>1 DEF Pages
<1> HIDE DEF more, later
<1>5. CASE page' = [page EXCEPT ![a] = more]
  <2>1. page'[a] = more /\ \A b \in Applications \ {a} : page'[b] = page[b]
    BY <1>1, <1>5
  <2>2. Grows(page, page')
    BY <1>2, <1>4, <2>1 DEF Grows
  <2>3. page' \in [Applications -> Pages]
    BY <1>1, <1>2, <1>5
  <2>4. QED  BY <1>2, <1>4, <2>1, <2>2, <2>3
<1>6. CASE page' = [page EXCEPT ![a] = later] /\ page' # [page EXCEPT ![a].bodies = @ + 1]
  <2>1. page'[a] = later /\ \A b \in Applications \ {a} : page'[b] = page[b]
    BY <1>1, <1>6
  <2>2. Grows(page, page')
    BY <1>2, <1>4, <2>1 DEF Grows
  <2>3. page' \in [Applications -> Pages]
    BY <1>1, <1>2, <1>6
  <2>4. QED  BY <1>2, <1>4, <1>6, <2>1, <2>2, <2>3
<1>7. CASE UNCHANGED page /\ page' # [page EXCEPT ![a].bodies = @ + 1]
  BY <1>1, <1>4, <1>7, GrowsItself
<1>8. QED  BY <1>3, <1>5, <1>6, <1>7

LEMMA FinalsLand ==
    ASSUME ServiceInv, NEW a \in Applications,
           UNCHANGED page \/ page' = [page EXCEPT ![a].analyzed = TRUE]
    PROVE  /\ page' \in [Applications -> Pages] /\ Grows(page, page')
           /\ \A b \in Applications :
                 page'[b].bodies = page[b].bodies /\ page'[b].late = page[b].late
           /\ page' = [page EXCEPT ![a].analyzed = TRUE] => page'[a].analyzed
<1>1. page \in [Applications -> Pages] /\ page[a] \in Pages
  BY RowsAreTyped DEF ServiceInv, RowsOK
<1> DEFINE final == [page[a] EXCEPT !.analyzed = TRUE]
<1>2. /\ final \in Pages /\ final.bodies = page[a].bodies /\ final.late = page[a].late
      /\ final.analyzed
  BY <1>1 DEF Pages
<1>3. page' = [page EXCEPT ![a].analyzed = TRUE] => page' = [page EXCEPT ![a] = final]
  OBVIOUS
<1>4. \A b \in Applications : page[b].bodies \in Nat
  BY <1>1 DEF Pages
<1> HIDE DEF final
<1>5. CASE page' = [page EXCEPT ![a] = final]
  <2>1. page'[a] = final /\ \A b \in Applications \ {a} : page'[b] = page[b]
    BY <1>1, <1>5
  <2>2. Grows(page, page')
    BY <1>2, <1>4, <2>1 DEF Grows
  <2>3. page' \in [Applications -> Pages]
    BY <1>1, <1>2, <1>5
  <2>4. QED  BY <1>2, <2>1, <2>2, <2>3
<1>6. CASE UNCHANGED page /\ page' # [page EXCEPT ![a].analyzed = TRUE]
  BY <1>6, GrowsItself
<1>7. QED  BY <1>3, <1>5, <1>6

LEMMA AppendAnsweredAgreed ==
    ASSUME ServiceInv, NEW w \in Workers, AppendAnswered(w)
    PROVE  Stepped(w) /\ Agreed(w)
<1> DEFINE v == worker[w]
<1>1. v.pc = "append" /\ v.pc \in Evaluates /\ UNCHANGED <<storeVars, starter, faults>>
  BY DEF AppendAnswered, Evaluates
<1>2. /\ v \in WorkerRows /\ v.run \in Runs /\ v.app \in Applications
      /\ Located(v, calls) /\ Seen(v, page) /\ faults' \in 0..MaxFaults
  BY <1>1, WorkPlace
<1>3. v.stage = "append" /\ v.result \in Completed /\ Appends(v, v.app)
  BY <1>1, <1>2 DEF Located, WorkerRows, RowsGiving, Appends
<1>4. ASSUME NEW pc \in {"appended", "rejected"}, Goes(w, pc),
             page' \in [Applications -> Pages], Grows(page, page'),
             pc = "appended" => page'[v.app].bodies > 0,
             StaysOut(w) \/ GivesUp(w)
      PROVE  Stepped(w) /\ Agreed(w)
  <2> DEFINE row == AtPc(v, pc)
  <2>1. Turns(w, row) /\ row.pc = pc /\ SameWork(row, v)
    BY <1>2, <1>4, RowsAreTyped, GoesTurns, AtPcFields DEF ServiceInv, Steps
  <2> HIDE DEF row
  <2>2. worker'[w] = row /\ worker'[w] \in WorkerRows
        /\ worker' = [worker EXCEPT ![w] = worker'[w]]
    BY <2>1, TurnsTo
  <2>3. Located(row, calls') /\ Seen(row, page')
    BY <1>1, <1>2, <1>3, <1>4, <2>1
    DEF Located, Seen, SameWork, SamePlace, Evaluates, Holding, storeVars
  <2>4. Works(w)
    BY <1>1, <1>2, <1>4, <2>1, <2>2, <2>3 DEF Works, SameWork, Evaluates, storeVars
  <2>5. NothingSent
    BY <1>1 DEF NothingSent, Dispatched, storeVars
  <2>6. worker'[w].pc \in {"appended", "rejected"}
    BY <2>1, <2>2
  <2>7. Agreed(w)
    BY <1>1, <1>2, <1>3, <1>4, <2>2, <2>5, <2>6, AppenderAgreed DEF storeVars
  <2>8. QED  BY <2>4, <2>7, WorkSteps
<1>5. CASE page' = [page EXCEPT ![v.app].bodies = @ + 1] /\ Goes(w, "appended")
  <2>1. /\ page' \in [Applications -> Pages] /\ Grows(page, page')
        /\ \A b \in Applications \ {v.app} : page'[b] = page[b]
        /\ page'[v.app].bodies + page'[v.app].late <= page[v.app].bodies + page[v.app].late + 1
        /\ page'[v.app].bodies > 0
    BY <1>2, <1>5, AppendLands
  <2> DEFINE row == AtPc(v, "appended")
  <2>2. Turns(w, row) /\ row.pc = "appended"
    BY <1>2, <1>5, RowsAreTyped, GoesTurns, AtPcFields DEF ServiceInv, Steps
  <2>3. worker'[w].pc = "appended"
    BY <2>2, TurnsTo
  <2>4. GivesUp(w)
    BY <1>1, <2>1, <2>3 DEF GivesUp, Appends, KeepsCandidate, storeVars
  <2>5. QED  BY <1>4, <1>5, <2>1, <2>4
<1>6. CASE Goes(w, "rejected") /\ UNCHANGED page
  <2> DEFINE row == AtPc(v, "rejected")
  <2>1. Turns(w, row) /\ SameWork(row, v)
    BY <1>2, <1>6, RowsAreTyped, GoesTurns, AtPcFields DEF ServiceInv, Steps
  <2>2. worker'[w].app = v.app
    BY <2>1, TurnsTo DEF SameWork, SamePlace
  <2>3. StaysOut(w)
    BY <1>1, <1>6, <2>2 DEF StaysOut, storeVars
  <2>4. QED  BY <1>4, <1>6, <2>3, GrowsItself
<1>7. QED  BY <1>5, <1>6 DEF AppendAnswered

LEMMA AppendConfirmedAgreed ==
    ASSUME ServiceInv, NEW w \in Workers, AppendConfirmed(w)
    PROVE  Stepped(w) /\ Agreed(w)
<1> DEFINE v == worker[w]
           row == AtPc(v, "settle")
<1>1. v.pc = "appended" /\ v.pc \in Evaluates /\ UNCHANGED <<page, starter, faults>>
      /\ ClearCommitQuarantine(v.app)
  BY DEF AppendConfirmed, Evaluates
<1>2. /\ v \in WorkerRows /\ v.run \in Runs /\ v.app \in Applications
      /\ Located(v, calls) /\ Seen(v, page) /\ faults' \in 0..MaxFaults
  BY <1>1, WorkPlace
<1>3. Turns(w, row) /\ row.pc = "settle" /\ SameWork(row, v)
  BY <1>2, RowsAreTyped, GoesTurns, AtPcFields DEF ServiceInv, Steps, AppendConfirmed
<1> HIDE DEF row
<1>4. Onward(w, row)
  BY <1>1, <1>2, <1>3 DEF Onward, Evaluates, SameWork
<1>5. Located(row, calls) /\ Seen(row, page) /\ page[v.app].bodies > 0
  BY <1>1, <1>2, <1>3 DEF Located, Seen, SameWork, SamePlace, Evaluates, Holding
<1>6. PlainWork(w)
  BY <1>1, <1>3, <1>4, <1>5, ClearingWork
<1>7. StillBuying(w)
  BY <1>3, TurnsTo, NothingToBuy
<1>8. QED  BY <1>6, <1>7, PlainAgrees, WorksAgreed

\* The draft is settled, its final properties are next.
ToFinals(v) == [v EXCEPT !.pc = "protect", !.stage = "finalize", !.call = "none"]

LEMMA ToFinalsFields ==
    ASSUME NEW v \in WorkerRows
    PROVE  LET u == ToFinals(v) IN
           /\ u \in WorkerRows /\ u.pc = "protect" /\ SamePlace(u, v)
           /\ u.stage = "finalize" /\ u.call = "none" /\ u.result = v.result
  BY DEF ToFinals, WorkerRows, RowsGiving, Steps, SamePlace

LEMMA SettleValidAgreed ==
    ASSUME ServiceInv, NEW w \in Workers, SettleValid(w)
    PROVE  Stepped(w) /\ Agreed(w)
<1> DEFINE v == worker[w]
           c == v.call
           row == ToFinals(v)
<1>1. v.pc = "settle" /\ v.pc \in Evaluates /\ UNCHANGED <<page, starter, faults>>
  BY DEF SettleValid, Evaluates
<1>2. /\ v \in WorkerRows /\ v.run \in Runs /\ v.app \in Applications
      /\ Located(v, calls) /\ Seen(v, page) /\ faults' \in 0..MaxFaults
  BY <1>1, WorkPlace
<1>3. page[v.app].bodies > 0 /\ v.result \in Completed /\ c \in Calls \cup {"none"}
  BY <1>1, <1>2 DEF Seen, Located, WorkerRows, RowsGiving
<1>4. worker' = [worker EXCEPT ![w] = row]
  BY <1>2, RowsAreTyped DEF SettleValid, ToFinals, ServiceInv, RowsOK, WorkerRows, RowsGiving
<1>5. /\ row \in WorkerRows /\ row.pc = "protect" /\ SamePlace(row, v)
      /\ row.stage = "finalize" /\ row.call = "none" /\ row.result = v.result
  BY <1>2, ToFinalsFields
<1> HIDE DEF row
<1>6. Onward(w, row)
  BY <1>1, <1>2, <1>4, <1>5 DEF Onward, Turns, Evaluates
<1>7. (\A cs : Located(row, cs)) /\ Seen(row, page)
  BY <1>2, <1>3, <1>5 DEF Located, Seen, SamePlace, Evaluates
<1>8. CASE c = "none"
  <2>1. UNCHANGED storeVars
    BY <1>8 DEF SettleValid
  <2>2. PlainWork(w)
    BY <1>5, <1>6, <1>7, <2>1, QuietWork
  <2>3. QED
    BY <1>5, <1>6, <2>2, TurnsTo, NothingToBuy, PlainAgrees, WorksAgreed DEF Onward
<1>9. CASE c # "none"
  <2>1. Writes(c, w, "settled", Kept("valid", calls[c].result))
    BY <1>3, <1>9, SettleWrites DEF SettleValid, ServiceInv, ResultCodes
  <2>2. Writes(c, w, "settled", "valid")
    BY <2>1 DEF Kept
  <2>3. Harmless(w, "valid")
    BY <1>3 DEF Harmless
  <2>4. PlainWork(w)
    BY <1>5, <1>6, <1>7, <1>9, <2>2, <2>3, WritingWork
  <2>5. QED
    BY <1>5, <1>6, <2>4, TurnsTo, NothingToBuy, PlainAgrees, WorksAgreed DEF Onward
<1>10. QED  BY <1>8, <1>9

LEMMA RejectedClearedAgreed ==
    ASSUME ServiceInv, NEW w \in Workers, RejectedCleared(w)
    PROVE  Stepped(w) /\ Agreed(w)
<1> DEFINE v == worker[w]
<1>1. v.pc = "rejected" /\ v.pc \in Evaluates /\ UNCHANGED <<page, starter, faults>>
      /\ ClearCommitQuarantine(v.app)
  BY DEF RejectedCleared, Evaluates
<1>2. /\ v \in WorkerRows /\ v.run \in Runs /\ v.app \in Applications
      /\ Located(v, calls) /\ Seen(v, page) /\ faults' \in 0..MaxFaults
  BY <1>1, WorkPlace
<1>3. \E row : /\ Onward(w, row) /\ Located(row, calls) /\ Seen(row, page)
               /\ row.pc \in {"record", "unsettled"}
               /\ v.stage = "finalize" => row.pc = "record"
  <2>1. CASE CannotRead(w) /\ v.call = "none"
    <3>1. PICK stop \in Stops \cup {"none"} : Concludes(w, "failed", stop)
      BY <2>1, CannotReadFails
    <3>2. QED  BY <1>1, <1>2, <3>1, FailsKnown
  <2>2. CASE Goes(w, "unsettled") /\ v.call # "none"
    <3> DEFINE row == AtPc(v, "unsettled")
    <3>1. Turns(w, row) /\ row.pc = "unsettled" /\ SameWork(row, v)
      BY <1>2, <2>2, RowsAreTyped, GoesTurns, AtPcFields DEF ServiceInv, Steps
    <3> HIDE DEF row
    <3>2. Onward(w, row)
      BY <1>1, <1>2, <3>1 DEF Onward, Evaluates, SameWork
    <3>3. v.stage = "append"
      BY <1>2, <2>2 DEF Located, WorkerRows, RowsGiving
    <3>4. Located(row, calls) /\ Seen(row, page)
      BY <1>2, <2>2, <3>1, <3>3 DEF Located, Seen, SameWork, SamePlace, Evaluates, Holding
    <3>5. QED  BY <3>1, <3>2, <3>3, <3>4
  <2>3. QED  BY <2>1, <2>2 DEF RejectedCleared
<1>4. PICK row : /\ Onward(w, row) /\ Located(row, calls) /\ Seen(row, page)
                 /\ row.pc \in {"record", "unsettled"}
                 /\ v.stage = "finalize" => row.pc = "record"
  BY <1>3
<1>5. worker'[w] = row /\ worker'[w] \in WorkerRows
      /\ worker' = [worker EXCEPT ![w] = worker'[w]]
  BY <1>4, TurnsTo DEF Onward
<1>6. CASE v.stage = "finalize"
  <2>1. page[v.app].bodies > 0
    BY <1>2, <1>6 DEF Seen
  <2>2. PlainWork(w)
    BY <1>1, <1>4, <2>1, ClearingWork
  <2>3. QED
    BY <1>4, <1>5, <1>6, <2>2, NothingToBuy, PlainAgrees, WorksAgreed
<1>7. CASE v.stage # "finalize"
  <2>1. v.stage = "append"
    BY <1>2, <1>7 DEF WorkerRows, RowsGiving
  <2>2. Grows(page, page') /\ page' \in [Applications -> Pages]
    BY <1>1, GrowsItself
  <2>3. StoreNext
    BY <1>1, <1>2 DEF StoreNext
  <2>4. Works(w)
    BY <1>1, <1>2, <1>4, <1>5, <2>2, <2>3 DEF Works, Onward, Evaluates, ClearCommitQuarantine
  <2>5. TakesBack(w)
    BY <1>1, <1>4, <1>5 DEF TakesBack, ClearCommitQuarantine, Appends
  <2>6. NothingSent
    BY <1>1 DEF NothingSent, Dispatched, ClearCommitQuarantine
  <2>7. Appends(v, v.app) /\ UNCHANGED <<runs, candidates, starter>>
    BY <1>1, <2>1 DEF Appends, ClearCommitQuarantine
  <2>8. worker'[w].pc \in {"idle", "record", "appended", "rejected", "unsettled"}
    BY <1>4, <1>5
  <2>9. Agreed(w)
    BY <1>2, <1>5, <2>2, <2>3, <2>5, <2>6, <2>7, <2>8, AppenderAgreed
  <2>10. QED  BY <2>4, <2>9, WorkSteps
<1>8. QED  BY <1>6, <1>7

LEMMA SettleRejectedAgreed ==
    ASSUME ServiceInv, NEW w \in Workers, SettleRejected(w)
    PROVE  Stepped(w) /\ Agreed(w)
<1> DEFINE v == worker[w]
           c == v.call
<1>1. v.pc = "unsettled" /\ v.pc \in Evaluates /\ UNCHANGED <<page, starter, faults>>
  BY DEF SettleRejected, Evaluates
<1>2. v \in WorkerRows /\ Located(v, calls) /\ faults' \in 0..MaxFaults
  BY <1>1, WorkPlace
<1>3. c # "none" /\ c \in Calls
  BY <1>1, <1>2 DEF Located, WorkerRows, RowsGiving
<1>4. ASSUME NEW result \in {"source", "rejected"}, SettleProviderCall(c, w, 1, result)
      PROVE  Writes(c, w, "settled", result) /\ Harmless(w, result)
  <2>1. Writes(c, w, "settled", Kept(result, calls[c].result))
    BY <1>3, <1>4, SettleWrites DEF ServiceInv, ResultCodes
  <2>2. QED  BY <2>1 DEF Kept, Harmless
<1>5. PICK result \in {"source", "rejected"} :
          /\ SettleProviderCall(c, w, 1, result)
          /\ FailsCandidate(w) \/ FailsRun(w)
  BY DEF SettleRejected
<1>6. PICK stop \in Stops \cup {"none"} : Concludes(w, "failed", stop)
  BY <1>5, FailureStops
<1>7. Writes(c, w, "settled", result) /\ Harmless(w, result)
  BY <1>4, <1>5
<1>8. PlainWork(w) /\ StillBuying(w)
  BY <1>1, <1>2, <1>3, <1>6, <1>7, WritingFailure
<1>9. QED  BY <1>8, PlainAgrees, WorksAgreed

LEMMA FinalizeAnsweredAgreed ==
    ASSUME ServiceInv, NEW w \in Workers, FinalizeAnswered(w)
    PROVE  Stepped(w) /\ Agreed(w)
<1> DEFINE v == worker[w]
<1>1. v.pc = "finalize" /\ v.pc \in Evaluates /\ UNCHANGED <<storeVars, starter, faults>>
  BY DEF FinalizeAnswered, Evaluates
<1>2. /\ v \in WorkerRows /\ v.run \in Runs /\ v.app \in Applications
      /\ Located(v, calls) /\ Seen(v, page) /\ faults' \in 0..MaxFaults
  BY <1>1, WorkPlace
<1>3. v.stage = "finalize" /\ v.call = "none" /\ v.result \in Completed
      /\ page[v.app].bodies > 0
  BY <1>1, <1>2 DEF Located, Seen
<1>4. PICK pc \in {"finalized", "rejected"} :
          /\ Goes(w, pc)
          /\ UNCHANGED page \/ page' = [page EXCEPT ![v.app].analyzed = TRUE]
          /\ pc = "finalized" => page' = [page EXCEPT ![v.app].analyzed = TRUE]
  BY DEF FinalizeAnswered
<1>5. /\ page' \in [Applications -> Pages] /\ Grows(page, page')
      /\ \A b \in Applications :
            page'[b].bodies = page[b].bodies /\ page'[b].late = page[b].late
      /\ pc = "finalized" => page'[v.app].analyzed
  BY <1>2, <1>4, FinalsLand
<1> DEFINE row == AtPc(v, pc)
<1>6. Turns(w, row) /\ row.pc = pc /\ SameWork(row, v)
  BY <1>2, <1>4, RowsAreTyped, GoesTurns, AtPcFields DEF ServiceInv, Steps
<1> HIDE DEF row
<1>7. worker'[w] = row /\ worker'[w] \in WorkerRows
      /\ worker' = [worker EXCEPT ![w] = worker'[w]]
  BY <1>6, TurnsTo
<1>8. Located(row, calls') /\ Seen(row, page')
  BY <1>2, <1>3, <1>4, <1>5, <1>6 DEF Located, Seen, SameWork, SamePlace, Evaluates
<1>9. Works(w)
  BY <1>1, <1>2, <1>4, <1>5, <1>6, <1>7, <1>8 DEF Works, SameWork, Evaluates, storeVars
<1>10. Plain(w)
  BY <1>1, <1>3, <1>4, <1>5, <1>6, <1>7 DEF Plain, Appends, KeepsCandidate, SameWork, storeVars
<1>11. NothingSent
  BY <1>1 DEF NothingSent, Dispatched, storeVars
<1>12. StillBuying(w)
  BY <1>6, <1>7, NothingToBuy
<1>13. QED  BY <1>9, <1>10, <1>11, <1>12, PlainAgrees, WorksAgreed DEF PlainWork

LEMMA FinalizeConfirmedAgreed ==
    ASSUME ServiceInv, NEW w \in Workers, FinalizeConfirmed(w)
    PROVE  Stepped(w) /\ Agreed(w)
<1> DEFINE v == worker[w]
           row == Verdict(v, v.result, "none")
<1>1. v.pc = "finalized" /\ v.pc \in Evaluates /\ UNCHANGED <<page, starter, faults>>
      /\ ClearCommitQuarantine(v.app) /\ Concludes(w, v.result, "none")
  BY DEF FinalizeConfirmed, Evaluates
<1>2. Located(v, calls) /\ Seen(v, page) /\ faults' \in 0..MaxFaults
  BY <1>1, WorkPlace
<1>3. page[v.app].bodies > 0 /\ page[v.app].analyzed /\ v.result \in Completed
  BY <1>1, <1>2 DEF Seen, Located
<1>4. v.result \in TerminalCandidateStates
  BY <1>3 DEF Completed, TerminalCandidateStates
<1>5. /\ Onward(w, row) /\ row.pc = "record"
      /\ \A cs : Located(row, cs)
      /\ Seen(row, page)
  BY <1>1, <1>2, <1>3, <1>4, VerdictKnown
<1> HIDE DEF row
<1>6. PlainWork(w)
  BY <1>1, <1>3, <1>5, ClearingWork
<1>7. StillBuying(w)
  BY <1>5, TurnsTo, NothingToBuy DEF Onward
<1>8. QED  BY <1>6, <1>7, PlainAgrees, WorksAgreed

-----------------------------------------------------------------------------
(* The end of a pass                                                       *)

\* What a pass that is given up records of its call.
Leaves(w) ==
    \/ UNCHANGED storeVars
    \/ /\ worker[w].call # "none"
       /\ \E state, result :
             /\ Writes(worker[w].call, w, state, result)
             /\ result = "valid" => FALSE
             /\ result = "commit_unknown" => worker[w].pc = "append"

LEMMA GivenUpAgreed ==
    ASSUME ServiceInv, NEW w \in Workers, worker[w].pc # "idle", Rests(w), Abandoned(w),
           Leaves(w), UNCHANGED starter, faults' \in 0..MaxFaults
    PROVE  Stepped(w) /\ Agreed(w)
<1> DEFINE v == worker[w]
           c == v.call
<1>1. /\ v \in WorkerRows /\ Located(v, calls) /\ v.run \in Runs
      /\ page \in [Applications -> Pages]
  BY RowsAreTyped DEF ServiceInv, RowsOK, LocatedAll, Located
<1>2. /\ c # "none" => /\ c \in Calls /\ calls[c].run = v.run /\ calls[c].application = v.app
      /\ v.pc \in {"append", "finalize", "rejected"} => v.app \in Applications
      /\ v.pc = "append" => v.stage = "append"
      /\ v.stage \in {"append", "finalize"}
  BY <1>1 DEF Located, WorkerRows, RowsGiving, Evaluates
<1>3. worker'[w] = AtRest /\ worker'[w] \in WorkerRows
      /\ worker' = [worker EXCEPT ![w] = worker'[w]]
      /\ worker' = [worker EXCEPT ![w] = AtRest]
  BY RestsTurns, TurnsTo DEF Rests
<1>4. /\ AtRest.pc = "idle"
      /\ \A a \in Applications : ~Appends(worker'[w], a)
  BY <1>3, RestFields DEF Appends
<1>5. /\ UNCHANGED <<runs, candidates, quarantine>>
      /\ StoreNext \/ UNCHANGED storeVars
      /\ NothingSent
  BY <1>2 DEF Leaves, storeVars, Writes, NothingSent, Dispatched
<1>6. calls' = calls \/ Leads(w)
  BY <1>2 DEF Leaves, storeVars, Writes, Leads, Mine, Busy
<1>7. \A d \in Calls : calls'[d].result \in {"valid", "commit_unknown"} =>
          \/ calls'[d].result = calls[d].result /\ KeepsCandidate(d)
          \/ /\ calls'[d].result = "commit_unknown" /\ v.pc = "append"
             /\ calls'[d].application = v.app
  BY <1>2 DEF Leaves, storeVars, Writes, KeepsCandidate
<1>8. StillBuying(w)
  BY <1>3, <1>4, NothingToBuy
<1>9. CASE v.pc = "append" \/ (v.pc = "rejected" /\ v.stage = "append")
  <2>1. v.app \in Applications /\ Appends(v, v.app)
    BY <1>2, <1>9 DEF Appends
  <2>2. /\ page' \in [Applications -> Pages] /\ Grows(page, page')
        /\ \A b \in Applications \ {v.app} : page'[b] = page[b]
        /\ page'[v.app].bodies + page'[v.app].late <= page[v.app].bodies + page[v.app].late + 1
    BY <1>9, <2>1, AppendLands DEF Abandoned
  <2>3. GivesUp(w)
    BY <1>4, <1>5, <1>7, <2>2 DEF GivesUp
  <2>4. worker'[w].pc \in {"idle", "record", "appended", "rejected", "unsettled"}
    BY <1>3, <1>4
  <2>5. Agreed(w)
    BY <1>3, <1>5, <2>1, <2>2, <2>3, <2>4, AppenderAgreed
  <2>6. Rested(w)
    BY <1>3, <1>5, <1>6, <2>2 DEF Rested
  <2>7. QED  BY <2>5, <2>6, RestSteps
<1>10. CASE ~(v.pc = "append" \/ (v.pc = "rejected" /\ v.stage = "append"))
  <2>1. /\ page' \in [Applications -> Pages] /\ Grows(page, page')
        /\ \A b \in Applications :
              page'[b].bodies = page[b].bodies /\ page'[b].late = page[b].late
    <3>1. CASE v.pc = "finalize"
      BY <1>2, <3>1, FinalsLand DEF Abandoned
    <3>2. CASE v.pc # "finalize"
      BY <1>10, <3>2, GrowsItself DEF Abandoned
    <3>3. QED  BY <3>1, <3>2
  <2>2. Plain(w)
    BY <1>4, <1>5, <1>7, <1>10, <2>1 DEF Plain
  <2>3. Rested(w)
    BY <1>3, <1>5, <1>6, <2>1 DEF Rested
  <2>4. SendsUnspent
    BY <1>5 DEF NothingSent, SendsUnspent
  <2>5. Agreed(w)
    BY <1>3, <1>5, <1>8, <2>1, <2>2, <2>4, StandingIsNothingNew, PlainAgreed
  <2>6. QED  BY <2>3, <2>5, RestSteps
<1>11. QED  BY <1>9, <1>10

\* One more fault is within the bound.
LEMMA OneMoreFault ==
    ASSUME ServiceInv, faults < MaxFaults, faults' = faults + 1
    PROVE  faults' \in 0..MaxFaults
  BY RunsAssumption DEF ServiceInv, RunsTypeOK

LEMMA CommitUnknownAgreed ==
    ASSUME ServiceInv, NEW w \in Workers, CommitUnknown(w)
    PROVE  Stepped(w) /\ Agreed(w)
<1> DEFINE v == worker[w]
           c == v.call
<1>1. v.pc \in {"append", "finalize"} /\ v.pc \in Evaluates
  BY DEF CommitUnknown, Evaluates
<1>2. v \in WorkerRows /\ Located(v, calls)
  BY <1>1, WorkPlace
<1>3. v.pc = "finalize" => c = "none"
  BY <1>2 DEF Located
<1>4. Leaves(w)
  <2>1. CASE c = "none"
    BY <2>1 DEF CommitUnknown, Leaves
  <2>2. CASE c # "none"
    <3>1. c \in Calls
      BY <1>2, <2>2 DEF WorkerRows, RowsGiving
    <3>2. Writes(c, w, "settled", Kept("commit_unknown", calls[c].result))
      BY <2>2, <3>1, SettleWrites DEF CommitUnknown, ServiceInv, ResultCodes
    <3>3. Writes(c, w, "settled", "commit_unknown")
      BY <3>2 DEF Kept
    <3>4. QED  BY <1>1, <1>3, <2>2, <3>3 DEF Leaves
  <2>3. QED  BY <2>1, <2>2
<1>5. QED
  BY <1>1, <1>4, OneMoreFault, GivenUpAgreed DEF CommitUnknown

LEMMA LoseLeaseAgreed ==
    ASSUME ServiceInv, NEW w \in Workers, LoseLease(w)
    PROVE  Stepped(w) /\ Agreed(w)
<1>1. faults' \in 0..MaxFaults
  BY DEF LoseLease, ServiceInv, RunsTypeOK
<1>2. QED  BY <1>1, GivenUpAgreed DEF LoseLease, Busy, Leaves

LEMMA CrashAgreed ==
    ASSUME ServiceInv, NEW w \in Workers, Crash(w)
    PROVE  Stepped(w) /\ Agreed(w)
  BY OneMoreFault, GivenUpAgreed DEF Crash, Busy, Leaves

LEMMA StopAgreed ==
    ASSUME ServiceInv, NEW w \in Workers, Stop(w)
    PROVE  Stepped(w) /\ Agreed(w)
<1> DEFINE v == worker[w]
           c == v.call
<1>1. v.pc \in {"transmit", "answered", "protect"} /\ c # "none"
  BY DEF Stop
<1>2. c \in Calls
  BY <1>1, RowsAreTyped DEF ServiceInv, RowsOK, WorkerRows, RowsGiving
<1>3. Leaves(w)
  <2>1. CASE MarkIndeterminate(c, w, "terminal")
    <3>1. Writes(c, w, "indeterminate", Kept("terminal", calls[c].result))
      BY <1>2, <2>1, IndeterminateWrites DEF ServiceInv, ResultCodes
    <3>2. Writes(c, w, "indeterminate", "terminal")
      BY <3>1 DEF Kept
    <3>3. QED  BY <1>1, <3>2 DEF Leaves
  <2>2. CASE SettleProviderCall(c, w, 1, "rejected")
    <3>1. Writes(c, w, "settled", Kept("rejected", calls[c].result))
      BY <1>2, <2>2, SettleWrites DEF ServiceInv, ResultCodes
    <3>2. Writes(c, w, "settled", "rejected")
      BY <3>1 DEF Kept
    <3>3. QED  BY <1>1, <3>2 DEF Leaves
  <2>3. QED  BY <2>1, <2>2 DEF Stop
<1>4. Abandoned(w)
  BY <1>1 DEF Abandoned, Stop
<1>5. QED  BY <1>1, <1>3, <1>4, OneMoreFault, GivenUpAgreed DEF Stop

\* Every step of an evaluation.
LEMMA EvaluatorAgreed ==
    ASSUME ServiceInv, NEW w \in Workers, EvaluatorStep(w)
    PROVE  Stepped(w) /\ Agreed(w)
<1>1. CASE RecoverLoad(w) \/ Confirm(w) \/ Judge(w)
  BY <1>1, RecoverLoadWorks, ConfirmWorks, JudgeWorks, PlainAgrees, WorksAgreed
<1>2. CASE Load(w) \/ Reserve(w) \/ Dispatch(w)
  BY <1>2, LoadWorks, ReserveWorks, DispatchWorks, PlainAgrees, WorksAgreed
<1>3. CASE Unsent(w) \/ ProviderFails(w) \/ Answer(w) \/ Validate(w)
  BY <1>3, UnsentWorks, ProviderFailsWorks, AnswerWorks, ValidateWorks, PlainAgrees, WorksAgreed
<1>4. CASE Protect(w) \/ Guard(w) \/ AppendAnswered(w) \/ AppendConfirmed(w)
  BY <1>4, ProtectAgreed, GuardAgreed, AppendAnsweredAgreed, AppendConfirmedAgreed
<1>5. CASE SettleValid(w) \/ RejectedCleared(w) \/ SettleRejected(w)
  BY <1>5, SettleValidAgreed, RejectedClearedAgreed, SettleRejectedAgreed
<1>6. CASE FinalizeAnswered(w) \/ FinalizeConfirmed(w) \/ CommitUnknown(w)
  BY <1>6, FinalizeAnsweredAgreed, FinalizeConfirmedAgreed, CommitUnknownAgreed
<1>7. QED  BY <1>1, <1>2, <1>3, <1>4, <1>5, <1>6 DEF EvaluatorStep

-----------------------------------------------------------------------------
(* The steps of _process_claimed                                           *)

\* The runner touches no page, no quarantine and no result of a call.
RunsOnly(w) ==
    /\ UNCHANGED <<page, starter, quarantine>>
    /\ StoreNext \/ UNCHANGED storeVars
    /\ NothingNew /\ NothingSent
    /\ \A c \in Calls : calls'[c].result = calls[c].result /\ KeepsCandidate(c)

LEMMA RunnerAgreed ==
    ASSUME ServiceInv, NEW w \in Workers, NEW row, Turns(w, row), RunsOnly(w),
           row.pc \notin {"append", "rejected"}, ApplicationsInv => StillBuying(w)
    PROVE  Agreed(w)
<1>1. worker'[w] = row /\ worker' = [worker EXCEPT ![w] = worker'[w]]
  BY TurnsTo
<1>2. page' \in [Applications -> Pages]
  BY GrowsItself DEF RunsOnly
<1>3. Plain(w)
  BY <1>1 DEF Plain, RunsOnly, Appends
<1>4. SendsUnspent
  BY DEF RunsOnly, NothingSent, SendsUnspent
<1>5. QED  BY <1>1, <1>2, <1>3, <1>4, PlainAgreed DEF RunsOnly

LEMMA CountsAreNat ==
    ASSUME ServiceInv, NEW r \in Runs
    PROVE  runs[r].completions \in Nat /\ runs[r].target \in Nat
<1>1. runs[r] \in RunRows
  BY DEF ServiceInv, StoreInv, StoreTypeOK
<1>2. runs[r].completions \in Nat /\ runs[r].target \in Targets \cup {0}
  BY <1>1 DEF RunRows
<1>3. Targets \cup {0} \subseteq Nat
  BY StoreAssumption
<1>4. QED  BY <1>2, <1>3

LEMMA QueuesAreSequences ==
    ASSUME ServiceInv, NEW r \in Runs
    PROVE  runs[r].queue \in Seq(Applications)
<1>1. runs[r] \in RunRows
  BY DEF ServiceInv, StoreInv, StoreTypeOK
<1>2. runs[r].queue \in Queues \cup {<<>>}
  BY <1>1 DEF RunRows
<1>3. Queues \subseteq Seq(Applications) /\ <<>> \in Seq(Applications)
  BY StoreAssumption
<1>4. QED  BY <1>2, <1>3

\* A worker in the loop holds no call and has no stage.
LEMMA AtLoop ==
    ASSUME ServiceInv, NEW w \in Workers, worker[w].pc \notin Holding \cup {"finalize", "finalized"}
    PROVE  /\ worker[w] \in WorkerRows
           /\ worker[w].stage = "append" /\ worker[w].call = "none"
           /\ worker[w].pc # "idle" => worker[w].run \in Runs
           /\ faults \in 0..MaxFaults
           /\ page \in [Applications -> Pages]
<1>1. /\ worker[w] \in WorkerRows /\ Located(worker[w], calls)
      /\ page \in [Applications -> Pages]
  BY RowsAreTyped DEF ServiceInv, RowsOK, LocatedAll
<1>2. QED  BY <1>1 DEF Located, Holding, WorkerRows, RowsGiving, ServiceInv, RunsTypeOK

\* The worker takes a run.
Claiming(v, r) == [v EXCEPT !.pc = "interrupted", !.run = r]

LEMMA ClaimingFields ==
    ASSUME NEW v \in WorkerRows, NEW r \in Runs
    PROVE  LET u == Claiming(v, r) IN
           /\ u \in WorkerRows /\ u.pc = "interrupted" /\ u.run = r
           /\ u.stage = v.stage /\ u.call = v.call
  BY DEF Claiming, WorkerRows, RowsGiving, Steps

LEMMA ClaimAgreed ==
    ASSUME ServiceInv, NEW w \in Workers, Claim(w)
    PROVE  Stepped(w) /\ Agreed(w)
<1> DEFINE v == worker[w]
<1>1. v.pc = "idle" /\ UNCHANGED <<page, starter, faults>>
  BY DEF Claim
<1>2. /\ v \in WorkerRows /\ v.stage = "append" /\ v.call = "none" /\ faults \in 0..MaxFaults
  BY <1>1, AtLoop DEF Holding
<1>3. PICK r \in Runs :
          /\ ClaimRecoverableRun(r, w, LeaseTerm)
          /\ worker' = [worker EXCEPT ![w].pc = "interrupted", ![w].run = r]
  BY DEF Claim
<1> DEFINE row == Claiming(v, r)
<1>4. /\ row \in WorkerRows /\ row.pc = "interrupted" /\ row.run = r
      /\ row.stage = "append" /\ row.call = "none"
  BY <1>2, ClaimingFields
<1>5. worker' = [worker EXCEPT ![w] = row]
  BY <1>2, <1>3, RowsAreTyped DEF Claiming, ServiceInv, RowsOK, WorkerRows, RowsGiving
<1> HIDE DEF row
<1>6. Turns(w, row)
  BY <1>4, <1>5 DEF Turns
<1>7. worker'[w] = row /\ worker'[w] \in WorkerRows
      /\ worker' = [worker EXCEPT ![w] = worker'[w]]
  BY <1>6, TurnsTo
<1>8. StoreNext
  <2>1. RunStep(r, w)
    BY <1>3, TermsOfLeases DEF RunStep
  <2>2. QED  BY <2>1 DEF StoreNext
<1> DEFINE life == IF runs[r].lifecycle = "queued" THEN "running" ELSE runs[r].lifecycle
           taken == [runs[r] EXCEPT !.lifecycle = life, !.owner = w,
                                    !.lease = LaterOf(runs[r].lease, LeaseTerm)]
<1>9. runs \in [Runs -> RunRows] /\ runs[r] \in RunRows
  BY DEF ServiceInv, StoreInv, StoreTypeOK
<1>10. /\ runs' = [runs EXCEPT ![r] = taken] /\ UNCHANGED <<candidates, calls, quarantine>>
       /\ Unfinished(r)
  BY <1>3 DEF ClaimRecoverableRun, Recoverable, Unfinished
<1>11. life \in {"running", "cancelling"}
  BY <1>10 DEF Unfinished
<1>12. /\ taken.lifecycle = life /\ taken.owner = w
       /\ taken.queue = runs[r].queue /\ taken.target = runs[r].target
       /\ taken.completions = runs[r].completions
       /\ taken.truncated = runs[r].truncated /\ taken.outcome = runs[r].outcome
  BY <1>9 DEF RunRows
<1> HIDE DEF taken, life
<1>13. runs'[r] = taken /\ \A q \in Runs \ {r} : runs'[q] = runs[q]
  BY <1>9, <1>10
<1>14. \A q \in Runs : Continues(runs[q], runs'[q])
  BY <1>10, <1>11, <1>12, <1>13 DEF Continues, Unfinished
<1>15. Fenced(w)
  BY <1>10, <1>12, <1>13 DEF Fenced
<1>16. NothingNew
  BY <1>10, <1>13 DEF NothingNew, Unfinished
<1>17. Grows(page, page') /\ page' \in [Applications -> Pages]
  BY <1>1, GrowsItself
<1>18. RunsAccounted' /\ ResultsMatchNotion'
  BY <1>10, <1>14, <1>17, AccountsStand
<1>19. (\A cs : Located(row, cs)) /\ Seen(row, page') /\ (\A x, y : Leading(row, x, y))
  BY <1>4 DEF Located, Seen, Leading, Evaluates
<1>20. Stepped(w)
  BY <1>1, <1>2, <1>7, <1>8, <1>15, <1>17, <1>18, <1>19 DEF Stepped
<1>21. RunsOnly(w)
  BY <1>1, <1>8, <1>10, <1>16 DEF RunsOnly, NothingSent, Dispatched, KeepsCandidate
<1>22. StillBuying(w)
  BY <1>4, <1>7, NothingToBuy
<1>23. Agreed(w)
  BY <1>4, <1>6, <1>21, <1>22, RunnerAgreed
<1>24. QED  BY <1>20, <1>23

\* The run and its candidates stand; its calls only change under its lease.
StandingRun(w) ==
    /\ UNCHANGED <<page, starter, faults, runs, candidates, quarantine>>
    /\ StoreNext \/ UNCHANGED storeVars
    /\ CurrentLease(Mine(w), w, Leased) \/ UNCHANGED calls
    /\ NothingSent
    /\ \A c \in Calls : calls'[c].result = calls[c].result /\ KeepsCandidate(c)

LEMMA StandingRunAgreed ==
    ASSUME ServiceInv, NEW w \in Workers, worker[w].pc # "idle",
           NEW row, Turns(w, row), StandingRun(w), Located(row, calls'), Seen(row, page),
           Leads(w)' => Leading(row, runs[row.run], candidates[row.run]),
           row.pc \notin {"append", "rejected"}, ApplicationsInv => StillBuying(w)
    PROVE  Stepped(w) /\ Agreed(w)
<1>1. worker'[w] = row /\ worker'[w] \in WorkerRows
      /\ worker' = [worker EXCEPT ![w] = worker'[w]]
  BY TurnsTo
<1>2. worker[w].run \in Runs /\ faults \in 0..MaxFaults
  BY DEF ServiceInv, LocatedAll, Located, RunsTypeOK
<1>3. Grows(page, page') /\ page' \in [Applications -> Pages]
  BY GrowsItself DEF StandingRun
<1>4. RunsAccounted' /\ ResultsMatchNotion'
  BY <1>3, StandContinues, AccountsStand DEF StandingRun
<1>5. Fenced(w) \/ UNCHANGED <<runs, candidates, calls>>
  BY <1>2, LeaseFencesOthers DEF StandingRun, Mine
<1>6. Stepped(w)
  BY <1>1, <1>2, <1>3, <1>4, <1>5 DEF Stepped, StandingRun
<1>7. RunsOnly(w)
  BY StandingIsNothingNew DEF StandingRun, RunsOnly
<1>8. QED  BY <1>6, <1>7, RunnerAgreed

\* Nothing but the worker moves.
LEMMA QuietRun ==
    ASSUME NEW w, UNCHANGED <<storeVars, page, starter, faults>>
    PROVE  StandingRun(w)
  BY DEF StandingRun, storeVars, NothingSent, Dispatched, KeepsCandidate

LEMMA ReconcileCallsAgreed ==
    ASSUME ServiceInv, NEW w \in Workers, ReconcileCalls(w)
    PROVE  Stepped(w) /\ Agreed(w)
<1> DEFINE v == worker[w]
           row == AtPc(v, "recorded")
<1>1. v.pc = "interrupted" /\ UNCHANGED <<page, starter, faults>>
      /\ ReconcileInterruptedCalls(v.run, w)
  BY DEF ReconcileCalls, Mine
<1>2. /\ v \in WorkerRows /\ v.stage = "append" /\ v.call = "none" /\ v.run \in Runs
  BY <1>1, AtLoop DEF Holding
<1>3. Turns(w, row) /\ row.pc = "recorded" /\ SameWork(row, v)
  BY <1>2, RowsAreTyped, GoesTurns, AtPcFields DEF ServiceInv, Steps, ReconcileCalls
<1> HIDE DEF row
<1>4. StoreNext
  <2>1. RunStep(v.run, w)
    BY <1>1 DEF RunStep
  <2>2. QED  BY <1>2, <2>1 DEF StoreNext
<1>5. ASSUME NEW c \in Calls
      PROVE  /\ calls'[c].result = calls[c].result /\ KeepsCandidate(c)
             /\ calls'[c].state = "dispatching" => calls[c].state = "dispatching"
  <2>1. calls[c] \in CallRows
    BY DEF ServiceInv, StoreInv, StoreTypeOK
  <2>2. calls'[c] = Interrupted(calls[c]) \/ calls'[c] = calls[c]
    BY <1>1 DEF ReconcileInterruptedCalls
  <2>3. /\ Interrupted(calls[c]).result = calls[c].result
        /\ Interrupted(calls[c]).run = calls[c].run
        /\ Interrupted(calls[c]).application = calls[c].application
        /\ Interrupted(calls[c]).state = "dispatching" => calls[c].state = "dispatching"
    BY <2>1 DEF Interrupted, CallRows
  <2>4. QED  BY <2>2, <2>3 DEF KeepsCandidate
<1>6. NothingSent
  BY <1>5 DEF NothingSent, Dispatched
<1>7. StandingRun(w)
  BY <1>1, <1>4, <1>5, <1>6 DEF StandingRun, ReconcileInterruptedCalls, Mine
<1>8. Located(row, calls') /\ Seen(row, page) /\ (\A x, y : Leading(row, x, y))
  BY <1>2, <1>3 DEF Located, Seen, Leading, Evaluates, SameWork, SamePlace
<1>9. StillBuying(w)
  BY <1>3, TurnsTo, NothingToBuy
<1>10. QED  BY <1>1, <1>3, <1>7, <1>8, <1>9, StandingRunAgreed

LEMMA SettleRecordedAgreed ==
    ASSUME ServiceInv, NEW w \in Workers, SettleRecorded(w)
    PROVE  Stepped(w) /\ Agreed(w)
<1> DEFINE v == worker[w]
<1>1. v.pc \in {"recorded", "recovering"} /\ UNCHANGED serviceVars
  BY DEF SettleRecorded
<1>2. PICK c \in RecordedCalls(w) :
          SettleProviderCall(c, w, 1, "none") \/ MarkIndeterminate(c, w, "none")
  BY DEF SettleRecorded
<1>3. c \in Calls /\ calls[c].run = v.run
  BY <1>2 DEF RecordedCalls, Mine
<1>4. \E state : Writes(c, w, state, calls[c].result) /\ state \in {"settled", "indeterminate"}
  <2>1. Kept("none", calls[c].result) = calls[c].result
    BY DEF Kept
  <2>2. CASE SettleProviderCall(c, w, 1, "none")
    BY <1>3, <2>1, <2>2, SettleWrites DEF ServiceInv
  <2>3. CASE MarkIndeterminate(c, w, "none")
    BY <1>3, <2>1, <2>3, IndeterminateWrites DEF ServiceInv
  <2>4. QED  BY <1>2, <2>2, <2>3
<1>5. /\ StoreNext /\ CurrentLease(v.run, w, Leased)
      /\ UNCHANGED <<runs, candidates, quarantine>>
      /\ NothingSent
      /\ \A d \in Calls : calls'[d].result = calls[d].result /\ KeepsCandidate(d)
  BY <1>3, <1>4 DEF Writes, KeepsCandidate, NothingSent, Dispatched
<1>6. StandingRun(w)
  BY <1>1, <1>5 DEF StandingRun, Mine, serviceVars
<1>7. v \in WorkerRows /\ worker \in [Workers -> WorkerRows]
      /\ Located(v, calls) /\ Seen(v, page)
  BY RowsAreTyped DEF ServiceInv, RowsOK, LocatedAll, SeenAll
<1>8. Turns(w, v)
  BY <1>1, <1>7 DEF Turns, serviceVars
<1>9. Located(v, calls')
  BY <1>5, <1>7, CallsKept, LocatedKept DEF ServiceInv
<1>10. Leads(w)' => Leading(v, runs[v.run], candidates[v.run])
  BY <1>1, <1>5 DEF ServiceInv, LeadersKnow, Leads, Mine, Busy, CurrentLease, serviceVars
<1>11. StillBuying(w)
  BY <1>1, NothingToBuy DEF serviceVars
<1>12. QED  BY <1>1, <1>6, <1>7, <1>8, <1>9, <1>10, <1>11, StandingRunAgreed

LEMMA EnterLoopAgreed ==
    ASSUME ServiceInv, NEW w \in Workers, EnterLoop(w)
    PROVE  Stepped(w) /\ Agreed(w)
<1> DEFINE v == worker[w]
           row == AtPc(v, "loop")
<1>1. v.pc = "recorded" /\ UNCHANGED <<storeVars, page, starter, faults>>
  BY DEF EnterLoop
<1>2. v \in WorkerRows /\ v.stage = "append" /\ v.call = "none" /\ v.run \in Runs
  BY <1>1, AtLoop DEF Holding
<1>3. Turns(w, row) /\ row.pc = "loop" /\ SameWork(row, v)
  BY <1>2, RowsAreTyped, GoesTurns, AtPcFields DEF ServiceInv, Steps, EnterLoop
<1> HIDE DEF row
<1>4. StandingRun(w)
  BY <1>1, QuietRun
<1>5. Located(row, calls') /\ Seen(row, page) /\ (\A x, y : Leading(row, x, y))
  BY <1>2, <1>3 DEF Located, Seen, Leading, Evaluates, SameWork, SamePlace
<1>6. StillBuying(w)
  BY <1>3, TurnsTo, NothingToBuy
<1>7. QED  BY <1>1, <1>3, <1>4, <1>5, <1>6, StandingRunAgreed

\* The rows the survey leads to.
Cancelling(v, a) == [v EXCEPT !.pc = "recovering", !.retry = FALSE, !.app = a]

Renewing(v, resumed) == [v EXCEPT !.pc = "renew", !.resumed = resumed]

LEMMA CancellingFields ==
    ASSUME NEW v \in WorkerRows, NEW a \in Applications
    PROVE  LET u == Cancelling(v, a) IN
           /\ u \in WorkerRows /\ u.pc = "recovering" /\ u.run = v.run /\ u.app = a
           /\ u.stage = v.stage /\ u.call = v.call
  BY DEF Cancelling, WorkerRows, RowsGiving, Steps

LEMMA RenewingFields ==
    ASSUME NEW v \in WorkerRows, NEW resumed \in BOOLEAN
    PROVE  LET u == Renewing(v, resumed) IN
           /\ u \in WorkerRows /\ u.pc = "renew" /\ u.run = v.run
           /\ u.resumed <=> resumed
           /\ u.stage = v.stage /\ u.call = v.call
  BY DEF Renewing, WorkerRows, RowsGiving, Steps

LEMMA SurveyAgreed ==
    ASSUME ServiceInv, NEW w \in Workers, Survey(w)
    PROVE  Stepped(w) /\ Agreed(w)
<1> DEFINE v == worker[w]
           r == v.run
           open == Evaluating(r)
<1>1. /\ v.pc = "loop" /\ UNCHANGED <<storeVars, page, starter, faults>>
      /\ runs[r].lifecycle \in Leased
  BY DEF Survey, Mine
<1>2. v \in WorkerRows /\ v.stage = "append" /\ v.call = "none" /\ r \in Runs
  BY <1>1, AtLoop DEF Holding
<1>3. StandingRun(w)
  BY <1>1, QuietRun
<1>4. ASSUME NEW row, Turns(w, row), row.run = r, row.stage = "append", row.call = "none",
             row.pc \in {"recovering", "renew", "finish"},
             row.pc = "recovering" => row.app \in open,
             row.pc = "finish" => row.verdict.stop \in {"cancelled", "target_met"},
             Leading(row, runs[r], candidates[r])
      PROVE  Stepped(w) /\ Agreed(w)
  <2>1. Located(row, calls') /\ Seen(row, page)
    BY <1>2, <1>4 DEF Located, Seen, Evaluates, Evaluating, Ends
  <2>2. StillBuying(w)
    BY <1>4, TurnsTo, NothingToBuy
  <2>3. QED  BY <1>1, <1>3, <1>4, <2>1, <2>2, StandingRunAgreed
<1>5. CASE /\ open # {}
           /\ worker' = [worker EXCEPT ![w].pc = "recovering", ![w].retry = FALSE,
                                       ![w].app = CHOOSE a \in open : TRUE]
  <2> DEFINE a == CHOOSE x \in open : TRUE
             row == Cancelling(v, a)
  <2>1. a \in open
    BY <1>5
  <2>2. a \in Applications /\ candidates[r][a] = "evaluating"
    BY <2>1 DEF Evaluating
  <2> HIDE DEF a
  <2>3. /\ row \in WorkerRows /\ row.pc = "recovering" /\ row.run = r /\ row.app = a
        /\ row.stage = "append" /\ row.call = "none"
    BY <1>2, <2>2, CancellingFields
  <2>4. worker' = [worker EXCEPT ![w] = row]
    BY <1>2, <1>5, RowsAreTyped DEF Cancelling, ServiceInv, RowsOK, WorkerRows, RowsGiving, a
  <2> HIDE DEF row
  <2>5. Leading(row, runs[r], candidates[r])
    BY <2>2, <2>3 DEF Leading
  <2>6. Turns(w, row)
    BY <2>3, <2>4 DEF Turns
  <2>7. QED  BY <1>4, <2>1, <2>3, <2>5, <2>6
<1>6. CASE Finishes(w, "cancelled")
  <2> DEFINE row == Ending(v, "cancelled")
  <2>1. /\ Turns(w, row) /\ row.pc = "finish" /\ row.run = r
        /\ row.stage = "append" /\ row.call = "none" /\ row.verdict.stop = "cancelled"
    BY <1>2, <1>6, RowsAreTyped, FinishesTurns, EndingFields DEF ServiceInv, Ends
  <2> HIDE DEF row
  <2>2. Leading(row, runs[r], candidates[r])
    BY <2>1 DEF Leading, Evaluates
  <2>3. QED  BY <1>4, <2>1, <2>2
<1>7. CASE runs[r].completions >= runs[r].target /\ Finishes(w, "target_met")
  <2> DEFINE row == Ending(v, "target_met")
  <2>1. /\ Turns(w, row) /\ row.pc = "finish" /\ row.run = r
        /\ row.stage = "append" /\ row.call = "none" /\ row.verdict.stop = "target_met"
    BY <1>2, <1>7, RowsAreTyped, FinishesTurns, EndingFields DEF ServiceInv, Ends
  <2> HIDE DEF row
  <2>2. Leading(row, runs[r], candidates[r])
    BY <1>7, <2>1 DEF Leading, Evaluates
  <2>3. QED  BY <1>4, <2>1, <2>2
<1>8. CASE /\ runs[r].lifecycle = "running" /\ ~(runs[r].completions >= runs[r].target)
           /\ worker' = [worker EXCEPT ![w].pc = "renew", ![w].resumed = (open # {})]
  <2> DEFINE resumed == (open # {})
             row == Renewing(v, resumed)
  <2>1. resumed \in BOOLEAN
    OBVIOUS
  <2>2. /\ row \in WorkerRows /\ row.pc = "renew" /\ row.run = r
        /\ row.resumed <=> resumed
        /\ row.stage = "append" /\ row.call = "none"
    BY <1>2, <2>1, RenewingFields
  <2>3. worker' = [worker EXCEPT ![w] = row]
    BY <1>2, <1>8, RowsAreTyped DEF Renewing, ServiceInv, RowsOK, WorkerRows, RowsGiving
  <2> HIDE DEF row
  <2>4. runs[r].completions < runs[r].target
    <3>1. runs[r].completions \in Nat /\ runs[r].target \in Nat
      BY <1>2, CountsAreNat
    <3>2. QED  BY <1>8, <3>1
  <2>5. Leading(row, runs[r], candidates[r])
    BY <2>2, <2>4 DEF Leading, Evaluates, Evaluating
  <2>6. Turns(w, row)
    BY <2>2, <2>3 DEF Turns
  <2>7. QED  BY <1>4, <2>2, <2>5, <2>6
<1>9. QED
  BY <1>1, <1>5, <1>6, <1>7, <1>8 DEF Survey, Mine, Leased

LEMMA RenewAgreed ==
    ASSUME ServiceInv, NEW w \in Workers, Renew(w)
    PROVE  Stepped(w) /\ Agreed(w)
<1> DEFINE v == worker[w]
           row == AtPc(v, "claim")
<1>1. v.pc = "renew" /\ UNCHANGED <<page, starter, faults>>
  BY DEF Renew
<1>2. /\ v \in WorkerRows /\ v.stage = "append" /\ v.call = "none" /\ v.run \in Runs
      /\ faults \in 0..MaxFaults
  BY <1>1, AtLoop DEF Holding
<1>3. Extends(v.run, w)
  BY <1>2, TermsOfLeases, RenewExtends DEF Renew, Mine, ServiceInv
<1>4. Turns(w, row) /\ row.pc = "claim" /\ SameWork(row, v)
  BY <1>2, RowsAreTyped, GoesTurns, AtPcFields DEF ServiceInv, Steps, Renew
<1> HIDE DEF row
<1>5. worker'[w] = row /\ worker'[w] \in WorkerRows
      /\ worker' = [worker EXCEPT ![w] = worker'[w]]
  BY <1>4, TurnsTo
<1>6. Grows(page, page') /\ page' \in [Applications -> Pages]
  BY <1>1, GrowsItself
<1>7. RunsAccounted' /\ ResultsMatchNotion'
  BY <1>3, <1>6, AccountsStand DEF Extends
<1>8. Leads(w)
  BY <1>1, <1>3 DEF Extends, Leads, Mine, Busy
<1>9. Leading(row, runs'[row.run], candidates'[row.run])
  <2>1. Leading(v, runs[v.run], candidates[v.run])
    BY <1>8 DEF ServiceInv, LeadersKnow, Mine
  <2>2. runs[v.run].completions < runs[v.run].target
        /\ (v.resumed \/ \A a \in Applications : candidates[v.run][a] # "evaluating")
    BY <1>1, <2>1 DEF Leading
  <2>3. Continues(runs[v.run], runs'[v.run]) /\ candidates' = candidates
    BY <1>2, <1>3 DEF Extends
  <2>4. QED
    BY <1>4, <2>2, <2>3 DEF Leading, SameWork, SamePlace, Continues, Evaluates
<1>10. (\A cs : Located(row, cs)) /\ Seen(row, page')
  BY <1>2, <1>4 DEF Located, Seen, SameWork, SamePlace, Evaluates
<1>11. Stepped(w)
  BY <1>1, <1>2, <1>3, <1>5, <1>6, <1>7, <1>9, <1>10 DEF Stepped, Extends
<1>12. RunsOnly(w)
  BY <1>1, <1>3 DEF RunsOnly, Extends, NothingSent, Dispatched, KeepsCandidate
<1>13. StillBuying(w)
  BY <1>4, <1>5, NothingToBuy
<1>14. Agreed(w)
  BY <1>4, <1>12, <1>13, RunnerAgreed
<1>15. QED  BY <1>11, <1>14

\* The worker takes up a candidate.
TakingUp(v, a) ==
    [v EXCEPT !.app = a, !.resumed = FALSE, !.pc = IF v.resumed THEN "recovering" ELSE "load"]

LEMMA TakingUpFields ==
    ASSUME NEW v \in WorkerRows, NEW a \in Applications
    PROVE  LET u == TakingUp(v, a) IN
           /\ u \in WorkerRows /\ u.run = v.run /\ u.app = a
           /\ u.pc = IF v.resumed THEN "recovering" ELSE "load"
           /\ u.stage = v.stage /\ u.call = v.call
  BY DEF TakingUp, WorkerRows, RowsGiving, Steps

\* The next pending candidate of r, a, is under evaluation.
ClaimsOne(r, a) ==
    /\ candidates[r][a] = "pending" /\ candidates'[r][a] = "evaluating"
    /\ \A b \in Applications \ {a} : candidates'[r][b] = candidates[r][b]
    /\ \A q \in Runs \ {r} : candidates'[q] = candidates[q]

LEMMA ClaimClaimsOne ==
    ASSUME StoreInv, NEW r \in Runs, NEW w \in Workers, ClaimNextCandidate(r, w)
    PROVE  \E a \in Applications : ClaimsOne(r, a)
<1> DEFINE a == runs[r].queue[LeastOf(PendingOrdinals(r))]
<1>1. a \in Applications /\ candidates[r][a] = "pending"
  BY NextCandidateIsPending DEF ClaimNextCandidate, StoreInv
<1>2. candidates \in [Runs -> [Applications -> CandidateStates \cup {"absent"}]]
  BY DEF StoreInv, StoreTypeOK
<1>3. candidates' = [candidates EXCEPT ![r][a] = "evaluating"]
  BY DEF ClaimNextCandidate
<1> HIDE DEF a
<1>4. ClaimsOne(r, a)
  BY <1>1, <1>2, <1>3 DEF ClaimsOne
<1>5. QED  BY <1>1, <1>4

\* Nothing of a candidate that is pending was transmitted.
LEMMA PendingIsUnspent ==
    ASSUME ServiceInv, NEW r \in Runs, NEW a \in Applications,
           candidates[r][a] \in {"absent", "pending"}, NEW x
    PROVE  Unspent(calls, r, a, x)
  BY DEF ServiceInv, TransmissionsInOrder, IndexedOnceSent, Unspent

LEMMA CandidateAgreed ==
    ASSUME ServiceInv, NEW w \in Workers, Candidate(w)
    PROVE  Stepped(w) /\ Agreed(w)
<1> DEFINE v == worker[w]
           r == v.run
<1>1. v.pc = "claim" /\ UNCHANGED <<page, starter, faults>>
  BY DEF Candidate
<1>2. /\ v \in WorkerRows /\ v.stage = "append" /\ v.call = "none" /\ r \in Runs
      /\ faults \in 0..MaxFaults
  BY <1>1, AtLoop DEF Holding
<1>3. Grows(page, page') /\ page' \in [Applications -> Pages]
  BY <1>1, GrowsItself
<1>4. ASSUME CurrentLease(r, w, {"running"})
      PROVE  /\ runs[r].lifecycle = "running" /\ CurrentLease(r, w, Leased)
             /\ runs[r].completions < runs[r].target
             /\ v.resumed \/ Evaluating(r) = {}
  <2>1. runs[r].lifecycle = "running" /\ CurrentLease(r, w, Leased)
    BY <1>4 DEF CurrentLease, Leased
  <2>2. Leading(v, runs[r], candidates[r])
    BY <1>1, <2>1 DEF ServiceInv, LeadersKnow, Leads, Mine, Busy
  <2>3. QED  BY <1>1, <2>1, <2>2 DEF Leading, Evaluating
<1>5. ASSUME NEW a \in Applications, worker' = [worker EXCEPT
                 ![w].app = a, ![w].resumed = FALSE,
                 ![w].pc = IF worker[w].resumed THEN "recovering" ELSE "load"]
      PROVE  /\ Turns(w, TakingUp(v, a))
             /\ LET row == TakingUp(v, a) IN
                /\ row.run = r /\ row.app = a /\ row.stage = "append" /\ row.call = "none"
                /\ row.pc = IF v.resumed THEN "recovering" ELSE "load"
                /\ \A cs : Located(row, cs)
                /\ Seen(row, page')
  <2> DEFINE row == TakingUp(v, a)
  <2>1. worker' = [worker EXCEPT ![w] = row]
    BY <1>2, <1>5, RowsAreTyped DEF TakingUp, ServiceInv, RowsOK, WorkerRows, RowsGiving
  <2>2. /\ row \in WorkerRows /\ row.run = r /\ row.app = a
        /\ row.pc = IF v.resumed THEN "recovering" ELSE "load"
        /\ row.stage = "append" /\ row.call = "none"
    BY <1>2, TakingUpFields
  <2> HIDE DEF row
  <2>3. (\A cs : Located(row, cs)) /\ Seen(row, page')
    BY <1>2, <2>2 DEF Located, Seen, Evaluates
  <2>4. QED  BY <2>1, <2>2, <2>3 DEF Turns, row
<1>6. CASE /\ CurrentLease(r, w, {"running"})
           /\ \E a \in Evaluating(r) : worker' = [worker EXCEPT
                 ![w].app = a, ![w].resumed = FALSE,
                 ![w].pc = IF worker[w].resumed THEN "recovering" ELSE "load"]
           /\ UNCHANGED storeVars
  <2>1. PICK a \in Evaluating(r) : worker' = [worker EXCEPT
                 ![w].app = a, ![w].resumed = FALSE,
                 ![w].pc = IF worker[w].resumed THEN "recovering" ELSE "load"]
    BY <1>6
  <2>2. a \in Applications /\ candidates[r][a] = "evaluating" /\ v.resumed
    BY <1>4, <1>6, <2>1 DEF Evaluating
  <2> DEFINE row == TakingUp(v, a)
  <2>3. /\ Turns(w, row) /\ row.run = r /\ row.app = a /\ row.pc = "recovering"
        /\ (\A cs : Located(row, cs)) /\ Seen(row, page')
    BY <1>5, <2>1, <2>2
  <2> HIDE DEF row
  <2>4. Leading(row, runs[r], candidates[r])
    BY <2>2, <2>3 DEF Leading
  <2>5. StandingRun(w)
    BY <1>1, <1>6, QuietRun
  <2>6. StillBuying(w)
    BY <2>3, TurnsTo, NothingToBuy
  <2>7. QED  BY <1>1, <2>3, <2>4, <2>5, <2>6, StandingRunAgreed
<1>7. CASE /\ ClaimNextCandidate(r, w)
           /\ \E a \in Applications : candidates'[r][a] = "evaluating" /\ worker' = [worker EXCEPT
                 ![w].app = a, ![w].resumed = FALSE,
                 ![w].pc = IF worker[w].resumed THEN "recovering" ELSE "load"]
  <2>1. PICK b \in Applications : ClaimsOne(r, b)
    BY <1>2, <1>7, ClaimClaimsOne DEF ServiceInv
  <2>2. /\ CurrentLease(r, w, {"running"}) /\ Evaluating(r) = {}
        /\ UNCHANGED <<runs, calls, quarantine>>
    BY <1>7 DEF ClaimNextCandidate
  <2>3. worker' = [worker EXCEPT
                 ![w].app = b, ![w].resumed = FALSE,
                 ![w].pc = IF worker[w].resumed THEN "recovering" ELSE "load"]
    <3>1. \A a \in Applications : candidates'[r][a] = "evaluating" => a = b
      BY <2>1, <2>2 DEF ClaimsOne, Evaluating
    <3>2. QED  BY <1>7, <3>1
  <2> DEFINE row == TakingUp(v, b)
  <2>4. /\ Turns(w, row) /\ row.run = r /\ row.app = b
        /\ row.call = "none" /\ row.stage = "append" /\ row.pc \in {"recovering", "load"}
        /\ (\A cs : Located(row, cs)) /\ Seen(row, page')
    BY <1>5, <2>3
  <2> HIDE DEF row
  <2>5. worker'[w] = row /\ worker'[w] \in WorkerRows
        /\ worker' = [worker EXCEPT ![w] = worker'[w]]
    BY <2>4, TurnsTo
  <2>6. StoreNext
    <3>1. RunStep(r, w)
      BY <1>7 DEF RunStep
    <3>2. QED  BY <1>2, <3>1 DEF StoreNext
  <2>7. Fenced(w)
    BY <1>2, <1>4, <2>2, LeaseFencesOthers
  <2>8. Leading(row, runs'[row.run], candidates'[row.run])
    BY <2>1, <2>4 DEF Leading, ClaimsOne
  <2>9. RunsAccounted'
    <3>1. ASSUME NEW q \in Runs PROVE RunAccount(runs'[q], candidates'[q])
      <4>1. RunAccount(runs[q], candidates[q])
        BY DEF ServiceInv, RunsAccounted
      <4>2. CASE q # r
        BY <2>1, <2>2, <4>1, <4>2 DEF ClaimsOne
      <4>3. CASE q = r
        <5>1. runs'[r] = runs[r] /\ runs[r].lifecycle = "running"
              /\ runs[r].completions < runs[r].target
          BY <1>4, <2>2
        <5>2. runs[r].outcome = "none"
          BY <4>1, <4>3, <5>1 DEF RunAccount
        <5>3. runs[r].queue \in Seq(Applications)
          BY <1>2, QueuesAreSequences
        <5>4. \A a \in Range(runs[r].queue) : candidates[r][a] # "absent" /\ a \in Applications
          BY <4>1, <4>3, <5>1, <5>3 DEF RunAccount, Range
        <5>5. \A a \in Range(runs[r].queue) : candidates'[r][a] # "absent"
          BY <2>1, <5>4 DEF ClaimsOne
        <5>6. QED
          BY <4>1, <4>3, <5>1, <5>2, <5>5 DEF RunAccount
      <4>4. QED  BY <4>2, <4>3
    <3>2. QED  BY <3>1 DEF RunsAccounted
  <2>10. ResultsMatchNotion'
    BY <1>1, <2>1 DEF ServiceInv, ResultsMatchNotion, ClaimsOne, Complete
  <2>11. Stepped(w)
    BY <1>1, <1>2, <1>3, <2>4, <2>5, <2>6, <2>7, <2>8, <2>9, <2>10 DEF Stepped
  <2>12. NothingNew
    BY <2>1, <2>2 DEF NothingNew, Unfinished, ClaimsOne
  <2>13. RunsOnly(w)
    BY <1>1, <2>2, <2>6, <2>12 DEF RunsOnly, NothingSent, Dispatched, KeepsCandidate
  <2>14. ASSUME ApplicationsInv PROVE StillBuying(w)
    <3>1. Unfinished(r) /\ candidates[r][b] = "pending"
      BY <1>4, <2>1, <2>2 DEF Unfinished, ClaimsOne
    <3>2. b \notin quarantine
      BY <1>2, <2>14, <3>1 DEF ApplicationsInv, PendingUntouched
    <3>3. Unspent(calls, r, b, "none")
      BY <1>2, <3>1, PendingIsUnspent
    <3>4. QED  BY <1>1, <2>2, <2>4, <2>5, <3>2, <3>3 DEF StillBuying, Buying
  <2>15. Agreed(w)
    BY <2>4, <2>13, <2>14, RunnerAgreed
  <2>16. QED  BY <2>11, <2>15
<1>8. CASE /\ \/ runs[r].lifecycle # "running"
              \/ CurrentLease(r, w, {"running"}) /\ Evaluating(r) = {} /\ PendingOrdinals(r) = {}
           /\ Finishes(w, IF runs[r].truncated THEN "attempt_budget_exhausted"
                                               ELSE "queue_exhausted")
           /\ UNCHANGED storeVars
  <2>1. PICK outcome \in {"attempt_budget_exhausted", "queue_exhausted"} :
            /\ Finishes(w, outcome)
            /\ runs[r].truncated <=> outcome = "attempt_budget_exhausted"
    <3>1. runs[r].truncated \in BOOLEAN
      BY <1>2 DEF ServiceInv, StoreInv, StoreTypeOK, RunRows
    <3>2. QED  BY <1>8, <3>1
  <2> DEFINE row == Ending(v, outcome)
  <2>2. /\ Turns(w, row) /\ row.pc = "finish" /\ row.run = r
        /\ row.stage = "append" /\ row.call = "none" /\ row.verdict.stop = outcome
        /\ outcome \in Ends
    BY <1>2, <2>1, RowsAreTyped, FinishesTurns, EndingFields DEF ServiceInv, Ends
  <2> HIDE DEF row
  <2>3. ASSUME runs[r].lifecycle = "running" PROVE AllDecided(runs[r], candidates[r])
    <3>1. Evaluating(r) = {} /\ PendingOrdinals(r) = {}
      BY <1>8, <2>3
    <3>2. RunAccount(runs[r], candidates[r]) /\ runs[r] \in RunRows
          /\ candidates[r] \in [Applications -> CandidateStates \cup {"absent"}]
      BY <1>2 DEF ServiceInv, RunsAccounted, StoreInv, StoreTypeOK
    <3>3. runs[r].queue \in Seq(Applications)
      BY <1>2, QueuesAreSequences
    <3>4. SUFFICES ASSUME NEW i \in DOMAIN runs[r].queue
                   PROVE  candidates[r][runs[r].queue[i]] \in TerminalCandidateStates
      BY DEF AllDecided, Range
    <3>5. runs[r].queue[i] \in Applications
      BY <3>3
    <3>6. candidates[r][runs[r].queue[i]] \notin {"absent", "pending", "evaluating"}
      BY <2>3, <3>1, <3>2, <3>5 DEF RunAccount, Range, Evaluating, PendingOrdinals
    <3>7. QED  BY <3>2, <3>5, <3>6 DEF CandidateStates
  <2>4. Leading(row, runs[r], candidates[r])
    BY <2>1, <2>2, <2>3 DEF Leading, Evaluates
  <2>5. (\A cs : Located(row, cs)) /\ Seen(row, page)
    BY <1>2, <2>2 DEF Located, Seen, Evaluates
  <2>6. StandingRun(w)
    BY <1>1, <1>8, QuietRun
  <2>7. StillBuying(w)
    BY <2>2, TurnsTo, NothingToBuy
  <2>8. QED  BY <1>1, <2>2, <2>4, <2>5, <2>6, <2>7, StandingRunAgreed
<1>9. QED
  BY <1>6, <1>7, <1>8 DEF Candidate, Mine

\* The candidate a of r gets this state.
RecordsOne(r, a, state) ==
    /\ candidates'[r][a] = state
    /\ \A b \in Applications \ {a} : candidates'[r][b] = candidates[r][b]
    /\ \A q \in Runs \ {r} : candidates'[q] = candidates[q]

LEMMA WrittenRecords ==
    ASSUME StoreInv, NEW r \in Runs, NEW a \in Applications, NEW state,
           candidates' = [candidates EXCEPT ![r][a] = state]
    PROVE  RecordsOne(r, a, state)
  BY DEF StoreInv, StoreTypeOK, RecordsOne

\* A result adds at most one to the completions.
LEMMA CountGrows ==
    ASSUME NEW f, NEW g, NEW a \in Applications,
           \A b \in Applications \ {a} : g[b] = f[b]
    PROVE  CompletionCount(g) <= CompletionCount(f) + 1
<1> DEFINE Done(h) == {b \in Applications : h[b] \in {"analyzed", "repaired"}}
<1>1. IsFiniteSet(Applications) /\ Done(f) \in SUBSET Applications /\ Done(g) \in SUBSET Applications
  BY StoreAssumption
<1>2. IsFiniteSet(Done(f)) /\ IsFiniteSet(Done(g))
  BY <1>1, FS_Subset
<1>3. Done(g) \subseteq Done(f) \cup {a}
  OBVIOUS
<1> HIDE DEF Done
<1>4. /\ IsFiniteSet(Done(f) \cup {a})
      /\ Cardinality(Done(f) \cup {a}) =
            IF a \in Done(f) THEN Cardinality(Done(f)) ELSE Cardinality(Done(f)) + 1
  BY <1>2, FS_AddElement
<1>5. Cardinality(Done(g)) <= Cardinality(Done(f) \cup {a})
  BY <1>3, <1>4, FS_Subset
<1>6. /\ Cardinality(Done(f)) \in Nat /\ Cardinality(Done(g)) \in Nat
      /\ Cardinality(Done(f) \cup {a}) \in Nat
  BY <1>2, <1>4, FS_CardinalityType
<1>7. Cardinality(Done(g)) <= Cardinality(Done(f)) + 1
  BY <1>4, <1>5, <1>6
<1>8. QED  BY <1>7 DEF CompletionCount, Done

\* After the result of the candidate under evaluation the run has none, and
\* is within its target.
LEMMA ResultAccounted ==
    ASSUME ServiceInv, NEW r \in Runs, NEW a \in Applications,
           NEW state \in TerminalCandidateStates, candidates[r][a] = "evaluating",
           RecordsOne(r, a, state),
           runs[r].lifecycle \in Leased,
           runs'[r].completions = CompletionCount(candidates'[r])
    PROVE  /\ runs'[r].completions <= runs[r].target
           /\ \A b \in Applications : candidates'[r][b] # "evaluating"
           /\ \A b \in Range(runs[r].queue) : candidates'[r][b] # "absent"
<1>1. RunAccount(runs[r], candidates[r])
  BY DEF ServiceInv, RunsAccounted
<1>2. /\ runs[r].completions < runs[r].target
      /\ \A b \in Range(runs[r].queue) : candidates[r][b] # "absent"
  BY <1>1 DEF RunAccount, Leased
<1>3. runs[r].completions \in Nat /\ runs[r].target \in Nat
  BY CountsAreNat
<1>4. runs[r].completions = CompletionCount(candidates[r])
  BY DEF ServiceInv, ProgressIsCounted
<1>5. CompletionCount(candidates'[r]) <= CompletionCount(candidates[r]) + 1
  BY CountGrows DEF RecordsOne
<1>6. CompletionCount(candidates'[r]) \in Nat
  BY CompletionCountIsNat
<1>7. runs'[r].completions <= runs[r].target
  BY <1>2, <1>3, <1>4, <1>5, <1>6
<1>8. \A b \in Applications : candidates'[r][b] # "evaluating"
  BY DEF ServiceInv, StoreInv, OneCandidateEvaluated, Evaluating, RecordsOne, TerminalCandidateStates
<1>9. \A b \in Range(runs[r].queue) : b \in Applications
  BY QueuesAreSequences DEF Range
<1>10. \A b \in Range(runs[r].queue) : candidates'[r][b] # "absent"
  BY <1>2, <1>9 DEF RecordsOne, TerminalCandidateStates
<1>11. QED  BY <1>7, <1>8, <1>10

\* A recorded completion is one Notion shows.
LEMMA ResultMatches ==
    ASSUME ServiceInv, NEW r \in Runs, NEW a \in Applications,
           NEW state, RecordsOne(r, a, state), UNCHANGED page,
           state \in Completed => Complete(a)
    PROVE  ResultsMatchNotion'
  BY DEF ServiceInv, ResultsMatchNotion, RecordsOne, Complete, Completed

\* The other runs are accounted for as they were.
LEMMA OthersAccounted ==
    ASSUME ServiceInv, NEW r \in Runs,
           \A q \in Runs \ {r} : runs'[q] = runs[q] /\ candidates'[q] = candidates[q],
           RunAccount(runs'[r], candidates'[r])
    PROVE  RunsAccounted'
  BY DEF ServiceInv, RunsAccounted

\* A result begins nothing.
LEMMA ResultIsNothingNew ==
    ASSUME NEW r \in Runs, NEW a \in Applications, NEW state \in TerminalCandidateStates,
           RecordsOne(r, a, state),
           \A q \in Runs \ {r} : runs'[q] = runs[q],
           runs'[r].lifecycle \in {runs[r].lifecycle, "finished"}
    PROVE  NothingNew
<1>1. ASSUME NEW q \in Runs, Unfinished(q)' PROVE Unfinished(q)
  <2>1. CASE q = r
    BY <1>1, <2>1 DEF Unfinished
  <2>2. CASE q # r
    BY <1>1, <2>2 DEF Unfinished
  <2>3. QED  BY <2>1, <2>2
<1>2. ASSUME NEW q \in Runs, NEW b \in Applications, candidates'[q][b] = "pending"
      PROVE  candidates[q][b] = "pending"
  <2>1. state # "pending"
    BY DEF TerminalCandidateStates
  <2>2. CASE q = r
    BY <1>2, <2>1, <2>2 DEF RecordsOne
  <2>3. CASE q # r
    BY <1>2, <2>3 DEF RecordsOne
  <2>4. QED  BY <2>2, <2>3
<1>3. QED  BY <1>1, <1>2 DEF NothingNew

\* The worker is back at the head of the loop.
Looping(v) == [AtRest EXCEPT !.pc = "loop", !.run = v.run]

LEMMA LoopingFields ==
    ASSUME NEW v \in WorkerRows
    PROVE  LET u == Looping(v) IN
           /\ u \in WorkerRows /\ u.pc = "loop" /\ u.run = v.run
           /\ u.stage = "append" /\ u.call = "none"
  BY DEF Looping, AtRest, NoVerdict, WorkerRows, RowsGiving, VerdictRows, Steps

\* Where a worker is when it has a result to record.
LEMMA AtRecord ==
    ASSUME ServiceInv, NEW w \in Workers, worker[w].pc = "record",
           CurrentLease(worker[w].run, w, Leased)
    PROVE  /\ worker[w].app \in Applications
           /\ worker[w].verdict.state \in TerminalCandidateStates
           /\ worker[w].verdict.stop \in Stops \cup {"none"}
           /\ worker[w].verdict.state \in Completed => Complete(worker[w].app)
           /\ candidates[worker[w].run][worker[w].app] = "evaluating"
<1>1. Located(worker[w], calls) /\ Seen(worker[w], page)
  BY DEF ServiceInv, LocatedAll, SeenAll
<1>2. Leading(worker[w], runs[worker[w].run], candidates[worker[w].run])
  BY DEF ServiceInv, LeadersKnow, Leads, Busy, Mine
<1>3. QED  BY <1>1, <1>2 DEF Located, Seen, Leading, Complete

LEMMA RecordOnAgreed ==
    ASSUME ServiceInv, NEW w \in Workers, worker[w].pc = "record",
           NEW r \in Runs, r = worker[w].run, NEW a, a = worker[w].app,
           NEW state, state = worker[w].verdict.state,
           RecordCandidateResult(r, a, w, state),
           worker' = [worker EXCEPT ![w] =
               IF runs[r].lifecycle = "cancelling" THEN ToFinish("cancelled", w)
               ELSE IF runs'[r].completions >= runs[r].target
                      THEN ToFinish("target_met", w)
                      ELSE [AtRest EXCEPT !.pc = "loop", !.run = r]],
           UNCHANGED <<page, starter, faults>>
    PROVE  Stepped(w) /\ Agreed(w)
<1> DEFINE v == worker[w]
<1>1. /\ v \in WorkerRows /\ v.run = r /\ faults \in 0..MaxFaults
  BY AtLoop DEF Holding
<1>2. CurrentLease(r, w, Leased) /\ UNCHANGED <<calls, quarantine>>
  BY DEF RecordCandidateResult
<1>3. /\ a \in Applications /\ state \in TerminalCandidateStates
      /\ state \in Completed => Complete(a)
      /\ candidates[r][a] = "evaluating"
  BY <1>2, AtRecord
<1>4. StoreNext
  <2>1. CandidateStep(r, a, w)
    BY <1>3, RunsAssumption DEF CandidateStep
  <2>2. QED  BY <1>3, <2>1 DEF StoreNext
<1>5. RecordsOne(r, a, state)
  BY <1>3, WrittenRecords DEF RecordCandidateResult, ServiceInv
<1> DEFINE row == [runs[r] EXCEPT !.completions = CompletionCount(candidates'[r])]
<1>6. runs \in [Runs -> RunRows] /\ runs[r] \in RunRows
  BY DEF ServiceInv, StoreInv, StoreTypeOK
<1>7. runs' = [runs EXCEPT ![r] = row]
  BY DEF RecordCandidateResult, RefreshedProgress
<1>8. /\ row.lifecycle = runs[r].lifecycle /\ row.queue = runs[r].queue
      /\ row.owner = runs[r].owner /\ row.lease = runs[r].lease
      /\ row.target = runs[r].target /\ row.outcome = runs[r].outcome
      /\ row.completions = CompletionCount(candidates'[r])
  BY <1>6 DEF RunRows
<1> HIDE DEF row
<1>9. runs'[r] = row /\ \A q \in Runs \ {r} : runs'[q] = runs[q]
  BY <1>6, <1>7
<1>10. runs[r].lifecycle \in Leased /\ runs[r].owner = w
  BY <1>2 DEF CurrentLease
<1>11. /\ row.completions <= runs[r].target
       /\ \A b \in Applications : candidates'[r][b] # "evaluating"
       /\ \A b \in Range(runs[r].queue) : candidates'[r][b] # "absent"
  BY <1>3, <1>5, <1>8, <1>9, <1>10, ResultAccounted
<1>12. RunAccount(runs'[r], candidates'[r])
  <2>1. RunAccount(runs[r], candidates[r])
    BY DEF ServiceInv, RunsAccounted
  <2>2. row.outcome = "none"
    BY <1>8, <1>10, <2>1 DEF RunAccount, Leased
  <2>3. QED  BY <1>8, <1>9, <1>10, <1>11, <2>2 DEF RunAccount, Leased
<1>13. RunsAccounted'
  BY <1>5, <1>9, <1>12, OthersAccounted DEF RecordsOne
<1>14. ResultsMatchNotion'
  BY <1>3, <1>5, ResultMatches
<1>15. Grows(page, page') /\ page' \in [Applications -> Pages]
  BY GrowsItself
<1>16. Fenced(w)
  BY <1>8, <1>9, <1>10 DEF Fenced, Unfinished, Leased
<1>17. NothingNew
  BY <1>3, <1>5, <1>8, <1>9, ResultIsNothingNew
<1>18. RunsOnly(w)
  BY <1>2, <1>4, <1>17 DEF RunsOnly, NothingSent, Dispatched, KeepsCandidate
<1>19. ASSUME NEW next, Turns(w, next), next.run = r, next.stage = "append", next.call = "none",
              next.pc = "loop" \/ (next.pc = "finish" /\ next.verdict.stop \in {"cancelled", "target_met"}),
              next.pc = "finish" /\ next.verdict.stop = "target_met" =>
                  runs'[r].completions >= runs'[r].target
       PROVE  Stepped(w) /\ Agreed(w)
  <2>1. worker'[w] = next /\ worker'[w] \in WorkerRows
        /\ worker' = [worker EXCEPT ![w] = worker'[w]]
    BY <1>19, TurnsTo
  <2>2. (\A cs : Located(next, cs)) /\ Seen(next, page')
    BY <1>19 DEF Located, Seen, Evaluates, Ends
  <2>3. Leading(next, runs'[r], candidates'[r])
    BY <1>19 DEF Leading, Evaluates
  <2>4. Stepped(w)
    BY <1>1, <1>4, <1>13, <1>14, <1>15, <1>16, <1>19, <2>1, <2>2, <2>3 DEF Stepped
  <2>5. StillBuying(w)
    BY <1>19, <2>1, NothingToBuy
  <2>6. QED  BY <1>18, <1>19, <2>4, <2>5, RunnerAgreed
<1>20. CASE worker' = [worker EXCEPT ![w] = ToFinish("cancelled", w)]
  <2> DEFINE next == Ending(v, "cancelled")
  <2>1. /\ next \in WorkerRows /\ next.pc = "finish" /\ next.run = r
        /\ next.stage = "append" /\ next.call = "none" /\ next.verdict.stop = "cancelled"
    BY <1>1, EndingFields DEF Ends
  <2>2. Turns(w, next)
    BY <1>20, <2>1 DEF Turns, ToFinish, Ending, Mine
  <2> HIDE DEF next
  <2>3. QED  BY <1>19, <2>1, <2>2
<1>21. CASE /\ worker' = [worker EXCEPT ![w] = ToFinish("target_met", w)]
            /\ runs'[r].completions >= runs[r].target
  <2> DEFINE next == Ending(v, "target_met")
  <2>1. /\ next \in WorkerRows /\ next.pc = "finish" /\ next.run = r
        /\ next.stage = "append" /\ next.call = "none" /\ next.verdict.stop = "target_met"
    BY <1>1, EndingFields DEF Ends
  <2>2. Turns(w, next)
    BY <1>21, <2>1 DEF Turns, ToFinish, Ending, Mine
  <2>3. runs'[r].completions >= runs'[r].target
    BY <1>8, <1>9, <1>21
  <2> HIDE DEF next
  <2>4. QED  BY <1>19, <2>1, <2>2, <2>3
<1>22. CASE worker' = [worker EXCEPT ![w] = [AtRest EXCEPT !.pc = "loop", !.run = r]]
  <2> DEFINE next == Looping(v)
  <2>1. /\ next \in WorkerRows /\ next.pc = "loop" /\ next.run = r
        /\ next.stage = "append" /\ next.call = "none"
    BY <1>1, LoopingFields
  <2>2. Turns(w, next)
    BY <1>22, <2>1 DEF Turns, Looping
  <2> HIDE DEF next
  <2>3. QED  BY <1>19, <2>1, <2>2
<1>23. QED  BY <1>20, <1>21, <1>22

\* A worker that rests knows nothing and buys nothing.
LEMMA RestingStep ==
    ASSUME ServiceInv, NEW w \in Workers, Rests(w), UNCHANGED <<page, starter, faults>>,
           StoreNext, Fenced(w), RunsAccounted', ResultsMatchNotion', RunsOnly(w)
    PROVE  Stepped(w) /\ Agreed(w)
<1>1. Turns(w, AtRest)
  BY RestsTurns
<1>2. worker'[w] = AtRest /\ worker'[w] \in WorkerRows
      /\ worker' = [worker EXCEPT ![w] = worker'[w]]
  BY <1>1, TurnsTo
<1>3. Grows(page, page') /\ page' \in [Applications -> Pages]
  BY GrowsItself
<1>4. ~Leads(w)'
  BY <1>2, RestFields DEF Leads, Busy
<1>5. Located(worker'[w], calls') /\ Seen(worker'[w], page')
  BY <1>2, RestKnows
<1>6. faults \in 0..MaxFaults
  BY DEF ServiceInv, RunsTypeOK
<1>7. Stepped(w)
  BY <1>2, <1>3, <1>4, <1>5, <1>6 DEF Stepped
<1>8. AtRest.pc \notin {"append", "rejected"} /\ StillBuying(w)
  BY <1>2, RestFields, NothingToBuy
<1>9. Agreed(w)
  BY <1>1, <1>8, RunnerAgreed
<1>10. QED  BY <1>7, <1>9

LEMMA RecordAndStopAgreed ==
    ASSUME ServiceInv, NEW w \in Workers, worker[w].pc = "record",
           NEW r \in Runs, r = worker[w].run, NEW a, a = worker[w].app,
           NEW state, state = worker[w].verdict.state,
           NEW stop, stop = worker[w].verdict.stop, stop # "none",
           RecordResultAndStop(r, a, w, state, stop, "stopped"),
           Rests(w), UNCHANGED <<page, starter, faults>>
    PROVE  Stepped(w) /\ Agreed(w)
<1>1. CurrentLease(r, w, Leased) /\ UNCHANGED <<calls, quarantine>>
  BY DEF RecordResultAndStop
<1>2. /\ a \in Applications /\ state \in TerminalCandidateStates /\ stop \in Stops
      /\ state \in Completed => Complete(a)
      /\ candidates[r][a] = "evaluating"
  BY <1>1, AtRecord
<1>3. StoreNext
  <2>1. stop \in AskedOutcomes /\ state \in AskedResults /\ "stopped" \in Reasons
    BY <1>2, RunsAssumption DEF Stops, Outcomes
  <2>2. CandidateStep(r, a, w)
    BY <2>1 DEF CandidateStep
  <2>3. QED  BY <1>2, <2>2 DEF StoreNext
<1>4. RecordsOne(r, a, state)
  BY <1>2, WrittenRecords DEF RecordResultAndStop, ServiceInv
<1> DEFINE outcome == EffectiveOutcome(r, stop)
           reason == IF runs[r].lifecycle = "cancelling" THEN "cancelled" ELSE "stopped"
           done == [runs[r] EXCEPT !.completions = CompletionCount(candidates'[r])]
           row == [done EXCEPT !.lifecycle = "finished", !.outcome = outcome, !.reason = reason,
                               !.owner = NoOne, !.lease = 0]
<1>5. runs \in [Runs -> RunRows] /\ runs[r] \in RunRows
  BY DEF ServiceInv, StoreInv, StoreTypeOK
<1>6. runs' = [runs EXCEPT ![r] = row]
  BY DEF RecordResultAndStop, RefreshedProgress, Finished
<1>7. outcome \in Stops \cup {"cancelled"}
  BY <1>2 DEF EffectiveOutcome
<1> HIDE DEF outcome, reason
<1>8. /\ done.queue = runs[r].queue /\ done.target = runs[r].target
      /\ done.completions = CompletionCount(candidates'[r])
      /\ DOMAIN done = DOMAIN runs[r]
  BY <1>5 DEF RunRows
<1>9. DOMAIN runs[r] = {"lifecycle", "key", "target", "queue", "truncated", "outcome", "reason",
                        "owner", "lease", "completions"}
  BY <1>5 DEF RunRows
<1> HIDE DEF done
<1>10. /\ row.lifecycle = "finished" /\ row.queue = runs[r].queue
       /\ row.owner = NoOne /\ row.target = runs[r].target /\ row.outcome = outcome
       /\ row.completions = CompletionCount(candidates'[r])
  BY <1>8, <1>9
<1> HIDE DEF row
<1>11. runs'[r] = row /\ \A q \in Runs \ {r} : runs'[q] = runs[q]
  BY <1>5, <1>6
<1>12. runs[r].lifecycle \in Leased
  BY <1>1 DEF CurrentLease
<1>13. /\ row.completions <= runs[r].target
       /\ \A b \in Applications : candidates'[r][b] # "evaluating"
       /\ \A b \in Range(runs[r].queue) : candidates'[r][b] # "absent"
  BY <1>2, <1>4, <1>10, <1>11, <1>12, ResultAccounted
<1>14. RunAccount(runs'[r], candidates'[r])
  BY <1>7, <1>10, <1>11, <1>13 DEF RunAccount, Stops
<1>15. RunsAccounted'
  BY <1>4, <1>11, <1>14, OthersAccounted DEF RecordsOne
<1>16. ResultsMatchNotion'
  BY <1>2, <1>4, ResultMatches
<1>17. Fenced(w)
  BY <1>10, <1>11, <1>12 DEF Fenced, Unfinished, Leased
<1>18. NothingNew
  BY <1>2, <1>4, <1>10, <1>11, ResultIsNothingNew
<1>19. RunsOnly(w)
  BY <1>1, <1>3, <1>18 DEF RunsOnly, NothingSent, Dispatched, KeepsCandidate
<1>20. QED  BY <1>3, <1>15, <1>16, <1>17, <1>19, RestingStep

LEMMA RecordAgreed ==
    ASSUME ServiceInv, NEW w \in Workers, Record(w)
    PROVE  Stepped(w) /\ Agreed(w)
<1>1. worker[w].pc = "record" /\ UNCHANGED <<page, starter, faults>>
  BY DEF Record
<1>2. worker[w].run \in Runs
  BY <1>1, AtLoop DEF Holding
<1> DEFINE r == worker[w].run
           a == worker[w].app
           v == worker[w].verdict
<1>3. CASE /\ RecordCandidateResult(r, a, w, v.state)
           /\ worker' = [worker EXCEPT ![w] =
                 IF runs[r].lifecycle = "cancelling" THEN ToFinish("cancelled", w)
                 ELSE IF runs'[r].completions >= runs[r].target
                        THEN ToFinish("target_met", w)
                        ELSE [AtRest EXCEPT !.pc = "loop", !.run = r]]
  BY <1>1, <1>2, <1>3, RecordOnAgreed
<1>4. CASE /\ RecordResultAndStop(r, a, w, v.state, v.stop, "stopped")
           /\ Rests(w) /\ v.stop # "none"
  BY <1>1, <1>2, <1>4, RecordAndStopAgreed
<1>5. QED  BY <1>3, <1>4 DEF Record, Mine

LEMMA FinishAgreed ==
    ASSUME ServiceInv, NEW w \in Workers, Finish(w)
    PROVE  Stepped(w) /\ Agreed(w)
<1> DEFINE v == worker[w]
           r == v.run
           asked == v.verdict.stop
           because == IF asked = "cancelled" THEN "cancelled" ELSE "stopped"
<1>1. /\ v.pc = "finish" /\ UNCHANGED <<page, starter, faults>>
      /\ FinishRun(r, w, asked, because) /\ Rests(w)
  BY DEF Finish, Mine
<1>2. r \in Runs
  BY <1>1, AtLoop DEF Holding
<1>3. asked \in Ends
  BY <1>1 DEF ServiceInv, LocatedAll, Located
<1>4. CurrentLease(r, w, Leased) /\ UNCHANGED <<candidates, calls, quarantine>>
  BY <1>1 DEF FinishRun
<1>5. Leading(v, runs[r], candidates[r])
  BY <1>1, <1>4 DEF ServiceInv, LeadersKnow, Leads, Busy, Mine
<1>6. StoreNext
  <2>1. asked \in AskedOutcomes /\ because \in Reasons
    BY <1>3, RunsAssumption DEF Ends, Outcomes
  <2>2. RunStep(r, w)
    BY <1>1, <2>1 DEF RunStep
  <2>3. QED  BY <1>2, <2>2 DEF StoreNext
<1>7. runs \in [Runs -> RunRows] /\ runs[r] \in RunRows
  BY <1>2 DEF ServiceInv, StoreInv, StoreTypeOK
<1> DEFINE outcome == EffectiveOutcome(r, asked)
<1>8. PICK reason :
          runs' = [runs EXCEPT ![r] =
              [runs[r] EXCEPT !.lifecycle = "finished", !.outcome = outcome, !.reason = reason,
                              !.owner = NoOne, !.lease = 0]]
  BY <1>1 DEF FinishRun, Finished
<1> DEFINE row == [runs[r] EXCEPT !.lifecycle = "finished", !.outcome = outcome,
                                  !.reason = reason, !.owner = NoOne, !.lease = 0]
<1>9. runs[r].lifecycle \in Leased
  BY <1>4 DEF CurrentLease
<1>10. /\ outcome \in {asked, "cancelled"}
       /\ runs[r].lifecycle = "running" \/ outcome = "cancelled"
  BY <1>9 DEF EffectiveOutcome, Leased
<1> HIDE DEF outcome
<1>11. /\ row.lifecycle = "finished" /\ row.queue = runs[r].queue
       /\ row.owner = NoOne /\ row.target = runs[r].target /\ row.outcome = outcome
       /\ row.completions = runs[r].completions /\ row.truncated = runs[r].truncated
  BY <1>7 DEF RunRows
<1>12. runs' = [runs EXCEPT ![r] = row]
  BY <1>8
<1> HIDE DEF row
<1>13. runs'[r] = row /\ \A q \in Runs \ {r} : runs'[q] = runs[q]
  BY <1>2, <1>7, <1>12
<1>14. RunAccount(runs[r], candidates[r])
  BY <1>2 DEF ServiceInv, RunsAccounted
<1>15. runs[r].completions \in Nat /\ runs[r].target \in Nat
  BY <1>2, CountsAreNat
<1>16. runs[r].completions <= runs[r].target
  BY <1>9, <1>14 DEF RunAccount, Leased
<1>17. outcome = "target_met" => runs[r].completions = runs[r].target
  BY <1>1, <1>5, <1>10, <1>15, <1>16 DEF Leading
<1>18. outcome \in {"queue_exhausted", "attempt_budget_exhausted"} =>
          /\ AllDecided(runs[r], candidates[r])
          /\ runs[r].truncated <=> outcome = "attempt_budget_exhausted"
  BY <1>1, <1>5, <1>10 DEF Leading
<1>19. RunAccount(row, candidates[r])
  <2>1. /\ row.lifecycle # "absent" =>
              /\ \A a \in Range(row.queue) : candidates[r][a] # "absent"
              /\ row.completions <= row.target
        /\ (\E a \in Applications : candidates[r][a] = "evaluating") => row.completions < row.target
    BY <1>9, <1>11, <1>14 DEF RunAccount, Leased
  <2>2. row.outcome = "target_met" => row.completions = row.target
    BY <1>11, <1>17
  <2>3. row.outcome \in {"queue_exhausted", "attempt_budget_exhausted"} =>
          /\ AllDecided(row, candidates[r])
          /\ row.truncated <=> row.outcome = "attempt_budget_exhausted"
    BY <1>11, <1>18 DEF AllDecided
  <2>4. QED  BY <1>11, <2>1, <2>2, <2>3 DEF RunAccount
<1>20. RunsAccounted'
  BY <1>2, <1>4, <1>13, <1>19, OthersAccounted
<1>21. ResultsMatchNotion'
  BY <1>1, <1>4 DEF ServiceInv, ResultsMatchNotion, Complete
<1>22. Fenced(w)
  BY <1>2, <1>9, <1>11, <1>13 DEF Fenced, Unfinished, Leased
<1>23. NothingNew
  BY <1>4, <1>11, <1>13 DEF NothingNew, Unfinished
<1>24. RunsOnly(w)
  BY <1>1, <1>4, <1>6, <1>23 DEF RunsOnly, NothingSent, Dispatched, KeepsCandidate
<1>25. QED  BY <1>1, <1>6, <1>20, <1>21, <1>22, <1>24, RestingStep

\* Every step of a worker.
LEMMA WorkerAgreed ==
    ASSUME ServiceInv, NEW w \in Workers, WorkerStep(w) \/ Crash(w) \/ Stop(w)
    PROVE  Stepped(w) /\ Agreed(w)
<1>1. CASE EvaluatorStep(w)
  BY <1>1, EvaluatorAgreed
<1>2. CASE RunnerStep(w)
  <2>1. CASE Claim(w) \/ ReconcileCalls(w) \/ SettleRecorded(w) \/ EnterLoop(w)
    BY <2>1, ClaimAgreed, ReconcileCallsAgreed, SettleRecordedAgreed, EnterLoopAgreed
  <2>2. CASE Survey(w) \/ Renew(w) \/ Candidate(w)
    BY <2>2, SurveyAgreed, RenewAgreed, CandidateAgreed
  <2>3. CASE Record(w) \/ Finish(w) \/ LoseLease(w)
    BY <2>3, RecordAgreed, FinishAgreed, LoseLeaseAgreed
  <2>4. QED  BY <1>2, <2>1, <2>2, <2>3 DEF RunnerStep
<1>3. CASE Crash(w) \/ Stop(w)
  BY <1>3, CrashAgreed, StopAgreed
<1>4. QED  BY <1>1, <1>2, <1>3 DEF WorkerStep

-----------------------------------------------------------------------------
(* The steps nobody's pass takes: requests, Notion and the clock           *)

StarterRows == [pc : {"idle", "reconcile", "snapshot"},
                todo : SUBSET Applications, seen : SUBSET Applications]

\* Who leads after the step led before it, and knows as much of its run.
LeadersStand ==
    \A w \in Workers : Leads(w)' =>
        LET r == worker[w].run IN
        /\ Leads(w)
        /\ candidates'[r] = candidates[r] /\ Continues(runs[r], runs'[r])
        /\ runs'[r].lifecycle = "running" => runs[r].lifecycle = "running"

\* No worker moves and no call changes.
Aside ==
    /\ UNCHANGED <<worker, calls>>
    /\ StoreNext \/ UNCHANGED storeVars
    /\ page' \in [Applications -> Pages] /\ Grows(page, page')
    /\ starter' \in [Starters -> StarterRows] /\ faults' \in 0..MaxFaults
    /\ LeadersStand
    /\ RunsAccounted' /\ ResultsMatchNotion'

\* The store's part of the invariant.
LEMMA StoreKept ==
    ASSUME ServiceInv, StoreNext \/ UNCHANGED storeVars
    PROVE  (StoreInv /\ SpendInv /\ ProgressIsCounted /\ TransmissionsInOrder)'
<1>1. [StoreNext]_storeVars
  OBVIOUS
<1>2. StoreInv /\ SpendInv /\ ProgressIsCounted /\ TransmissionsInOrder
  BY DEF ServiceInv
<1>3. StoreInv' /\ SpendInv' /\ TransmissionsInOrder'
  BY <1>1, <1>2, InvStep, SpendInvStep, InOrderStep
<1>4. ProgressIsCounted'
  <2>1. CASE StoreNext
    BY <1>2, <2>1, ProgressStep
  <2>2. CASE UNCHANGED storeVars
    BY <1>2, <2>2 DEF storeVars, ProgressIsCounted
  <2>3. QED  BY <2>1, <2>2
<1>5. QED  BY <1>3, <1>4

LEMMA AsideServed ==
    ASSUME ServiceInv, Aside
    PROVE  ServiceInv'
<1>1. (StoreInv /\ SpendInv /\ ProgressIsCounted /\ TransmissionsInOrder)'
  BY StoreKept DEF Aside
<1>2. RunsTypeOK'
  <2>1. worker \in [Workers -> WorkerRows]
    BY RowsAreTyped DEF ServiceInv, RowsOK
  <2>2. StoreTypeOK'
    BY <1>1 DEF StoreInv
  <2>3. QED
    BY <2>1, <2>2
    DEF RunsTypeOK, Aside, WorkerRows, RowsGiving, VerdictRows, Pages, StarterRows
<1>3. LocatedAll'
  BY RowsAreTyped, CallsKept, LocatedKept DEF ServiceInv, LocatedAll, Aside, RowsOK
<1>4. SeenAll'
  BY RowsAreTyped, SeenKept DEF ServiceInv, LocatedAll, SeenAll, Aside, RowsOK
<1>5. LeadersKnow'
  <2>1. ASSUME NEW w \in Workers, Leads(w)'
        PROVE  Leading(worker'[w], runs'[worker'[w].run], candidates'[worker'[w].run])
    <3> DEFINE v == worker[w]
               r == v.run
    <3>1. /\ Leads(w) /\ candidates'[r] = candidates[r] /\ Continues(runs[r], runs'[r])
          /\ runs'[r].lifecycle = "running" => runs[r].lifecycle = "running"
          /\ worker' = worker
      BY <2>1 DEF Aside, LeadersStand
    <3>2. Leading(v, runs[r], candidates[r])
      BY <3>1 DEF ServiceInv, LeadersKnow, Mine
    <3>3. Leading(v, runs'[r], candidates'[r])
      BY <3>1, <3>2 DEF Leading, Continues, AllDecided
    <3>4. QED  BY <3>1, <3>3
  <2>2. QED  BY <2>1 DEF LeadersKnow, Mine
<1>6. QED  BY <1>1, <1>2, <1>3, <1>4, <1>5 DEF ServiceInv, Aside

\* What is kept when the runs and their candidates stand.
LEMMA StandingAside ==
    ASSUME ServiceInv, UNCHANGED <<worker, runs, candidates, calls>>,
           StoreNext \/ UNCHANGED storeVars, page' \in [Applications -> Pages], Grows(page, page'),
           starter' \in [Starters -> StarterRows], faults' \in 0..MaxFaults
    PROVE  Aside
<1>1. RunsAccounted' /\ ResultsMatchNotion'
  BY StandContinues, AccountsStand
<1>2. LeadersStand
  BY DEF LeadersStand, Leads, Busy, Mine, CurrentLease, Continues
<1>3. QED  BY <1>1, <1>2 DEF Aside

LEMMA RequestsAreTyped ==
    ASSUME ServiceInv
    PROVE  starter \in [Starters -> StarterRows] /\ faults \in 0..MaxFaults
  BY DEF ServiceInv, RunsTypeOK, StarterRows

LEMMA StartRequestAside ==
    ASSUME ServiceInv, NEW s \in Starters, StartRequest(s)
    PROVE  Aside
<1>1. starter \in [Starters -> StarterRows] /\ faults \in 0..MaxFaults
  BY RequestsAreTyped
<1>2. quarantine \subseteq Applications
  BY DEF ServiceInv, StoreInv, StoreTypeOK
<1>3. starter' \in [Starters -> StarterRows]
  BY <1>1, <1>2 DEF StartRequest, StarterRows
<1>4. page' \in [Applications -> Pages] /\ Grows(page, page')
  BY GrowsItself DEF StartRequest
<1>5. QED  BY <1>1, <1>3, <1>4, StandingAside DEF StartRequest, storeVars

LEMMA StartListAside ==
    ASSUME ServiceInv, NEW s \in Starters, StartList(s)
    PROVE  Aside
<1>1. starter \in [Starters -> StarterRows] /\ faults \in 0..MaxFaults
  BY RequestsAreTyped
<1>2. quarantine \subseteq Applications
  BY DEF ServiceInv, StoreInv, StoreTypeOK
<1>3. starter' \in [Starters -> StarterRows]
  BY <1>1, <1>2 DEF StartList, StarterRows
<1>4. page' \in [Applications -> Pages] /\ Grows(page, page')
  BY GrowsItself DEF StartList
<1>5. QED  BY <1>1, <1>3, <1>4, StandingAside DEF StartList, storeVars

LEMMA StartReconcileAside ==
    ASSUME ServiceInv, NEW s \in Starters, StartReconcile(s)
    PROVE  Aside
<1>1. starter \in [Starters -> StarterRows] /\ faults \in 0..MaxFaults
  BY RequestsAreTyped
<1>2. PICK a \in starter[s].todo :
          /\ IF Blank(a) THEN UNCHANGED storeVars
                         ELSE ClearCommitQuarantine(a) \/ UNCHANGED storeVars
          /\ starter' = [starter EXCEPT ![s].todo = @ \ {a}]
  BY DEF StartReconcile
<1>3. a \in Applications
  BY <1>1 DEF StarterRows
<1>4. starter' \in [Starters -> StarterRows]
  BY <1>1, <1>2 DEF StarterRows
<1>5. StoreNext \/ UNCHANGED storeVars
  BY <1>2, <1>3 DEF StoreNext
<1>6. UNCHANGED <<runs, candidates, calls>>
  BY <1>2 DEF ClearCommitQuarantine, storeVars
<1>7. page' \in [Applications -> Pages] /\ Grows(page, page')
  BY GrowsItself DEF StartReconcile
<1>8. QED  BY <1>1, <1>4, <1>5, <1>6, <1>7, StandingAside DEF StartReconcile

LEMMA QueueViewAside ==
    ASSUME ServiceInv, NEW a \in Applications, QueueView(a)
    PROVE  Aside
<1>1. starter \in [Starters -> StarterRows] /\ faults \in 0..MaxFaults
  BY RequestsAreTyped
<1>2. StoreNext
  BY DEF QueueView, StoreNext
<1>3. page' \in [Applications -> Pages] /\ Grows(page, page')
  BY GrowsItself DEF QueueView, serviceVars
<1>4. QED  BY <1>1, <1>2, <1>3, StandingAside DEF QueueView, ClearCommitQuarantine, serviceVars

\* A late append takes effect or is lost.
LateMove(a) == LandLate(a) \/ LoseLate(a)

LEMMA LateMoves ==
    ASSUME ServiceInv, NEW a \in Applications, LateMove(a)
    PROVE  /\ page' \in [Applications -> Pages] /\ Grows(page, page')
           /\ \A b \in Applications \ {a} : page'[b] = page[b]
           /\ page[a].late > 0 /\ page'[a].bodies >= page[a].bodies
           /\ page'[a].bodies + page'[a].late <= page[a].bodies + page[a].late
           /\ UNCHANGED <<storeVars, worker, starter, faults>>
<1>1. page \in [Applications -> Pages] /\ page[a] \in Pages
  BY RowsAreTyped DEF ServiceInv, RowsOK
<1>2. page[a].late > 0 /\ UNCHANGED <<storeVars, worker, starter, faults>>
  BY DEF LateMove, LandLate, LoseLate
<1>3. PICK row : /\ page' = [page EXCEPT ![a] = row]
                 /\ \/ row = [page[a] EXCEPT !.late = @ - 1, !.bodies = @ + 1]
                    \/ row = [page[a] EXCEPT !.late = @ - 1]
  BY <1>1 DEF LateMove, LandLate, LoseLate
<1>4. /\ row \in Pages /\ row.analyzed = page[a].analyzed /\ row.bodies >= page[a].bodies
      /\ row.bodies + row.late <= page[a].bodies + page[a].late
  <2>1. page[a].late \in Nat /\ page[a].bodies \in Nat /\ page[a].analyzed \in BOOLEAN
    BY <1>1 DEF Pages
  <2>2. page[a].late - 1 \in Nat /\ page[a].bodies + 1 \in Nat
    BY <1>2, <2>1
  <2>3. CASE row = [page[a] EXCEPT !.late = @ - 1, !.bodies = @ + 1]
    <3>1. row \in Pages
      BY <1>1, <2>2, <2>3 DEF Pages
    <3>2. /\ row.late = page[a].late - 1 /\ row.bodies = page[a].bodies + 1
          /\ row.analyzed = page[a].analyzed
      BY <1>1, <2>3 DEF Pages
    <3>3. QED  BY <2>1, <3>1, <3>2
  <2>4. CASE row = [page[a] EXCEPT !.late = @ - 1]
    <3>1. row \in Pages
      BY <1>1, <2>2, <2>4 DEF Pages
    <3>2. /\ row.late = page[a].late - 1 /\ row.bodies = page[a].bodies
          /\ row.analyzed = page[a].analyzed
      BY <1>1, <2>4 DEF Pages
    <3>3. QED  BY <2>1, <3>1, <3>2
  <2>5. QED  BY <1>3, <2>3, <2>4
<1>5. page'[a] = row /\ (\A b \in Applications \ {a} : page'[b] = page[b])
      /\ page' \in [Applications -> Pages]
  BY <1>1, <1>3, <1>4
<1>6. Grows(page, page')
  <2>1. \A b \in Applications : page[b].bodies <= page[b].bodies
    BY <1>1 DEF Pages
  <2>2. QED  BY <1>4, <1>5, <2>1 DEF Grows
<1>7. QED  BY <1>2, <1>4, <1>5, <1>6

LEMMA LateAside ==
    ASSUME ServiceInv, NEW a \in Applications, LateMove(a)
    PROVE  Aside
  BY LateMoves, RequestsAreTyped, StandingAside DEF storeVars

LEMMA CancelAside ==
    ASSUME ServiceInv, NEW r \in Runs, Cancel(r)
    PROVE  Aside /\ NothingNew
<1>1. /\ runs[r].lifecycle \in {"queued", "running"}
      /\ UNCHANGED <<candidates, calls, quarantine, worker, page, starter, faults>>
  BY DEF Cancel, RequestCancellation, serviceVars
<1>2. runs \in [Runs -> RunRows] /\ runs[r] \in RunRows
  BY DEF ServiceInv, StoreInv, StoreTypeOK
<1> DEFINE row == [runs[r] EXCEPT !.lifecycle = "cancelling"]
<1>3. runs' = [runs EXCEPT ![r] = row]
  BY DEF Cancel, RequestCancellation
<1>4. /\ row.lifecycle = "cancelling" /\ row.owner = runs[r].owner /\ row.lease = runs[r].lease
      /\ row.queue = runs[r].queue /\ row.target = runs[r].target
      /\ row.completions = runs[r].completions
      /\ row.truncated = runs[r].truncated /\ row.outcome = runs[r].outcome
  BY <1>2 DEF RunRows
<1> HIDE DEF row
<1>5. runs'[r] = row /\ \A q \in Runs \ {r} : runs'[q] = runs[q]
  BY <1>2, <1>3
<1>6. \A q \in Runs : Continues(runs[q], runs'[q])
  BY <1>1, <1>4, <1>5 DEF Continues
<1>7. page' \in [Applications -> Pages] /\ Grows(page, page')
  BY <1>1, GrowsItself
<1>8. RunsAccounted' /\ ResultsMatchNotion'
  BY <1>1, <1>6, <1>7, AccountsStand
<1>9. runs[r].lifecycle = "queued" => runs[r].lease = 0
  BY DEF ServiceInv, RunsAccounted, RunAccount
<1>10. LeadersStand
  <2>1. SUFFICES ASSUME NEW w \in Workers, Leads(w)'
                 PROVE  /\ Leads(w)
                        /\ runs'[worker[w].run].lifecycle = "running" =>
                              runs[worker[w].run].lifecycle = "running"
                        /\ Continues(runs[worker[w].run], runs'[worker[w].run])
    BY <1>1 DEF LeadersStand
  <2>2. worker[w].pc # "idle" /\ CurrentLease(worker[w].run, w, Leased)'
    BY <1>1, <2>1 DEF Leads, Busy, Mine, CurrentLease
  <2>3. worker[w].run \in Runs
    BY <2>2 DEF ServiceInv, LocatedAll, Located
  <2>4. CASE worker[w].run = r
    <3>1. runs[r].lifecycle = "running" /\ runs[r].owner = w /\ runs[r].lease > 0
      BY <1>1, <1>4, <1>5, <1>9, <2>2, <2>4 DEF CurrentLease
    <3>2. Leads(w)
      BY <2>2, <2>4, <3>1 DEF Leads, Busy, Mine, CurrentLease, Leased
    <3>3. Continues(runs[worker[w].run], runs'[worker[w].run])
      BY <1>6, <2>4
    <3>4. runs[worker[w].run].lifecycle = "running"
      BY <2>4, <3>1
    <3>5. QED  BY <3>2, <3>3, <3>4
  <2>5. CASE worker[w].run # r
    <3>1. runs'[worker[w].run] = runs[worker[w].run]
      BY <1>5, <2>3, <2>5
    <3>2. Leads(w)
      BY <1>1, <2>2, <3>1 DEF Leads, Busy, Mine, CurrentLease
    <3>3. Continues(runs[worker[w].run], runs'[worker[w].run])
      BY <1>6, <2>3
    <3>4. QED  BY <3>1, <3>2, <3>3
  <2>6. QED  BY <2>4, <2>5
<1>11. StoreNext
  BY DEF Cancel, StoreNext
<1>12. starter \in [Starters -> StarterRows] /\ faults \in 0..MaxFaults
  BY RequestsAreTyped
<1>13. Aside
  BY <1>1, <1>7, <1>8, <1>10, <1>11, <1>12 DEF Aside
<1>14. NothingNew
  BY <1>1, <1>4, <1>5 DEF NothingNew, Unfinished
<1>15. QED  BY <1>13, <1>14

LEMMA TickAside ==
    ASSUME ServiceInv, Tick, UNCHANGED <<worker, page, starter>>, faults' \in 0..MaxFaults
    PROVE  Aside /\ NothingNew
<1>1. UNCHANGED <<candidates, calls, quarantine>>
  BY DEF Tick
<1>2. runs \in [Runs -> RunRows]
  BY DEF ServiceInv, StoreInv, StoreTypeOK
<1>3. ASSUME NEW r \in Runs
      PROVE  /\ Continues(runs[r], runs'[r])
             /\ runs'[r].lifecycle = runs[r].lifecycle /\ runs'[r].owner = runs[r].owner
             /\ runs'[r].lease > 0 => runs[r].lease > 0
  <2> DEFINE rest == IF runs[r].lease > 0 THEN runs[r].lease - 1 ELSE 0
             row == [runs[r] EXCEPT !.lease = rest]
  <2>1. runs[r] \in RunRows
    BY <1>2
  <2>2. runs'[r] = row
    BY DEF Tick
  <2>3. (rest > 0 => runs[r].lease > 0) /\ (runs[r].lease = 0 => rest = 0)
    BY <2>1 DEF RunRows
  <2> HIDE DEF rest
  <2>4. /\ row.lifecycle = runs[r].lifecycle /\ row.owner = runs[r].owner /\ row.lease = rest
        /\ row.queue = runs[r].queue /\ row.target = runs[r].target
        /\ row.completions = runs[r].completions
        /\ row.truncated = runs[r].truncated /\ row.outcome = runs[r].outcome
    BY <2>1 DEF RunRows
  <2> HIDE DEF row
  <2>5. QED  BY <2>2, <2>3, <2>4 DEF Continues
<1>4. page' \in [Applications -> Pages] /\ Grows(page, page')
  BY GrowsItself
<1>5. RunsAccounted' /\ ResultsMatchNotion'
  BY <1>1, <1>3, <1>4, AccountsStand
<1>6. LeadersStand
  <2>1. SUFFICES ASSUME NEW w \in Workers, Leads(w)'
                 PROVE  /\ Leads(w)
                        /\ runs'[worker[w].run].lifecycle = "running" =>
                              runs[worker[w].run].lifecycle = "running"
                        /\ Continues(runs[worker[w].run], runs'[worker[w].run])
    BY <1>1 DEF LeadersStand
  <2>2. worker[w].pc # "idle" /\ CurrentLease(worker[w].run, w, Leased)'
    BY <2>1 DEF Leads, Busy, Mine, CurrentLease
  <2>3. worker[w].run \in Runs
    BY <2>2 DEF ServiceInv, LocatedAll, Located
  <2>4. QED  BY <1>3, <2>2, <2>3 DEF Leads, Busy, Mine, CurrentLease
<1>7. StoreNext
  BY DEF StoreNext
<1>8. starter \in [Starters -> StarterRows]
  BY RequestsAreTyped
<1>9. Aside
  BY <1>1, <1>4, <1>5, <1>6, <1>7, <1>8 DEF Aside
<1>10. NothingNew
  BY <1>1, <1>3 DEF NothingNew, Unfinished
<1>11. QED  BY <1>9, <1>10

\* What create_run does: r was absent, and no run is under way.
Creates(r, queue) ==
    /\ StoreNext
    /\ NoActiveRun /\ runs[r].lifecycle = "absent"
    /\ UNCHANGED <<calls, quarantine>>
    /\ \A q \in Runs \ {r} : runs'[q] = runs[q] /\ candidates'[q] = candidates[q]
    /\ runs'[r].lifecycle = "queued" /\ runs'[r].queue = queue /\ runs'[r].outcome = "none"
    /\ runs'[r].lease = 0 /\ runs'[r].completions = 0 /\ runs'[r].target \in Nat
    /\ \A a \in Applications :
          candidates'[r][a] = IF a \in Range(queue) THEN "pending" ELSE "absent"

LEMMA CreateCreates ==
    ASSUME StoreInv, NEW r \in Runs, NEW key \in Keys, NEW target \in Targets,
           NEW queue \in Queues, NEW truncated \in BOOLEAN,
           CreateRun(r, key, target, queue, truncated)
    PROVE  Creates(r, queue)
<1>1. StoreNext
  BY DEF StoreNext
<1>2. /\ runs \in [Runs -> RunRows]
      /\ candidates \in [Runs -> [Applications -> CandidateStates \cup {"absent"}]]
  BY DEF StoreInv, StoreTypeOK
<1> DEFINE row == [NoRun EXCEPT !.lifecycle = "queued", !.key = key, !.target = target,
                                !.queue = queue, !.truncated = truncated]
           states == [a \in Applications |-> IF a \in Range(queue) THEN "pending" ELSE "absent"]
<1>3. /\ row.lifecycle = "queued" /\ row.queue = queue /\ row.outcome = "none"
      /\ row.lease = 0 /\ row.completions = 0 /\ row.target = target
  BY DEF NoRun
<1>4. /\ runs' = [runs EXCEPT ![r] = row] /\ candidates' = [candidates EXCEPT ![r] = states]
      /\ NoActiveRun /\ runs[r].lifecycle = "absent" /\ UNCHANGED <<calls, quarantine>>
  BY DEF CreateRun
<1> HIDE DEF row
<1>5. target \in Nat
  BY StoreAssumption
<1>6. \A a \in Applications : states[a] = IF a \in Range(queue) THEN "pending" ELSE "absent"
  OBVIOUS
<1> HIDE DEF states
<1>7. /\ runs'[r] = row /\ candidates'[r] = states
      /\ \A q \in Runs \ {r} : runs'[q] = runs[q] /\ candidates'[q] = candidates[q]
  BY <1>2, <1>4
<1>8. QED  BY <1>1, <1>3, <1>4, <1>5, <1>6, <1>7 DEF Creates

\* The new run holds Applications that may be analyzed, none under the
\* quarantine the request saw.
LEMMA StartCreates ==
    ASSUME ServiceInv, NEW s \in Starters, StartCreate(s)
    PROVE  /\ UNCHANGED <<worker, page, faults>>
           /\ starter[s].pc = "snapshot" /\ starter' = [starter EXCEPT ![s] = NoRequest]
           /\ \/ UNCHANGED storeVars
              \/ \E r \in Runs, queue \in Queues :
                    Creates(r, queue) /\ Range(queue) \subseteq Applications \ starter[s].seen
<1>1. /\ UNCHANGED <<worker, page, faults>>
      /\ starter[s].pc = "snapshot" /\ starter' = [starter EXCEPT ![s] = NoRequest]
  BY DEF StartCreate
<1>2. ASSUME \E r \in Runs : runs[r].lifecycle = "absent",
             NEW target \in Targets, NEW queue \in Queues, NEW key \in Keys \ UsedKeys,
             Range(queue) \subseteq Eligible(s),
             CreateRun(FreshRun, key, target, queue,
                       Cardinality(Eligible(s)) > AttemptsPerTarget * target)
      PROVE  \E r \in Runs, q \in Queues :
                Creates(r, q) /\ Range(q) \subseteq Applications \ starter[s].seen
  <2>1. FreshRun \in Runs
    BY <1>2, Zenon DEF FreshRun
  <2> DEFINE more == Cardinality(Eligible(s)) > AttemptsPerTarget * target
  <2>2. more \in BOOLEAN
    OBVIOUS
  <2>3. CreateRun(FreshRun, key, target, queue, more)
    BY <1>2
  <2> HIDE DEF more
  <2>4. Creates(FreshRun, queue)
    BY <2>1, <2>2, <2>3, CreateCreates DEF ServiceInv
  <2>5. QED  BY <1>2, <2>1, <2>4 DEF Eligible
<1>3. CASE UNCHANGED storeVars
  BY <1>1, <1>3
<1>4. CASE ~UNCHANGED storeVars
  <2>1. /\ \E r \in Runs : runs[r].lifecycle = "absent"
        /\ \E target \in Targets, queue \in Queues, key \in Keys \ UsedKeys :
              /\ Range(queue) \subseteq Eligible(s)
              /\ CreateRun(FreshRun, key, target, queue,
                           Cardinality(Eligible(s)) > AttemptsPerTarget * target)
    BY <1>4, Zenon DEF StartCreate
  <2>2. QED  BY <1>1, <1>2, <2>1
<1>5. QED  BY <1>3, <1>4

LEMMA StartCreateAside ==
    ASSUME ServiceInv, NEW s \in Starters, StartCreate(s)
    PROVE  Aside
<1>1. /\ UNCHANGED <<worker, page, faults>> /\ starter' = [starter EXCEPT ![s] = NoRequest]
  BY StartCreates
<1>2. starter \in [Starters -> StarterRows] /\ faults \in 0..MaxFaults
  BY RequestsAreTyped
<1>3. starter' \in [Starters -> StarterRows]
  BY <1>1, <1>2 DEF NoRequest, StarterRows
<1>4. page' \in [Applications -> Pages] /\ Grows(page, page')
  BY <1>1, GrowsItself
<1>5. CASE UNCHANGED storeVars
  BY <1>1, <1>2, <1>3, <1>4, <1>5, StandingAside DEF storeVars
<1>6. ASSUME NEW r \in Runs, NEW queue \in Queues, Creates(r, queue)
      PROVE  Aside
  <2>1. queue \in Seq(Applications)
    BY StoreAssumption
  <2>2. \A a \in Range(queue) : a \in Applications
    BY <2>1 DEF Range
  <2>3. RunAccount(runs'[r], candidates'[r])
    BY <1>6, <2>2 DEF RunAccount, Creates
  <2>4. RunsAccounted'
    BY <1>6, <2>3, OthersAccounted DEF Creates
  <2>5. ResultsMatchNotion'
    <3>1. ASSUME NEW q \in Runs, NEW a \in Applications, candidates'[q][a] \in {"analyzed", "repaired"}
          PROVE  Complete(a)
      <4>1. q # r
        BY <1>6, <3>1 DEF Creates
      <4>2. QED  BY <1>6, <3>1, <4>1 DEF Creates, ServiceInv, ResultsMatchNotion
    <3>2. \A a \in Applications : Complete(a)' <=> Complete(a)
      BY <1>1 DEF Complete
    <3>3. QED  BY <3>1, <3>2 DEF ResultsMatchNotion
  <2>6. LeadersStand
    <3>1. SUFFICES ASSUME NEW w \in Workers, Leads(w)'
                   PROVE  LET q == worker[w].run IN
                          /\ Leads(w)
                          /\ candidates'[q] = candidates[q] /\ Continues(runs[q], runs'[q])
                          /\ runs'[q].lifecycle = "running" => runs[q].lifecycle = "running"
      BY DEF LeadersStand
    <3> DEFINE q == worker[w].run
    <3>2. /\ worker[w].pc # "idle" /\ runs'[q].lifecycle \in Leased
          /\ runs'[q].owner = w /\ runs'[q].lease > 0
      BY <1>1, <3>1 DEF Leads, Busy, Mine, CurrentLease
    <3>3. q \in Runs /\ q # r
      BY <1>6, <3>2 DEF ServiceInv, LocatedAll, Located, Creates, Leased
    <3>4. runs'[q] = runs[q] /\ candidates'[q] = candidates[q]
      BY <1>6, <3>3 DEF Creates
    <3>5. Leads(w)
      BY <3>2, <3>4 DEF Leads, Busy, Mine, CurrentLease
    <3>6. Continues(runs[q], runs'[q])
      BY <3>4 DEF Continues
    <3>7. QED  BY <3>4, <3>5, <3>6
  <2>7. QED
    BY <1>1, <1>2, <1>3, <1>4, <1>6, <2>4, <2>5, <2>6 DEF Aside, Creates
<1>7. QED  BY <1>5, <1>6, StartCreates

-----------------------------------------------------------------------------
(* What those steps do to the Applications                                 *)

\* The page stands, and an Application leaves the quarantine only when it
\* shows an Analysis body.
LEMMA AsideApart ==
    ASSUME ServiceInv, ApplicationsInv, Aside, UNCHANGED page, quarantine' \subseteq quarantine,
           \A a \in quarantine \ quarantine' : page[a].bodies > 0,
           PendingUntouched', StartAlone'
    PROVE  ApplicationsInv'
<1>1. page \in [Applications -> Pages] /\ UNCHANGED <<worker, calls, page>>
  BY RowsAreTyped DEF ServiceInv, RowsOK, Aside
<1>2. ASSUME NEW a \in Applications
      PROVE  /\ page[a].bodies + page[a].late <= 1
             /\ page[a].late > 0 => a \in quarantine'
             /\ \A v \in Appending(a) :
                   /\ a \in quarantine' /\ page[a].bodies = 0 /\ page[a].late = 0
                   /\ \A u \in Appending(a) : u = v
                   /\ \A c \in Calls :
                         calls[c].application = a => calls[c].result # "commit_unknown"
  <2>1. page[a].bodies \in Nat /\ page[a].late \in Nat
    BY <1>1 DEF Pages
  <2>2. a \in quarantine /\ a \notin quarantine' => page[a].bodies > 0
    OBVIOUS
  <2>3. /\ page[a].bodies + page[a].late <= 1
        /\ page[a].late > 0 => a \in quarantine
        /\ \A v \in Appending(a) :
              /\ a \in quarantine /\ page[a].bodies = 0 /\ page[a].late = 0
              /\ \A u \in Appending(a) : u = v
              /\ \A c \in Calls : calls[c].application = a => calls[c].result # "commit_unknown"
    BY DEF ApplicationsInv, AppendsApart
  <2>4. QED  BY <2>1, <2>2, <2>3
<1>3. \A a \in Applications : Appending(a)' = Appending(a)
  BY <1>1 DEF Appending
<1>4. AppendsApart'
  BY <1>1, <1>2, <1>3 DEF AppendsApart
<1>5. DraftsShow'
  BY <1>1 DEF ApplicationsInv, DraftsShow
<1>6. LeadersBuy'
  <2>1. ASSUME NEW w \in Workers, Leads(w)' PROVE Buying(worker[w], page, quarantine', calls)
    <3>1. Leads(w)
      BY <2>1 DEF Aside, LeadersStand
    <3>2. Buying(worker[w], page, quarantine, calls)
      BY <3>1 DEF ApplicationsInv, LeadersBuy
    <3>3. QED  BY <3>2 DEF Buying
  <2>2. QED  BY <1>1, <2>1 DEF LeadersBuy
<1>7. NoSecondPurchase'
  BY <1>1 DEF ApplicationsInv, NoSecondPurchase
<1>8. QED  BY <1>4, <1>5, <1>6, <1>7 DEF ApplicationsInv

\* A late append: its Application is under quarantine and nobody appends to it.
LEMMA LateApart ==
    ASSUME ServiceInv, ApplicationsInv, NEW a \in Applications, LateMove(a), Aside
    PROVE  ApplicationsInv'
<1>1. /\ page' \in [Applications -> Pages] /\ Grows(page, page')
      /\ \A b \in Applications \ {a} : page'[b] = page[b]
      /\ page[a].late > 0 /\ page'[a].bodies >= page[a].bodies
      /\ page'[a].bodies + page'[a].late <= page[a].bodies + page[a].late
      /\ UNCHANGED <<storeVars, worker, starter, faults>>
  BY LateMoves
<1>2. page \in [Applications -> Pages]
  BY RowsAreTyped DEF ServiceInv, RowsOK
<1>3. UNCHANGED <<runs, candidates, calls, quarantine, worker, starter>>
  BY <1>1 DEF storeVars
<1>4. a \in quarantine /\ Appending(a) = {} /\ page[a].bodies + page[a].late <= 1
  <2>1. page[a].late \in Nat
    BY <1>2 DEF Pages
  <2>2. page[a].late # 0
    BY <1>1, <2>1
  <2>3. QED  BY <1>1, <2>2 DEF ApplicationsInv, AppendsApart
<1>5. \A b \in Applications : Appending(b)' = Appending(b)
  BY <1>3 DEF Appending
<1>6. AppendsApart'
  <2>1. ASSUME NEW b \in Applications
        PROVE  /\ page'[b].bodies + page'[b].late <= 1
               /\ page'[b].late > 0 => b \in quarantine
               /\ \A w \in Appending(b) :
                     /\ b \in quarantine /\ page'[b].bodies = 0 /\ page'[b].late = 0
                     /\ \A v \in Appending(b) : v = w
                     /\ \A c \in Calls :
                           calls[c].application = b => calls[c].result # "commit_unknown"
    <3>1. CASE b = a
      <4>1. /\ page[a].late \in Nat /\ page[a].bodies \in Nat
            /\ page'[a].late \in Nat /\ page'[a].bodies \in Nat
        BY <1>1, <1>2 DEF Pages
      <4>2. page'[a].bodies + page'[a].late <= 1
        BY <1>1, <1>4, <4>1
      <4>3. QED  BY <1>4, <3>1, <4>2
    <3>2. CASE b # a
      BY <1>1, <3>2 DEF ApplicationsInv, AppendsApart
    <3>3. QED  BY <3>1, <3>2
  <2>2. QED  BY <1>3, <1>5, <2>1 DEF AppendsApart
<1>7. \A b \in Applications : page[b].bodies > 0 => page'[b].bodies > 0
  BY <1>1, <1>2 DEF Grows, Pages
<1>8. DraftsShow'
  BY <1>3, <1>7 DEF ApplicationsInv, DraftsShow, ServiceInv, StoreInv, CallsHaveRuns
<1>9. PendingUntouched' /\ StartAlone'
  BY <1>3 DEF ApplicationsInv, PendingUntouched, StartAlone, NoActiveRun, Unfinished
<1>10. LeadersBuy'
  <2>1. ASSUME NEW w \in Workers, Leads(w)' PROVE Buying(worker[w], page', quarantine, calls)
    <3>1. Leads(w)
      BY <2>1 DEF Aside, LeadersStand
    <3>2. Buying(worker[w], page, quarantine, calls)
      BY <3>1 DEF ApplicationsInv, LeadersBuy
    <3>3. worker[w].pc \in Evaluates => worker[w].app \in Applications
      BY DEF ServiceInv, LocatedAll, Located
    <3>4. worker[w].pc \in Evaluates /\ worker[w].app # a =>
              page'[worker[w].app] = page[worker[w].app]
      BY <1>1, <3>3
    <3>5. QED  BY <1>4, <1>7, <3>2, <3>3, <3>4 DEF Buying, Evaluates
  <2>2. QED  BY <1>3, <2>1 DEF LeadersBuy
<1>11. NoSecondPurchase'
  BY <1>3 DEF ApplicationsInv, NoSecondPurchase
<1>12. QED  BY <1>6, <1>8, <1>9, <1>10, <1>11 DEF ApplicationsInv

\* Every step beside the passes keeps the invariant of the service.
LEMMA RequestsServed ==
    ASSUME ServiceInv, NEW s \in Starters, StarterStep(s)
    PROVE  ServiceInv'
  BY StartRequestAside, StartReconcileAside, StartListAside, StartCreateAside, AsideServed
  DEF StarterStep

LEMMA OthersServed ==
    ASSUME ServiceInv,
           \/ \E r \in Runs : Cancel(r)
           \/ \E a \in Applications : QueueView(a) \/ LandLate(a) \/ LoseLate(a)
           \/ FreeTick
           \/ StallTick
    PROVE  ServiceInv'
<1>1. CASE \E r \in Runs : Cancel(r)
  BY <1>1, CancelAside, AsideServed
<1>2. CASE \E a \in Applications : QueueView(a) \/ LandLate(a) \/ LoseLate(a)
  BY <1>2, QueueViewAside, LateAside, AsideServed DEF LateMove
<1>3. CASE FreeTick
  BY <1>3, TickAside, RequestsAreTyped, AsideServed DEF FreeTick, serviceVars
<1>4. CASE StallTick
  BY <1>4, TickAside, OneMoreFault, AsideServed DEF StallTick
<1>5. QED  BY <1>1, <1>2, <1>3, <1>4

\* While there is one start request at a time they keep what holds of the
\* Applications too.
LEMMA RequestsAgreed ==
    ASSUME ServiceInv, ApplicationsInv, OneStarter, NEW s \in Starters, StarterStep(s)
    PROVE  ApplicationsInv'
<1>1. starter \in [Starters -> StarterRows]
  BY RequestsAreTyped
<1>2. \A t \in Starters : t = s
  BY DEF OneStarter
<1>3. CASE StartRequest(s)
  <2>1. /\ NoActiveRun /\ UNCHANGED <<storeVars, page>>
        /\ starter' = [starter EXCEPT ![s].pc = "reconcile", ![s].todo = quarantine]
    BY <1>3 DEF StartRequest
  <2>2. starter'[s].pc = "reconcile"
    BY <1>1, <2>1 DEF StarterRows
  <2>3. UNCHANGED <<runs, candidates, quarantine>>
    BY <2>1 DEF storeVars
  <2>4. StartAlone'
    BY <1>2, <2>1, <2>2, <2>3 DEF StartAlone, NoActiveRun, Unfinished
  <2>5. PendingUntouched'
    BY <2>3 DEF ApplicationsInv, PendingUntouched, Unfinished
  <2>6. QED  BY <1>3, <2>1, <2>3, <2>4, <2>5, StartRequestAside, AsideApart
<1>4. CASE StartReconcile(s)
  <2>1. PICK a \in starter[s].todo :
            /\ IF Blank(a) THEN UNCHANGED storeVars
                           ELSE ClearCommitQuarantine(a) \/ UNCHANGED storeVars
            /\ starter' = [starter EXCEPT ![s].todo = @ \ {a}]
    BY <1>4 DEF StartReconcile
  <2>2. starter[s].pc = "reconcile" /\ UNCHANGED page
    BY <1>4 DEF StartReconcile
  <2>3. starter'[s].pc = "reconcile"
    BY <1>1, <2>1, <2>2 DEF StarterRows
  <2>4. a \in Applications /\ page[a].bodies \in Nat
    BY <1>1, RowsAreTyped DEF StarterRows, ServiceInv, RowsOK, Pages
  <2>5. /\ UNCHANGED <<runs, candidates>> /\ quarantine' \subseteq quarantine
        /\ \A b \in quarantine \ quarantine' : page[b].bodies > 0
    BY <2>1, <2>4 DEF storeVars, ClearCommitQuarantine, Blank
  <2>6. NoActiveRun
    BY <2>2 DEF ApplicationsInv, StartAlone
  <2>7. StartAlone'
    BY <1>2, <2>3, <2>5, <2>6 DEF StartAlone, NoActiveRun, Unfinished
  <2>8. PendingUntouched'
    BY <2>5 DEF ApplicationsInv, PendingUntouched, Unfinished
  <2>9. QED  BY <1>4, <2>2, <2>5, <2>7, <2>8, StartReconcileAside, AsideApart
<1>5. CASE StartList(s)
  <2>1. /\ starter[s].pc = "reconcile" /\ UNCHANGED <<storeVars, page>>
        /\ starter' = [starter EXCEPT ![s].pc = "snapshot", ![s].seen = quarantine]
    BY <1>5 DEF StartList
  <2>2. starter'[s].pc = "snapshot" /\ starter'[s].seen = quarantine
    BY <1>1, <2>1 DEF StarterRows
  <2>3. UNCHANGED <<runs, candidates, quarantine>>
    BY <2>1 DEF storeVars
  <2>4. NoActiveRun
    BY <2>1 DEF ApplicationsInv, StartAlone
  <2>5. StartAlone'
    BY <1>2, <2>2, <2>3, <2>4 DEF StartAlone, NoActiveRun, Unfinished
  <2>6. PendingUntouched'
    BY <2>3 DEF ApplicationsInv, PendingUntouched, Unfinished
  <2>7. QED  BY <1>5, <2>1, <2>3, <2>5, <2>6, StartListAside, AsideApart
<1>6. CASE StartCreate(s)
  <2>1. /\ UNCHANGED <<worker, page, faults>>
        /\ starter[s].pc = "snapshot" /\ starter' = [starter EXCEPT ![s] = NoRequest]
        /\ \/ UNCHANGED storeVars
           \/ \E r \in Runs, queue \in Queues :
                 Creates(r, queue) /\ Range(queue) \subseteq Applications \ starter[s].seen
    BY <1>6, StartCreates
  <2>2. starter'[s].pc = "idle"
    BY <1>1, <2>1 DEF NoRequest
  <2>3. StartAlone'
    BY <1>2, <2>2 DEF StartAlone
  <2>4. UNCHANGED quarantine
    BY <2>1 DEF storeVars, Creates
  <2>5. PendingUntouched'
    <3>1. CASE UNCHANGED storeVars
      BY <3>1 DEF storeVars, ApplicationsInv, PendingUntouched, Unfinished
    <3>2. ASSUME NEW r \in Runs, NEW queue \in Queues, Creates(r, queue),
                 Range(queue) \subseteq Applications \ starter[s].seen
          PROVE  PendingUntouched'
      <4>1. quarantine \subseteq starter[s].seen
        BY <2>1 DEF ApplicationsInv, StartAlone
      <4>2. ASSUME NEW q \in Runs, NEW a \in Applications, Unfinished(q)',
                   candidates'[q][a] = "pending"
            PROVE  a \notin quarantine
        <5>1. q = r
          BY <3>2, <4>2 DEF Creates, NoActiveRun, Unfinished
        <5>2. a \in Range(queue)
          BY <3>2, <4>2, <5>1 DEF Creates
        <5>3. QED  BY <3>2, <4>1, <5>2
      <4>3. QED  BY <2>4, <4>2 DEF PendingUntouched
    <3>3. QED  BY <2>1, <3>1, <3>2
  <2>6. QED  BY <1>6, <2>1, <2>3, <2>4, <2>5, StartCreateAside, AsideApart
<1>7. QED  BY <1>3, <1>4, <1>5, <1>6 DEF StarterStep

LEMMA OthersAgreed ==
    ASSUME ServiceInv, ApplicationsInv,
           \/ \E r \in Runs : Cancel(r)
           \/ \E a \in Applications : QueueView(a) \/ LandLate(a) \/ LoseLate(a)
           \/ FreeTick
           \/ StallTick
    PROVE  ApplicationsInv'
<1>1. ASSUME NEW r \in Runs, Cancel(r) PROVE ApplicationsInv'
  <2>1. UNCHANGED <<page, starter, quarantine>>
    BY <1>1 DEF Cancel, RequestCancellation, serviceVars
  <2>2. QED  BY <1>1, <2>1, CancelAside, QuarantineShrinks, AsideApart
<1>2. ASSUME NEW a \in Applications, QueueView(a) PROVE ApplicationsInv'
  <2>1. /\ UNCHANGED <<page, starter, runs, candidates>> /\ quarantine' = quarantine \ {a}
        /\ page[a].bodies # 0 /\ page[a].bodies \in Nat
    BY <1>2, RowsAreTyped
    DEF QueueView, ClearCommitQuarantine, serviceVars, Blank, ServiceInv, RowsOK, Pages
  <2>2. NothingNew
    BY <2>1, StandingIsNothingNew
  <2>3. \A b \in quarantine \ quarantine' : page[b].bodies > 0
    BY <2>1
  <2>4. QED  BY <1>2, <2>1, <2>2, <2>3, QueueViewAside, QuarantineShrinks, AsideApart
<1>3. ASSUME NEW a \in Applications, LateMove(a) PROVE ApplicationsInv'
  BY <1>3, LateAside, LateApart
<1>4. ASSUME Tick, UNCHANGED <<worker, page, starter>>, faults' \in 0..MaxFaults
      PROVE  ApplicationsInv'
  <2>1. UNCHANGED quarantine
    BY <1>4 DEF Tick
  <2>2. QED  BY <1>4, <2>1, TickAside, QuarantineShrinks, AsideApart
<1>5. CASE FreeTick
  BY <1>4, <1>5, RequestsAreTyped DEF FreeTick, serviceVars
<1>6. CASE StallTick
  BY <1>4, <1>6, OneMoreFault DEF StallTick
<1>7. QED  BY <1>1, <1>2, <1>3, <1>5, <1>6 DEF LateMove

-----------------------------------------------------------------------------
(* A worker's step keeps the invariants                                    *)

LEMMA WorkerServed ==
    ASSUME ServiceInv, NEW w \in Workers, Stepped(w)
    PROVE  ServiceInv'
<1>1. StoreNext \/ UNCHANGED storeVars
  BY DEF Stepped
<1>2. (StoreInv /\ SpendInv /\ ProgressIsCounted /\ TransmissionsInOrder)'
  BY <1>1, StoreKept
<1>3. worker \in [Workers -> WorkerRows] /\ page \in [Applications -> Pages]
  BY RowsAreTyped DEF ServiceInv, RowsOK
<1>4. worker' \in [Workers -> WorkerRows] /\ \A v \in Workers \ {w} : worker'[v] = worker[v]
  BY <1>3 DEF Stepped
<1>5. RunsTypeOK'
  <2>1. StoreTypeOK'
    BY <1>2 DEF StoreInv
  <2>2. page' \in [Applications -> Pages] /\ UNCHANGED starter /\ faults' \in 0..MaxFaults
    BY DEF Stepped
  <2>3. starter \in [Starters -> StarterRows]
    BY RequestsAreTyped
  <2>4. QED
    BY <1>4, <2>1, <2>2, <2>3
    DEF RunsTypeOK, WorkerRows, RowsGiving, VerdictRows, Pages, StarterRows
<1>6. Keeps(calls, calls')
  BY <1>1, CallsKept DEF ServiceInv
<1>7. LocatedAll'
  <2>1. ASSUME NEW v \in Workers PROVE Located(worker'[v], calls')
    <3>1. CASE v = w
      BY <3>1 DEF Stepped
    <3>2. CASE v # w
      BY <1>3, <1>4, <1>6, <3>2, LocatedKept DEF ServiceInv, LocatedAll
    <3>3. QED  BY <3>1, <3>2
  <2>2. QED  BY <2>1 DEF LocatedAll
<1>8. SeenAll'
  <2>1. ASSUME NEW v \in Workers PROVE Seen(worker'[v], page')
    <3>1. CASE v = w
      BY <3>1 DEF Stepped
    <3>2. CASE v # w
      <4>1. Located(worker[v], calls) /\ Seen(worker[v], page)
        BY DEF ServiceInv, LocatedAll, SeenAll
      <4>2. page' \in [Applications -> Pages] /\ Grows(page, page')
        BY DEF Stepped
      <4>3. Seen(worker[v], page')
        BY <1>3, <4>1, <4>2, SeenKept
      <4>4. QED  BY <1>4, <3>2, <4>3
    <3>3. QED  BY <3>1, <3>2
  <2>2. QED  BY <2>1 DEF SeenAll
<1>9. LeadersKnow'
  <2>1. ASSUME NEW v \in Workers, Leads(v)'
        PROVE  Leading(worker'[v], runs'[worker'[v].run], candidates'[worker'[v].run])
    <3>1. CASE v = w
      BY <2>1, <3>1 DEF Stepped
    <3>2. CASE v # w
      <4>1. ~Fenced(w) /\ worker'[v] = worker[v]
        BY <1>4, <2>1, <3>2, NobodyElseLeads
      <4>2. UNCHANGED <<runs, candidates, calls>>
        BY <4>1 DEF Stepped
      <4>3. Leads(v)
        BY <2>1, <4>1, <4>2 DEF Leads, Busy, Mine, CurrentLease
      <4>4. Leading(worker[v], runs[worker[v].run], candidates[worker[v].run])
        BY <4>3 DEF ServiceInv, LeadersKnow, Mine
      <4>5. QED  BY <4>1, <4>2, <4>4
    <3>3. QED  BY <3>1, <3>2
  <2>2. QED  BY <2>1 DEF LeadersKnow, Mine
<1>10. QED  BY <1>2, <1>5, <1>7, <1>8, <1>9 DEF ServiceInv, Stepped

\* A call is only sent for a candidate nothing was bought for: then no call
\* follows one that bought a draft.
LEMMA NoSecondStep ==
    ASSUME ServiceInv, StoreNext \/ UNCHANGED storeVars, NoSecondPurchase, SendsUnspent
    PROVE  NoSecondPurchase'
<1>1. CASE UNCHANGED storeVars
  BY <1>1 DEF storeVars, NoSecondPurchase
<1>2. CASE StoreNext
  <2>1. StoreInv /\ StoreTypeOK /\ CallsHaveRuns /\ TransmissionsInOrder
    BY DEF ServiceInv, StoreInv
  <2>2. CallsMove
    BY <1>2, <2>1, CallsMoveByKinds
  <2>3. \A c \in Calls : calls[c].slot \in Nat /\ calls'[c].slot \in Nat
    <3>1. StoreTypeOK'
      BY <1>2, <2>1, InvStep DEF StoreInv
    <3>2. 0..TransmissionLimit \subseteq Nat
      BY StoreAssumption
    <3>3. \A c \in Calls : calls[c].slot \in 0..TransmissionLimit /\ calls'[c].slot \in 0..TransmissionLimit
      BY <2>1, <3>1 DEF StoreTypeOK, CallRows
    <3>4. QED  BY <3>2, <3>3
  <2>4. ASSUME NEW c \in Calls, NEW d \in Calls,
               calls'[c].run = calls'[d].run, calls'[c].application = calls'[d].application,
               0 < calls'[c].slot, calls'[c].slot < calls'[d].slot
        PROVE  ~Spent(calls'[c])
    <3>1. c # d /\ calls'[d].slot # 0 /\ calls'[c].slot # 0
      BY <2>3, <2>4
    <3>2. CASE Dispatched(d)
      <4>1. calls'[c] = calls[c] /\ KeepsCandidate(d)
        BY <2>2, <3>1, <3>2 DEF CallsMove, Dispatched
      <4>2. Unspent(calls, calls[d].run, calls[d].application, d)
        BY <3>2 DEF SendsUnspent
      <4>3. QED  BY <2>4, <3>1, <4>1, <4>2 DEF Unspent, KeepsCandidate
    <3>3. CASE calls'[d] = calls[d] \/ Decided(d)
      <4>1. calls'[d].slot = calls[d].slot /\ KeepsCandidate(d)
        BY <3>3 DEF Decided, KeepsCandidate
      <4>2. CASE calls'[c] = calls[c]
        BY <2>4, <4>1, <4>2 DEF NoSecondPurchase, KeepsCandidate, Spent
      <4>3. CASE Decided(c)
        <5>1. OfOneCandidate(calls, c, d) /\ calls[c].slot = calls'[c].slot
          BY <2>4, <4>1, <4>3 DEF Decided, KeepsCandidate, OfOneCandidate
        <5>2. calls[d].slot < calls[c].slot
          BY <2>1, <3>1, <4>3, <5>1 DEF TransmissionsInOrder, LastInFlight, Decided
        <5>3. QED  BY <2>3, <2>4, <4>1, <5>1, <5>2
      <4>4. CASE Dispatched(c)
        <5>1. OfOneCandidate(calls, c, d)
          BY <2>4, <4>1, <4>4 DEF Dispatched, KeepsCandidate, OfOneCandidate
        <5>2. calls[d].slot < calls'[c].slot
          BY <2>1, <3>1, <4>4, <5>1, DispatchedLast
        <5>3. QED  BY <2>3, <2>4, <4>1, <5>2
      <4>5. QED
        BY <2>2, <3>1, <4>2, <4>3, <4>4 DEF CallsMove, Reserved, GivenBack
    <3>4. QED
      BY <2>2, <3>1, <3>2, <3>3 DEF CallsMove, Reserved, GivenBack
  <2>5. QED  BY <2>4 DEF NoSecondPurchase, Spent
<1>3. QED  BY <1>1, <1>2

LEMMA WorkerApplications ==
    ASSUME ServiceInv, ApplicationsInv, NEW w \in Workers, Stepped(w), Agreed(w)
    PROVE  ApplicationsInv'
<1>1. /\ AppendsApart' /\ DraftsShow'
      /\ PendingUntouched' /\ StartAlone'
      /\ StillBuying(w) /\ SendsUnspent
      /\ \/ Fenced(w)
         \/ \A a \in Applications \ quarantine :
               a \notin quarantine' /\ page'[a].bodies = page[a].bodies
  BY DEF Agreed
<1>2. NoSecondPurchase'
  BY <1>1, NoSecondStep DEF ApplicationsInv, Stepped
<1>3. worker \in [Workers -> WorkerRows] /\ page \in [Applications -> Pages]
  BY RowsAreTyped DEF ServiceInv, RowsOK
<1>4. \A v \in Workers \ {w} : worker'[v] = worker[v]
  BY <1>3 DEF Stepped
<1>5. \A a \in Applications : page[a].bodies > 0 => page'[a].bodies > 0
  BY <1>3 DEF Stepped, Grows, Pages
<1>6. LeadersBuy'
  <2>1. ASSUME NEW v \in Workers, Leads(v)'
        PROVE  Buying(worker'[v], page', quarantine', calls')
    <3>1. CASE v = w
      BY <1>1, <2>1, <3>1 DEF StillBuying
    <3>2. CASE v # w
      <4>1. ~Fenced(w) /\ worker'[v] = worker[v]
        BY <1>4, <2>1, <3>2, NobodyElseLeads
      <4>2. UNCHANGED <<runs, candidates, calls>>
        BY <4>1 DEF Stepped
      <4>3. Leads(v)
        BY <2>1, <4>1, <4>2 DEF Leads, Busy, Mine, CurrentLease
      <4>4. Buying(worker[v], page, quarantine, calls)
        BY <4>3 DEF ApplicationsInv, LeadersBuy
      <4>5. worker[v].pc \in Evaluates => worker[v].app \in Applications
        BY DEF ServiceInv, LocatedAll, Located
      <4>6. worker[v].pc \in Evaluates /\ worker[v].app \notin quarantine =>
                /\ worker[v].app \notin quarantine'
                /\ page'[worker[v].app].bodies = page[worker[v].app].bodies
        BY <1>1, <4>1, <4>5
      <4>7. Buying(worker[v], page', quarantine', calls)
        BY <1>5, <4>4, <4>5, <4>6 DEF Buying, Evaluates
      <4>8. QED  BY <4>1, <4>2, <4>7
    <3>3. QED  BY <3>1, <3>2
  <2>2. QED  BY <2>1 DEF LeadersBuy
<1>7. QED  BY <1>1, <1>2, <1>6 DEF ApplicationsInv

-----------------------------------------------------------------------------
(* The theorems                                                            *)

LEMMA ServiceInit == Init => ServiceInv
<1> SUFFICES ASSUME Init PROVE ServiceInv
  OBVIOUS
<1>1. /\ runs = [r \in Runs |-> NoRun]
      /\ candidates = [r \in Runs |-> [a \in Applications |-> "absent"]]
      /\ worker = [w \in Workers |-> AtRest]
      /\ page \in [Applications -> {BlankPage, AnalyzedPage}]
      /\ starter = [s \in Starters |-> NoRequest]
      /\ faults = 0 /\ StoreInit
  BY DEF Init, StoreInit
<1>2. StoreInv /\ SpendInv /\ TransmissionsInOrder
  BY <1>1, InvInit, SpendInit, InOrderInit
<1>3. ProgressIsCounted
  <2>1. ASSUME NEW r \in Runs PROVE CompletionCount(candidates[r]) = 0
    <3>1. {a \in Applications : candidates[r][a] \in {"analyzed", "repaired"}} = {}
      BY <1>1
    <3>2. QED  BY <3>1, FS_EmptySet, Zenon DEF CompletionCount
  <2>2. QED  BY <1>1, <2>1 DEF ProgressIsCounted, NoRun
<1>4. RunsTypeOK
  <2>1. worker \in [Workers -> WorkerRows]
    BY <1>1, RestFields
  <2>2. page \in [Applications -> Pages]
    <3>1. BlankPage \in Pages /\ AnalyzedPage \in Pages
      BY DEF Pages, BlankPage, AnalyzedPage
    <3>2. QED  BY <1>1, <3>1
  <2>3. starter \in [Starters -> StarterRows]
    BY <1>1 DEF NoRequest, StarterRows
  <2>4. StoreTypeOK /\ faults \in 0..MaxFaults
    BY <1>1, <1>2, RunsAssumption DEF StoreInv
  <2>5. QED
    BY <2>1, <2>2, <2>3, <2>4
    DEF RunsTypeOK, WorkerRows, RowsGiving, VerdictRows, Pages, StarterRows
<1>5. LocatedAll /\ SeenAll
  BY <1>1, RestKnows DEF LocatedAll, SeenAll
<1>6. LeadersKnow
  BY <1>1, RestFields DEF LeadersKnow, Leads, Busy
<1>7. RunsAccounted
  <2>1. ASSUME NEW r \in Runs PROVE RunAccount(runs[r], candidates[r])
    <3>1. runs[r] = NoRun /\ candidates[r] = [a \in Applications |-> "absent"]
      BY <1>1
    <3>2. \A a \in Applications : candidates[r][a] = "absent"
      BY <3>1
    <3>3. QED  BY <3>1, <3>2 DEF RunAccount, NoRun
  <2>2. QED  BY <2>1 DEF RunsAccounted
<1>8. ResultsMatchNotion
  BY <1>1 DEF ResultsMatchNotion
<1>9. QED  BY <1>2, <1>3, <1>4, <1>5, <1>6, <1>7, <1>8 DEF ServiceInv

LEMMA ServiceStep == ServiceInv /\ [Next]_vars => ServiceInv'
<1> SUFFICES ASSUME ServiceInv, [Next]_vars PROVE ServiceInv'
  OBVIOUS
<1>1. ASSUME NEW w \in Workers, WorkerStep(w) \/ Crash(w) \/ Stop(w) PROVE ServiceInv'
  BY <1>1, WorkerAgreed, WorkerServed
<1>2. ASSUME NEW s \in Starters, StarterStep(s) PROVE ServiceInv'
  BY <1>2, RequestsServed
<1>3. CASE UNCHANGED vars
  <2>1. UNCHANGED <<storeVars, runs, candidates, calls, worker, page, starter, faults>>
    BY <1>3 DEF vars, storeVars, serviceVars
  <2>2. page' \in [Applications -> Pages] /\ Grows(page, page')
    BY <2>1, GrowsItself
  <2>3. QED  BY <2>1, <2>2, RequestsAreTyped, StandingAside, AsideServed
<1>4. QED  BY <1>1, <1>2, <1>3, OthersServed DEF Next

LEMMA ServiceSafety == Spec => []ServiceInv
<1>1. QED  BY ServiceInit, ServiceStep, PTL DEF Spec

\* The service and its workers do to the store only what the store allows any
\* caller, so every theorem of the store holds of them: the ceiling and the
\* ledger of the spend, one run, one candidate and one call at a time, results,
\* cancellations and finished runs that stand, and the fence of the lease.
THEOREM ServiceKeepsStore == Spec => StoreSpec
<1>1. Init => StoreInit
  BY DEF Init
<1>2. ServiceInv /\ [Next]_vars => [StoreNext]_storeVars
  <2> SUFFICES ASSUME ServiceInv, [Next]_vars PROVE StoreNext \/ UNCHANGED storeVars
    OBVIOUS
  <2>1. ASSUME NEW w \in Workers, WorkerStep(w) \/ Crash(w) \/ Stop(w)
        PROVE  StoreNext \/ UNCHANGED storeVars
    BY <2>1, WorkerAgreed DEF Stepped
  <2>2. ASSUME NEW s \in Starters, StarterStep(s) PROVE StoreNext \/ UNCHANGED storeVars
    BY <2>2, StartRequestAside, StartReconcileAside, StartListAside, StartCreateAside
    DEF StarterStep, Aside
  <2>3. CASE \E r \in Runs : Cancel(r)
    BY <2>3, CancelAside DEF Aside
  <2>4. CASE \E a \in Applications : QueueView(a) \/ LandLate(a) \/ LoseLate(a)
    BY <2>4, QueueViewAside, LateAside DEF Aside, LateMove
  <2>5. CASE FreeTick \/ StallTick
    BY <2>5 DEF FreeTick, StallTick, StoreNext
  <2>6. CASE UNCHANGED vars
    BY <2>6 DEF vars
  <2>7. QED  BY <2>1, <2>2, <2>3, <2>4, <2>5, <2>6 DEF Next
<1>3. QED  BY <1>1, <1>2, ServiceSafety, PTL DEF Spec, StoreSpec

\* The workers' locals, the pages and the requests keep their types.
THEOREM RunsStayTyped == Spec => []RunsTypeOK
<1>1. QED  BY ServiceSafety, PTL DEF ServiceInv

\* A completion a run counts is one Notion shows, whichever worker recorded it
\* and whatever it found out about the page before its lease was lost.
THEOREM ResultsStayMatched == Spec => []ResultsMatchNotion
<1>1. QED  BY ServiceSafety, PTL DEF ServiceInv

\* A run never completes more Applications than its target: a candidate is only
\* taken while the target is not met, and there is one under evaluation.
THEOREM TargetsAreKept == Spec => []TargetNotExceeded
<1>1. ServiceInv => TargetNotExceeded
  BY DEF ServiceInv, RunsAccounted, RunAccount, TargetNotExceeded
<1>2. QED  BY <1>1, ServiceSafety, PTL

\* What a finished run says of itself is true: it met its target exactly, or
\* each of its candidates has a result and the budget is blamed when the queue
\* was cut, although a cancellation can overtake the worker that decided it.
THEOREM OutcomesAreEarned == Spec => []OutcomeIsEarned
<1>1. ServiceInv => OutcomeIsEarned
  BY DEF ServiceInv, RunsAccounted, RunAccount, AllDecided, OutcomeIsEarned
<1>2. QED  BY <1>1, ServiceSafety, PTL

LEMMA ApplicationsInit == Init => ApplicationsInv
<1> SUFFICES ASSUME Init PROVE ApplicationsInv
  OBVIOUS
<1>1. /\ calls = [c \in Calls |-> NoCall]
      /\ candidates = [r \in Runs |-> [a \in Applications |-> "absent"]]
      /\ worker = [w \in Workers |-> AtRest]
      /\ page \in [Applications -> {BlankPage, AnalyzedPage}]
      /\ starter = [s \in Starters |-> NoRequest]
  BY DEF Init, StoreInit
<1>2. AppendsApart
  <2>1. \A a \in Applications : Appending(a) = {}
    BY <1>1, RestFields DEF Appending
  <2>2. \A a \in Applications : page[a].bodies \in {0, 1} /\ page[a].late = 0
    BY <1>1 DEF BlankPage, AnalyzedPage
  <2>3. QED  BY <2>1, <2>2 DEF AppendsApart
<1>3. DraftsShow /\ NoSecondPurchase
  BY <1>1 DEF DraftsShow, NoSecondPurchase, NoCall
<1>4. PendingUntouched /\ StartAlone
  BY <1>1 DEF PendingUntouched, StartAlone, NoRequest
<1>5. LeadersBuy
  BY <1>1, RestFields DEF LeadersBuy, Leads, Busy
<1>6. QED  BY <1>2, <1>3, <1>4, <1>5 DEF ApplicationsInv

LEMMA ApplicationsStep ==
    ASSUME OneStarter
    PROVE  ServiceInv /\ ApplicationsInv /\ [Next]_vars => ApplicationsInv'
<1> SUFFICES ASSUME ServiceInv, ApplicationsInv, [Next]_vars PROVE ApplicationsInv'
  OBVIOUS
<1>1. ASSUME NEW w \in Workers, WorkerStep(w) \/ Crash(w) \/ Stop(w) PROVE ApplicationsInv'
  BY <1>1, WorkerAgreed, WorkerApplications
<1>2. ASSUME NEW s \in Starters, StarterStep(s) PROVE ApplicationsInv'
  BY <1>2, RequestsAgreed
<1>3. CASE UNCHANGED vars
  <2>1. UNCHANGED <<storeVars, runs, candidates, calls, quarantine, worker, page, starter, faults>>
    BY <1>3 DEF vars, storeVars, serviceVars
  <2>2. page' \in [Applications -> Pages] /\ Grows(page, page')
    BY <2>1, GrowsItself
  <2>3. Aside
    BY <2>1, <2>2, RequestsAreTyped, StandingAside
  <2>4. NothingNew
    BY <2>1, StandingIsNothingNew
  <2>5. QED  BY <2>1, <2>3, <2>4, QuarantineShrinks, AsideApart
<1>4. QED  BY <1>1, <1>2, <1>3, OthersAgreed DEF Next

LEMMA ApplicationsSafety ==
    ASSUME OneStarter
    PROVE  Spec => []ApplicationsInv
<1>1. ServiceInv /\ ApplicationsInv /\ [Next]_vars => ApplicationsInv'
  BY ApplicationsStep
<1>2. QED  BY <1>1, ApplicationsInit, ServiceSafety, PTL DEF Spec

\* While an append may still take effect, whoever gave it up, its Application
\* is under quarantine.
THEOREM OutstandingAppendsAreQuarantined ==
    ASSUME OneStarter
    PROVE  Spec => []OutstandingAppendIsQuarantined
<1>1. ApplicationsInv => OutstandingAppendIsQuarantined
  BY DEF ApplicationsInv, AppendsApart, Appending, OutstandingAppendIsQuarantined
<1>2. QED  BY <1>1, ApplicationsSafety, PTL

\* However runs, retries, crashes and late answers follow each other, no
\* Application is given a second Analysis body, as long as start requests come
\* one at a time.
THEOREM OneBodyPerApplication ==
    ASSUME OneStarter
    PROVE  Spec => []OneAnalysisBody
<1>1. ServiceInv /\ ApplicationsInv => OneAnalysisBody
  <2> SUFFICES ASSUME ServiceInv, ApplicationsInv, NEW a \in Applications
               PROVE  page[a].bodies <= 1
    BY DEF OneAnalysisBody
  <2>1. page[a].bodies \in Nat /\ page[a].late \in Nat
    BY RowsAreTyped DEF ServiceInv, RowsOK, Pages
  <2>2. page[a].bodies + page[a].late <= 1
    BY DEF ApplicationsInv, AppendsApart
  <2>3. QED  BY <2>1, <2>2
<1>2. QED  BY <1>1, ServiceSafety, ApplicationsSafety, PTL

\* Once a run paid for a draft of an Application it never buys another.
THEOREM NeverBuysTwice ==
    ASSUME OneStarter
    PROVE  Spec => []NoSecondPurchase
<1>1. ApplicationsInv => NoSecondPurchase
  BY DEF ApplicationsInv
<1>2. QED  BY <1>1, ApplicationsSafety, PTL

===============================================================================
