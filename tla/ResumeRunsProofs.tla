--------------------------- MODULE ResumeRunsProofs ---------------------------
(***************************************************************************)
(* Theorems about ResumeRuns: what the Resume Runs leave in the store, in  *)
(* Notion and on disk, for every queue, any number of interferences and    *)
(* every place a crash can be at.                                          *)
(***************************************************************************)
EXTENDS ResumeRuns, ResumeRunStoreProofs

-----------------------------------------------------------------------------
(* The inductive invariant                                                 *)

WorkerRows ==
    [pc : WorkerPcs, run : Runs \cup {"none"}, todo : Seq(Applications),
     seen : Nat \X SUBSET Runs, stage : Nat, tries : {0, 1}, doubt : BOOLEAN,
     reason : CandidateReasons]

ArtRows == [resume : Pages, linked : BOOLEAN, note : Pages, pdf : BOOLEAN]

EntryRows ==
    [app : Applications \cup {"none"}, resume : BOOLEAN, pdf : BOOLEAN, note : BOOLEAN,
     resolution : {"none", "active", "completed", "cleaned"}]

\* The types of what is not in the store.
ProcessTypeOK ==
    /\ starter \in [pc : {"none", "selected"}, queue : Seq(Applications),
                    target : Targets \cup {0}, exhausted : BOOLEAN]
    /\ wake \in BOOLEAN
    /\ worker \in WorkerRows
    /\ server \in [state : {"down", "reconciling", "up"}, entries : SUBSET Runs]
    /\ apps \in [Applications -> [version : Nat, kind : {"ready", "low", "unreadable"}]]
    /\ art \in [Runs -> [Applications -> ArtRows]]
    /\ journal \in [Runs -> EntryRows]
    /\ faults \in 0..MaxFaults

\* An Application is edited at most once for each interference.
EditsAreFaults == \A a \in Applications : apps[a].version \in 1..(faults + 1)

\* Every call asks for Reservation.
CallsBounded ==
    \A c \in CallIds : calls[c].reservation <= Reservation /\ calls[c].cost <= Reservation

\* Runs come one after the other, and what has not begun has left nothing.
RunsInTurn ==
    /\ \A q, r \in Runs : Unfinished(q) /\ Unfinished(r) => q = r
    /\ \A r \in Runs : runs[r].lifecycle = "absent" =>
          \A a \in Applications : candidates[r][a] = NoCandidate

\* An admission proves that nothing was related to the Application.
ProofsAreFresh ==
    \A r \in Runs, a \in Applications :
        candidates[r][a].proof # NoProof => candidates[r][a].proof[2] = {}

\* What holds of the store by itself.
StoreInv ==
    /\ StoreTypeOK /\ SpendInv
    /\ CallsBounded /\ RunsInTurn /\ ProofsAreFresh

BuildPcs == {"build", "reserved", "dispatching", "recheck"}

CommitPcs ==
    {"intent", "resume", "resume_sent", "publish", "published", "note", "note_sent",
     "attach", "attach_sent", "complete"}

\* Where the worker is in a candidate the store agrees: the run is not over,
\* the candidate has no result.
WorkerInv ==
    LET r == worker.run  a == Candidate  state == candidates[r][a].state
    IN  /\ server.state # "up" => worker = Idle
        /\ worker.pc # "idle" => r \in Runs /\ runs[r].lifecycle \in {"running", "cancelling"}
        /\ worker.pc \notin {"idle", "next", "ending"} => worker.todo # <<>>
        /\ worker.pc \in {"first_read", "second_read"} => state = "pending"
        /\ worker.pc \in {"ineligible", "failing"} => state \in {"pending", "evaluating"}
        /\ worker.pc \in {"restore", "cleaning"} \cup BuildPcs \cup CommitPcs => state = "evaluating"
        /\ worker.pc \in BuildPcs => candidates[r][a].proof # NoProof
        /\ worker.pc \in {"build", "reserved", "dispatching"} => worker.stage \in 1..Len(Stages)
        /\ worker.pc \in {"reserved", "dispatching"} =>
              <<r, a, Stages[worker.stage], 1>> \in OnRecord(calls)

\* What the commit has made when the worker is at pc.
Made(made, pc) ==
    /\ made.resume = IF pc \in {"intent", "resume"} THEN "none" ELSE "live"
    /\ made.linked <=> pc \in {"attach_sent", "complete"}
    /\ made.note = IF pc \in {"note_sent", "attach", "attach_sent", "complete"}
                   THEN "live" ELSE "none"
    /\ made.pdf <=> pc \in {"published", "note", "note_sent", "attach", "attach_sent", "complete"}

\* The commit in progress and its journal entry.
CommitInv ==
    LET r == worker.run  a == Candidate
    IN  /\ worker.pc \in CommitPcs =>
              /\ candidates[r][a].set = "recoverable"
              /\ Made(art[r][a], worker.pc)
        /\ worker.pc \in CommitPcs \ {"attach_sent", "complete"} => Related(a) = {}
        /\ worker.pc \in (CommitPcs \ {"intent", "complete"}) \cup {"cleaning"} =>
              journal[r].app = a /\ journal[r].resolution = "active"
        /\ worker.pc \in {"publish", "published", "note", "note_sent", "attach", "attach_sent"} =>
              journal[r].resume
        /\ worker.pc = "cleaning" /\ ~worker.doubt => journal[r].resume
        /\ worker.pc = "complete" => journal[r].app = a /\ journal[r].resolution = "completed"

\* An entry names a candidate whose artifact work was begun and, while it is
\* unresolved, not completed.
JournalInv ==
    \A r \in Runs :
        /\ journal[r].resolution # "none" =>
              /\ journal[r].app \in Applications
              /\ candidates[r][journal[r].app].set # "none"
        /\ journal[r].resolution = "active" => candidates[r][journal[r].app].state # "completed"

\* Nothing is made before an Artifact Set is opened, and an Application has
\* one run at most that is related to it.
ArtInv ==
    /\ \A r \in Runs, a \in Applications :
          candidates[r][a].set = "none" => art[r][a] = NoArtifacts
    /\ \A a \in Applications : \A q, r \in Related(a) : q = r

\* What holds of the store, the journal and the artifacts together.
EffectsInv == JournalInv /\ ArtInv /\ CompletedIsWhole /\ CleanedIsUnrelated

\* Only startup works on the entries it found unresolved.
EntriesInv ==
    /\ server.state # "reconciling" => server.entries = {}
    /\ server.entries \subseteq Unresolved

RunsInv ==
    /\ ProcessTypeOK /\ EditsAreFaults
    /\ StoreInv /\ EffectsInv
    /\ EntriesInv /\ WorkerInv /\ CommitInv

\* SettledIsFinal, of one step.
Settles ==
    \A r \in Runs :
        /\ runs[r].lifecycle = "finished" =>
              runs'[r].lifecycle = "finished" /\ runs'[r].outcome = runs[r].outcome
        /\ \A a \in Applications :
              candidates[r][a].state \in TerminalCandidateStates =>
                  candidates'[r][a] = candidates[r][a]

-----------------------------------------------------------------------------
(* The order of a queue                                                    *)

\* Of a finite set of places, each number up to its size is the rank of one.
LEMMA NthExists ==
    ASSUME NEW L \in Nat, NEW S \in SUBSET (1..L), NEW n \in 1..Cardinality(S)
    PROVE  Nth(S, n) \in S
<1> DEFINE upTo(i) == {j \in S : j <= i}
           N == {i \in Nat : n <= Cardinality(upTo(i))}
<1>0. \A j \in S : j \in Nat /\ 1 <= j /\ j <= L
  OBVIOUS
<1>1. IsFiniteSet(S) /\ Cardinality(S) \in Nat
  <2>1. IsFiniteSet(1..L)
    BY FS_Interval
  <2>2. IsFiniteSet(S)
    BY <2>1, FS_Subset
  <2>3. QED  BY <2>2, FS_CardinalityType
<1>2. \A i \in Nat : IsFiniteSet(upTo(i)) /\ Cardinality(upTo(i)) \in Nat
  <2> SUFFICES ASSUME NEW i \in Nat PROVE IsFiniteSet(upTo(i)) /\ Cardinality(upTo(i)) \in Nat
    OBVIOUS
  <2>1. upTo(i) \in SUBSET S
    OBVIOUS
  <2>2. IsFiniteSet(upTo(i))
    BY <1>1, <2>1, FS_Subset
  <2>3. QED  BY <2>2, FS_CardinalityType
<1>3. L \in N
  <2>1. upTo(L) = S
    BY <1>0
  <2>2. QED  BY <2>1
<1>4. PICK m \in N : \A i \in N : m <= i
  <2>1. N \subseteq Nat /\ N # {}
    BY <1>3
  <2>2. QED  BY <2>1, LeastNatural
<1>5. m \in Nat /\ n <= Cardinality(upTo(m)) /\ n \in Nat \ {0}
  BY <1>1
<1>6. m # 0
  <2>1. \A j \in S : ~ (j <= 0)
    BY <1>0
  <2>2. upTo(0) = {}
    BY <2>1
  <2>3. Cardinality(upTo(0)) = 0
    BY <2>2, FS_EmptySet
  <2> HIDE DEF upTo
  <2>4. QED  BY <1>5, <2>3
<1>7. m - 1 \in Nat /\ Cardinality(upTo(m - 1)) < n
  <2>1. m - 1 \in Nat /\ ~ (m <= m - 1)
    BY <1>5, <1>6
  <2>2. m - 1 \notin N
    BY <1>4, <2>1
  <2>3. ~ (n <= Cardinality(upTo(m - 1)))
    BY <2>1, <2>2
  <2>4. Cardinality(upTo(m - 1)) \in Nat
    BY <1>2, <2>1
  <2> HIDE DEF upTo
  <2>5. QED  BY <1>5, <2>1, <2>3, <2>4
<1>8. \A j \in S : j <= m <=> j <= m - 1 \/ j = m
  BY <1>0, <1>5
<1>9. ~ (m <= m - 1)
  BY <1>5
<1>10. m \in S /\ Cardinality(upTo(m)) = n
  <2>1. CASE m \notin S
    <3>1. upTo(m) = upTo(m - 1)
      BY <1>8, <2>1
    <3> HIDE DEF upTo
    <3>2. QED  BY <1>2, <1>5, <1>7, <3>1
  <2>2. CASE m \in S
    <3>1. upTo(m) = upTo(m - 1) \cup {m} /\ m \notin upTo(m - 1)
      BY <1>8, <1>9, <2>2
    <3> HIDE DEF upTo
    <3>2. Cardinality(upTo(m)) = Cardinality(upTo(m - 1)) + 1
      BY <1>2, <1>7, <3>1, FS_AddElement
    <3>3. QED  BY <1>2, <1>5, <1>7, <2>2, <3>2
  <2>3. QED  BY <2>1, <2>2
<1>11. \E i \in S : Cardinality({j \in S : j <= i}) = n
  BY <1>10
<1>12. QED  BY <1>11, Zenon DEF Nth

LEMMA KeepIsQueue ==
    ASSUME NEW order \in Seq(Applications), NEW S
    PROVE  Keep(order, S) \in Seq(Applications)
<1> DEFINE places == {i \in DOMAIN order : order[i] \in S}
<1>1. places \in SUBSET (1..Len(order)) /\ Len(order) \in Nat
  OBVIOUS
<1>2. Cardinality(places) \in Nat
  <2>1. IsFiniteSet(1..Len(order))
    BY <1>1, FS_Interval
  <2>2. IsFiniteSet(places)
    BY <1>1, <2>1, FS_Subset
  <2>3. QED  BY <2>2, FS_CardinalityType
<1>3. \A n \in 1..Cardinality(places) : Nth(places, n) \in places
  BY <1>1, NthExists
<1>4. \A n \in 1..Cardinality(places) : order[Nth(places, n)] \in Applications
  BY <1>3
<1>5. Keep(order, S) = [n \in 1..Cardinality(places) |-> order[Nth(places, n)]]
  BY DEF Keep
<1> HIDE DEF places
<1>6. QED  BY <1>2, <1>4, <1>5

LEMMA PrefixIsQueue ==
    ASSUME NEW order \in Seq(Applications), NEW n \in 0..Len(order)
    PROVE  SubSeq(order, 1, n) \in Seq(Applications)
  OBVIOUS

-----------------------------------------------------------------------------
(* What a write of the store does to the invariants                        *)

\* What a step of the store is to the effects: a candidate is not completed
\* by it and keeps its Artifact Set.
Advances ==
    \A r \in Runs, a \in Applications :
        /\ candidates'[r][a].state = "completed" => candidates'[r][a] = candidates[r][a]
        /\ candidates'[r][a].set = "none" <=> candidates[r][a].set = "none"

LEMMA StoreStands ==
    ASSUME StoreInv, UNCHANGED storeVars
    PROVE  StoreInv' /\ Advances /\ Settles
<1>1. StoreTypeOK' /\ SpendRests
  BY DEF StoreInv, storeVars, StoreTypeOK, SpendRests
<1>2. SpendInv'
  BY <1>1, SpendRest DEF StoreInv
<1>3. CallsBounded' /\ RunsInTurn' /\ ProofsAreFresh'
  BY DEF StoreInv, storeVars, CallsBounded, RunsInTurn, Unfinished, ProofsAreFresh
<1>4. QED  BY <1>1, <1>2, <1>3 DEF StoreInv, Advances, Settles, storeVars

\* The part that is left when the spend rests.
LEMMA StoreMoves ==
    ASSUME StoreInv, StoreTypeOK', SpendRests,
           \A q \in Runs : Unfinished(q)' => Unfinished(q),
           \A q \in Runs : runs'[q].lifecycle = "absent" =>
              runs[q].lifecycle = "absent" /\ candidates'[q] = candidates[q],
           \A q \in Runs, b \in Applications :
              candidates'[q][b].proof # candidates[q][b].proof => candidates'[q][b].proof[2] = {}
    PROVE  StoreInv'
<1>1. SpendInv'
  BY SpendRest DEF StoreInv
<1>2. CallsBounded'
  BY DEF StoreInv, CallsBounded, SpendRests
<1>3. RunsInTurn'
  BY DEF StoreInv, RunsInTurn
<1>4. ProofsAreFresh'
  BY DEF StoreInv, ProofsAreFresh
<1>5. QED  BY <1>1, <1>2, <1>3, <1>4 DEF StoreInv

LEMMA StartMoves ==
    ASSUME StoreInv, NEW r \in Runs, NEW key \in Keys, NEW target \in Targets \cup {0},
           NEW queue \in Seq(Applications), NEW exhausted \in BOOLEAN,
           StartRun(r, key, target, queue, exhausted)
    PROVE  StoreInv' /\ Advances /\ Settles
<1>1. StoreTypeOK' /\ SpendRests
  BY StartRunWrites DEF StoreInv, SpendInv
<1>2. /\ \A q \in Runs : ~ Unfinished(q)
      /\ runs[r].lifecycle = "absent" /\ runs'[r].lifecycle = "queued"
      /\ \A q \in Runs \ {r} : runs'[q] = runs[q] /\ candidates'[q] = candidates[q]
      /\ \A a \in Applications :
            /\ candidates'[r][a].state \in {"pending", "absent"}
            /\ candidates'[r][a].proof = NoProof /\ candidates'[r][a].set = "none"
  BY DEF StartRun, StoreInv, StoreTypeOK, NoRun, NoCandidate
<1>3. \A a \in Applications : candidates[r][a] = NoCandidate
  BY <1>2 DEF StoreInv, RunsInTurn
<1>4. SpendInv'
  BY <1>1, SpendRest DEF StoreInv
<1>5. CallsBounded'
  BY <1>1 DEF StoreInv, CallsBounded, SpendRests
<1>6. RunsInTurn'
  BY <1>2 DEF StoreInv, RunsInTurn, Unfinished
<1>7. ProofsAreFresh'
  BY <1>2 DEF StoreInv, ProofsAreFresh
<1>8. Advances
  BY <1>2, <1>3 DEF Advances, NoCandidate
<1>9. Settles
  BY <1>2, <1>3 DEF Settles, NoCandidate, TerminalCandidateStates
<1>10. QED  BY <1>1, <1>4, <1>5, <1>6, <1>7, <1>8, <1>9 DEF StoreInv

\* begin, finish and cancel of a run that is not over.
LEMMA RunMoves ==
    ASSUME StoreInv, NEW r \in Runs, Unfinished(r), Begin(r) \/ Finish(r) \/ Cancel(r)
    PROVE  StoreInv' /\ Advances /\ Settles
<1>1. StoreTypeOK' /\ SpendRests
  BY RunWrites DEF StoreInv
<1>2. /\ \A q \in Runs \ {r} : runs'[q] = runs[q]
      /\ runs'[r].lifecycle \in Lifecycles /\ candidates' = candidates
  <2>1. runs[r] \in RunRows
    BY DEF StoreInv, StoreTypeOK
  <2>2. QED
    BY <2>1 DEF Begin, Finish, Cancel, StoreInv, StoreTypeOK, RunRows, Lifecycles, Unfinished
<1>3. StoreInv'
  BY <1>1, <1>2, StoreMoves DEF Unfinished, Lifecycles
<1>4. Advances /\ Settles
  BY <1>2 DEF Advances, Settles, Unfinished
<1>5. QED  BY <1>3, <1>4

\* finish_cancellation of a run that is cancelled.
LEMMA CancellationMoves ==
    ASSUME StoreInv, NEW r \in Runs, runs[r].lifecycle = "cancelling", FinishCancellation(r)
    PROVE  StoreInv' /\ Advances /\ Settles
<1>1. StoreTypeOK' /\ SpendRests
  BY FinishCancellationWrites DEF StoreInv
<1>2. /\ \A q \in Runs \ {r} : runs'[q] = runs[q] /\ candidates'[q] = candidates[q]
      /\ runs'[r].lifecycle = "finished"
  <2> DEFINE row == [runs[r] EXCEPT !.lifecycle = "finished", !.outcome = "cancelled",
                                    !.reason = IF @ = "none" THEN "operator_cancelled" ELSE @]
             rows == [a \in Applications |->
                        IF candidates[r][a].state \in OpenCandidateStates
                        THEN [candidates[r][a] EXCEPT !.state = "cancelled",
                                                      !.reason = "operator_cancelled"]
                        ELSE candidates[r][a]]
  <2>1. runs' = [runs EXCEPT ![r] = row] /\ candidates' = [candidates EXCEPT ![r] = rows]
    BY DEF FinishCancellation, StoreInv, StoreTypeOK
  <2>2. row.lifecycle = "finished"
    BY DEF StoreInv, StoreTypeOK, RunRows
  <2> HIDE DEF row, rows
  <2>3. QED  BY <2>1, <2>2 DEF StoreInv, StoreTypeOK
<1>3. ASSUME NEW a \in Applications
      PROVE  /\ candidates'[r][a].proof = candidates[r][a].proof
             /\ candidates'[r][a].set = candidates[r][a].set
             /\ candidates'[r][a].state = "completed" => candidates'[r][a] = candidates[r][a]
             /\ candidates[r][a].state \in TerminalCandidateStates =>
                    candidates'[r][a] = candidates[r][a]
  <2>1. candidates[r][a] \in CandidateRows
    BY DEF StoreInv, StoreTypeOK
  <2>2. candidates'[r][a] = IF candidates[r][a].state \in OpenCandidateStates
                            THEN [candidates[r][a] EXCEPT !.state = "cancelled",
                                                          !.reason = "operator_cancelled"]
                            ELSE candidates[r][a]
    BY DEF FinishCancellation, StoreInv, StoreTypeOK
  <2>3. QED
    BY <2>1, <2>2 DEF CandidateRows, OpenCandidateStates, TerminalCandidateStates
<1>4. StoreInv'
  BY <1>1, <1>2, <1>3, StoreMoves DEF Unfinished
<1>5. Advances /\ Settles
  BY <1>2, <1>3 DEF Advances, Settles
<1>6. QED  BY <1>4, <1>5

\* begin_candidate, admit_candidate, start_artifact_set and fail_candidate of a
\* candidate without a result.  An admission is of an Application that
\* nothing is related to; only start_artifact_set touches the set.
LEMMA CandidateMoves ==
    ASSUME StoreInv, NEW r \in Runs, NEW a \in Applications,
           runs[r].lifecycle # "absent", candidates[r][a].state \in {"pending", "evaluating"},
           \/ BeginCandidate(r, a) \/ StartArtifactSet(r, a)
           \/ \E v \in Versions : v[2] = {} /\ AdmitCandidate(r, a, v)
           \/ \E reason \in CandidateReasons : FailCandidate(r, a, reason)
    PROVE  /\ StoreInv' /\ Settles
           /\ ~ StartArtifactSet(r, a) => Advances
           /\ runs' = runs /\ calls' = calls
           /\ \A q \in Runs, b \in Applications :
                 <<q, b>> # <<r, a>> => candidates'[q][b] = candidates[q][b]
<1>1. StoreTypeOK' /\ SpendRests
  BY CandidateWrites DEF StoreInv
<1>2. candidates \in [Runs -> [Applications -> CandidateRows]] /\ candidates[r][a] \in CandidateRows
  BY DEF StoreInv, StoreTypeOK
<1>3. /\ runs' = runs /\ calls' = calls
      /\ \A q \in Runs \ {r} : candidates'[q] = candidates[q]
      /\ \A b \in Applications \ {a} : candidates'[r][b] = candidates[r][b]
  BY <1>2 DEF BeginCandidate, StartArtifactSet, AdmitCandidate, FailCandidate
<1>4. /\ candidates'[r][a].state \in {"evaluating", "failed"}
      /\ candidates'[r][a].proof # candidates[r][a].proof => candidates'[r][a].proof[2] = {}
      /\ ~ StartArtifactSet(r, a) => candidates'[r][a].set = candidates[r][a].set
  <2>1. CASE BeginCandidate(r, a)
    BY <1>2, <2>1 DEF BeginCandidate, CandidateRows
  <2>2. CASE StartArtifactSet(r, a)
    BY <1>2, <2>2 DEF StartArtifactSet, CandidateRows
  <2>3. ASSUME NEW v \in Versions, v[2] = {}, AdmitCandidate(r, a, v)
        PROVE  /\ candidates'[r][a].state = "evaluating" /\ candidates'[r][a].proof = v
               /\ candidates'[r][a].set = candidates[r][a].set
    BY <1>2, <2>3 DEF AdmitCandidate, CandidateRows
  <2>4. ASSUME NEW reason \in CandidateReasons, FailCandidate(r, a, reason)
        PROVE  /\ candidates'[r][a].state = "failed"
               /\ candidates'[r][a].proof = candidates[r][a].proof
               /\ candidates'[r][a].set = candidates[r][a].set
    BY <1>2, <2>4 DEF FailCandidate, CandidateRows
  <2>5. QED  BY <2>1, <2>2, <2>3, <2>4
<1>5. StoreInv'
  BY <1>1, <1>3, <1>4, StoreMoves DEF Unfinished
<1>6. Settles
  BY <1>3 DEF Settles, TerminalCandidateStates
<1>7. ~ StartArtifactSet(r, a) => Advances
  BY <1>3, <1>4 DEF Advances
<1>8. QED  BY <1>3, <1>5, <1>6, <1>7

\* complete_candidate in a run that is not over.
LEMMA CompleteMoves ==
    ASSUME StoreInv, NEW r \in Runs, NEW a \in Applications,
           runs[r].lifecycle \in {"running", "cancelling"},
           candidates[r][a].state = "evaluating", CompleteCandidate(r, a)
    PROVE  /\ StoreInv' /\ Settles
           /\ \A q \in Runs : runs'[q].lifecycle = runs[q].lifecycle
           /\ candidates'[r][a].set = "sealed" /\ candidates[r][a].set # "none"
           /\ \A q \in Runs, b \in Applications :
                 <<q, b>> # <<r, a>> => candidates'[q][b] = candidates[q][b]
<1>1. StoreTypeOK' /\ SpendRests
  BY CompleteWrites DEF StoreInv
<1> DEFINE done == [candidates[r][a] EXCEPT !.state = "completed", !.reason = "none",
                                            !.set = "sealed"]
           row == [runs[r] EXCEPT !.outcome = "target_met", !.reason = "target_met"]
<1>2. /\ candidates \in [Runs -> [Applications -> CandidateRows]]
      /\ candidates[r][a] \in CandidateRows /\ runs \in [Runs -> RunRows] /\ runs[r] \in RunRows
  BY DEF StoreInv, StoreTypeOK
<1>3. /\ candidates' = [candidates EXCEPT ![r][a] = done]
      /\ runs' = [runs EXCEPT ![r] = row] \/ runs' = runs
      /\ candidates[r][a].set # "none"
  BY <1>2 DEF CompleteCandidate
<1>4. /\ done.state = "completed" /\ done.set = "sealed" /\ done.proof = candidates[r][a].proof
      /\ row.lifecycle = runs[r].lifecycle
  BY <1>2 DEF CandidateRows, RunRows
<1> HIDE DEF done, row
<1>5. /\ \A q \in Runs \ {r} : runs'[q] = runs[q] /\ candidates'[q] = candidates[q]
      /\ runs'[r].lifecycle = runs[r].lifecycle
      /\ candidates'[r][a] = done
      /\ \A b \in Applications \ {a} : candidates'[r][b] = candidates[r][b]
  BY <1>2, <1>3, <1>4
<1>6. StoreInv'
  BY <1>1, <1>4, <1>5, StoreMoves DEF Unfinished
<1>7. Settles
  BY <1>5 DEF Settles, TerminalCandidateStates
<1>8. QED  BY <1>3, <1>4, <1>5, <1>6, <1>7

\* A call written, the counters of its run with it.
LEMMA CallMoves ==
    ASSUME StoreInv, StoreTypeOK', SpendInv', NEW c \in CallIds,
           \A d \in CallIds \ {c} : calls'[d] = calls[d],
           calls'[c].reservation <= Reservation, calls'[c].cost <= Reservation,
           \A q \in Runs : runs'[q].lifecycle = runs[q].lifecycle
                           /\ runs'[q].outcome = runs[q].outcome,
           candidates' = candidates
    PROVE  StoreInv' /\ Advances /\ Settles
<1>1. CallsBounded'
  BY DEF StoreInv, CallsBounded
<1>2. RunsInTurn' /\ ProofsAreFresh'
  BY DEF StoreInv, RunsInTurn, Unfinished, ProofsAreFresh
<1>3. Advances /\ Settles
  BY DEF Advances, Settles
<1>4. QED  BY <1>1, <1>2, <1>3 DEF StoreInv

LEMMA ReserveMoves ==
    ASSUME StoreInv, NEW r \in Runs, NEW a \in Applications, NEW s \in Range(Stages),
           ReserveCall(r, a, s, Reservation)
    PROVE  /\ StoreInv' /\ Advances /\ Settles
           /\ \A q \in Runs : runs'[q].lifecycle = runs[q].lifecycle
           /\ candidates' = candidates /\ <<r, a, s, 1>> \in OnRecord(calls')
<1>1. StoreTypeOK' /\ SpendInv'
  BY ReserveSpend, ResumeRunsAssumption DEF StoreInv
<1> DEFINE c == <<r, a, s, NextAttempt(r, a, s)>>
           call == [NoCall EXCEPT !.state = "reserved", !.reservation = Reservation]
           row == [runs[r] EXCEPT !.active = @ + Reservation]
<1>2. /\ c \in CallIds /\ NextAttempt(r, a, s) \in Nat \ {0}
      /\ NextAttempt(r, a, s) <= DispatchLimit
      /\ \A m \in 1..DispatchLimit :
            m < NextAttempt(r, a, s) => calls[<<r, a, s, m>>].state # "absent"
  BY AttemptIsNext DEF StoreInv, SpendInv, ReserveCall
<1>3. /\ calls \in [CallIds -> CallRows] /\ runs \in [Runs -> RunRows] /\ runs[r] \in RunRows
  BY DEF StoreInv, StoreTypeOK
<1>4. /\ calls' = [calls EXCEPT ![c] = call] /\ runs' = [runs EXCEPT ![r] = row]
      /\ candidates' = candidates
  BY <1>3 DEF ReserveCall
<1>5. call.state = "reserved" /\ call.reservation = Reservation /\ call.cost = 0
  BY DEF NoCall
<1>6. row.lifecycle = runs[r].lifecycle /\ row.outcome = runs[r].outcome
  BY <1>3 DEF RunRows
<1> HIDE DEF call, row
<1>7. /\ calls'[c] = call /\ \A d \in CallIds \ {c} : calls'[d] = calls[d]
      /\ \A q \in Runs : runs'[q].lifecycle = runs[q].lifecycle
                         /\ runs'[q].outcome = runs[q].outcome
  BY <1>2, <1>3, <1>4, <1>6
<1>8. <<r, a, s, 1>> \in OnRecord(calls')
  <2>1. DispatchLimit \in Nat
    BY ResumeStoreAssumption
  <2>2. <<r, a, s, 1>> \in CallIds
    BY <1>2, <2>1 DEF CallIds
  <2>3. CASE NextAttempt(r, a, s) = 1
    BY <1>5, <1>7, <2>2, <2>3 DEF OnRecord
  <2>4. CASE NextAttempt(r, a, s) # 1
    <3>1. 1 \in 1..DispatchLimit /\ 1 < NextAttempt(r, a, s)
      BY <1>2, <2>1, <2>4
    <3>2. calls[<<r, a, s, 1>>].state # "absent" /\ <<r, a, s, 1>> # c
      BY <1>2, <2>4, <3>1
    <3>3. QED  BY <1>7, <2>2, <3>2 DEF OnRecord
  <2>5. QED  BY <2>3, <2>4
<1> HIDE DEF c
<1>9. StoreInv' /\ Advances /\ Settles
  <2>1. calls'[c].reservation <= Reservation /\ calls'[c].cost <= Reservation
    BY <1>5, <1>7, ResumeRunsAssumption
  <2>2. QED  BY <1>1, <1>2, <1>4, <1>7, <2>1, CallMoves
<1>10. QED  BY <1>4, <1>7, <1>8, <1>9

LEMMA MarkMoves ==
    ASSUME StoreInv, NEW c \in CallIds, MarkCallDispatching(c)
    PROVE  /\ StoreInv' /\ Advances /\ Settles
           /\ runs' = runs /\ candidates' = candidates /\ OnRecord(calls') = OnRecord(calls)
<1>1. StoreTypeOK' /\ SpendInv'
  BY MarkSpend DEF StoreInv
<1>2. calls \in [CallIds -> CallRows] /\ calls[c] \in CallRows
  BY DEF StoreInv, StoreTypeOK
<1>3. /\ calls[c].state = "reserved" /\ calls'[c].state = "dispatching"
      /\ calls'[c].reservation = calls[c].reservation /\ calls'[c].cost = calls[c].cost
      /\ \A d \in CallIds \ {c} : calls'[d] = calls[d]
      /\ runs' = runs /\ candidates' = candidates
  BY <1>2 DEF MarkCallDispatching, CallRows
<1>4. StoreInv' /\ Advances /\ Settles
  BY <1>1, <1>3, CallMoves DEF StoreInv, CallsBounded
<1>5. QED  BY <1>3, <1>4 DEF OnRecord

LEMMA ResolveMoves ==
    ASSUME StoreInv, NEW c \in CallIds,
           NEW state \in {"settled", "not_transmitted", "indeterminate"}, NEW cost,
           ResolveCall(c, state, cost)
    PROVE  /\ StoreInv' /\ Advances /\ Settles
           /\ \A q \in Runs : runs'[q].lifecycle = runs[q].lifecycle
           /\ candidates' = candidates /\ OnRecord(calls') = OnRecord(calls)
<1>1. StoreTypeOK' /\ SpendInv'
  BY ResolveSpend DEF StoreInv
<1>2. /\ calls \in [CallIds -> CallRows] /\ calls[c] \in CallRows
      /\ runs \in [Runs -> RunRows] /\ c[1] \in Runs /\ runs[c[1]] \in RunRows
  BY DEF StoreInv, StoreTypeOK, CallIds
<1> DEFINE row == ResolvedCounters(runs[c[1]], calls[c].reservation, state, cost)
<1>3. /\ calls[c].state \in OpenCallStates /\ calls'[c].state = state
      /\ calls'[c].reservation = calls[c].reservation /\ calls'[c].cost = cost
      /\ \A d \in CallIds \ {c} : calls'[d] = calls[d]
      /\ runs' = [runs EXCEPT ![c[1]] = row] /\ candidates' = candidates
      /\ cost \in 0..calls[c].reservation
  BY <1>2 DEF ResolveCall, CallRows
<1>4. row.lifecycle = runs[c[1]].lifecycle /\ row.outcome = runs[c[1]].outcome
  BY <1>2 DEF RunRows, ResolvedCounters
<1> HIDE DEF row
<1>5. \A q \in Runs : runs'[q].lifecycle = runs[q].lifecycle
                      /\ runs'[q].outcome = runs[q].outcome
  BY <1>2, <1>3, <1>4
<1>6. calls'[c].reservation <= Reservation /\ calls'[c].cost <= Reservation
  <2>1. calls[c].reservation \in Nat /\ calls[c].reservation <= Reservation /\ Reservation \in Nat
    BY <1>2, ResumeRunsAssumption DEF CallRows, StoreInv, CallsBounded
  <2>2. QED  BY <1>3, <2>1
<1>7. StoreInv' /\ Advances /\ Settles
  BY <1>1, <1>3, <1>5, <1>6, CallMoves
<1>8. QED  BY <1>3, <1>5, <1>7 DEF OnRecord, OpenCallStates

-----------------------------------------------------------------------------
(* What a step does to the rest of the invariants                          *)

\* A write of the store that completes nothing, between two effects.
LEMMA EffectsStand ==
    ASSUME EffectsInv, Advances, art' = art, journal' = journal
    PROVE  EffectsInv'
<1>1. JournalInv'
  BY DEF EffectsInv, JournalInv, Advances
<1>2. ArtInv'
  BY DEF EffectsInv, ArtInv, Advances, Related
<1>3. CompletedIsWhole' /\ CleanedIsUnrelated'
  BY DEF EffectsInv, CompletedIsWhole, CleanedIsUnrelated, Advances
<1>4. QED  BY <1>1, <1>2, <1>3 DEF EffectsInv

LEMMA FaultsAreCounted ==
    ASSUME ProcessTypeOK, Fault \/ NoFault
    PROVE  faults' \in 0..MaxFaults /\ faults <= faults'
  BY ResumeRunsAssumption DEF ProcessTypeOK, Fault, NoFault

\* The types after a step of the worker.
LEMMA WorkerTypes ==
    ASSUME ProcessTypeOK, EditsAreFaults, WorkerRest, worker' \in WorkerRows, apps' = apps,
           art' \in [Runs -> [Applications -> ArtRows]], journal' \in [Runs -> EntryRows],
           Fault \/ NoFault
    PROVE  ProcessTypeOK' /\ EditsAreFaults'
<1>1. faults' \in 0..MaxFaults /\ faults <= faults' /\ faults \in Nat
  BY FaultsAreCounted DEF ProcessTypeOK
<1>2. ProcessTypeOK'
  BY <1>1 DEF ProcessTypeOK, WorkerRest
<1>3. EditsAreFaults'
  BY <1>1 DEF EditsAreFaults, ProcessTypeOK
<1>4. QED  BY <1>2, <1>3

\* The row of the worker that each kind of step leaves.
Moves(pc) ==
    /\ worker' \in WorkerRows /\ worker'.pc = pc
    /\ worker'.run = worker.run /\ worker'.todo = worker.todo

LEMMA GotoMoves ==
    ASSUME worker \in WorkerRows, NEW pc \in WorkerPcs, Goto(pc)
    PROVE  Moves(pc) /\ worker'.stage = worker.stage /\ worker'.doubt = worker.doubt
  BY DEF WorkerRows, Goto, Moves

LEMMA AbandonMoves ==
    ASSUME worker \in WorkerRows, NEW reason \in CandidateReasons, Abandon(reason)
    PROVE  Moves("failing")
  BY DEF WorkerRows, Abandon, Moves, WorkerPcs

LEMMA CleanUpMoves ==
    ASSUME worker \in WorkerRows, NEW doubt \in BOOLEAN, CleanUp(doubt)
    PROVE  Moves("cleaning") /\ worker'.doubt = doubt
  BY DEF WorkerRows, CleanUp, Moves, WorkerPcs

LEMMA BuildMoves ==
    ASSUME worker \in WorkerRows, NEW pc \in WorkerPcs, NEW stage \in Nat, NEW tries \in {0, 1},
           worker' = [worker EXCEPT !.pc = pc, !.stage = stage, !.tries = tries]
    PROVE  Moves(pc) /\ worker'.stage = stage
  BY DEF WorkerRows, Moves

LEMMA NextCandidateMoves ==
    ASSUME worker \in WorkerRows, worker.todo # <<>>, NextCandidate
    PROVE  worker' \in WorkerRows /\ worker'.pc = "next" /\ worker'.run = worker.run
<1>1. Tail(worker.todo) \in Seq(Applications)
  BY DEF WorkerRows
<1>2. QED  BY <1>1 DEF WorkerRows, NextCandidate, WorkerPcs

\* The worker between two candidates, or at the end.
LEMMA BetweenKeeps ==
    ASSUME worker'.pc \in {"next", "ending"}, worker'.run \in Runs, server'.state = "up",
           runs'[worker'.run].lifecycle \in {"running", "cancelling"}
    PROVE  WorkerInv' /\ CommitInv'
  BY DEF WorkerInv, CommitInv, BuildPcs, CommitPcs

\* The worker that gives a candidate up.
LEMMA FailingKeeps ==
    ASSUME Moves("failing"), worker.run \in Runs, server'.state = "up", worker.todo # <<>>,
           runs'[worker.run].lifecycle \in {"running", "cancelling"},
           candidates'[worker.run][Candidate].state \in {"pending", "evaluating"}
    PROVE  WorkerInv' /\ CommitInv'
  BY DEF Moves, Candidate, WorkerInv, CommitInv, BuildPcs, CommitPcs

\* The worker at the head of a cleanup.
LEMMA CleaningKeeps ==
    ASSUME Moves("cleaning"), worker.run \in Runs, server'.state = "up", worker.todo # <<>>,
           runs'[worker.run].lifecycle \in {"running", "cancelling"},
           candidates'[worker.run][Candidate].state = "evaluating",
           journal'[worker.run].app = Candidate, journal'[worker.run].resolution = "active",
           ~ worker'.doubt => journal'[worker.run].resume
    PROVE  WorkerInv' /\ CommitInv'
  BY DEF Moves, Candidate, WorkerInv, CommitInv, BuildPcs, CommitPcs

\* What is known of the worker when it takes a step.
LEMMA WorkerAt ==
    ASSUME RunsInv, Up, worker.pc # "idle"
    PROVE  /\ worker \in WorkerRows /\ worker.run \in Runs
           /\ runs[worker.run].lifecycle \in {"running", "cancelling"}
           /\ worker.pc \notin {"next", "ending"} => worker.todo # <<>> /\ Candidate \in Applications
           /\ server.state = "up" /\ server.entries = {}
<1>1. worker \in WorkerRows /\ worker.todo \in Seq(Applications)
  BY DEF RunsInv, ProcessTypeOK, WorkerRows
<1>2. QED  BY <1>1 DEF RunsInv, WorkerInv, EntriesInv, Up, Candidate

\* A step of the worker that leaves the effects alone and completes nothing.
LEMMA QuietStep ==
    ASSUME RunsInv, Up, worker' \in WorkerRows, StoreInv', Advances, WorkerRest,
           UNCHANGED <<apps, art, journal>>, Fault \/ NoFault, WorkerInv', CommitInv'
    PROVE  RunsInv'
<1>1. ProcessTypeOK' /\ EditsAreFaults'
  BY WorkerTypes DEF RunsInv, ProcessTypeOK
<1>2. EffectsInv'
  BY EffectsStand DEF RunsInv
<1>3. EntriesInv'
  BY DEF RunsInv, EntriesInv, WorkerRest, Up, Unresolved
<1>4. QED  BY <1>1, <1>2, <1>3 DEF RunsInv

\* A step that gives the candidate up and leaves the store alone.
LEMMA AbandonStep ==
    ASSUME RunsInv, Up, worker.pc \notin {"idle", "next", "ending"},
           candidates[worker.run][Candidate].state \in {"pending", "evaluating"},
           NEW reason \in CandidateReasons, Abandon(reason), UNCHANGED storeVars,
           WorkerRest, UNCHANGED <<apps, art, journal>>, Fault \/ NoFault
    PROVE  RunsInv' /\ Settles
<1>1. StoreInv' /\ Advances /\ Settles
  BY StoreStands DEF RunsInv
<1>2. Moves("failing")
  BY AbandonMoves, WorkerAt
<1>3. WorkerInv' /\ CommitInv'
  BY <1>2, WorkerAt, FailingKeeps DEF WorkerRest, Up, storeVars
<1>4. QED  BY <1>1, <1>2, <1>3, QuietStep DEF Moves

\* A step that leaves the candidate or the loop behind.
LEMMA BetweenStep ==
    ASSUME RunsInv, Up, worker.pc # "idle", worker' \in WorkerRows,
           worker'.pc \in {"next", "ending"}, worker'.run = worker.run,
           StoreInv', Advances, runs'[worker.run].lifecycle \in {"running", "cancelling"},
           WorkerRest, UNCHANGED <<apps, art, journal>>, Fault \/ NoFault
    PROVE  RunsInv'
<1>1. WorkerInv' /\ CommitInv'
  BY WorkerAt, BetweenKeeps DEF WorkerRest, Up
<1>2. QED  BY <1>1, QuietStep

-----------------------------------------------------------------------------
(* The worker up to the admission of a candidate                           *)

LEMMA WakeStep == RunsInv /\ Wake => RunsInv' /\ Settles
<1> SUFFICES ASSUME RunsInv, Wake PROVE RunsInv' /\ Settles
  OBVIOUS
<1>1. /\ At("idle") /\ wake' = FALSE /\ UNCHANGED <<starter, server, environment>>
      /\ worker \in WorkerRows /\ Idle \in WorkerRows
  <2>1. worker \in WorkerRows
    BY DEF RunsInv, ProcessTypeOK
  <2>2. <<>> \in Seq(Applications) /\ <<0, {}>> \in Nat \X SUBSET Runs
    OBVIOUS
  <2>3. Idle \in WorkerRows
    BY <2>2 DEF Idle, WorkerRows, WorkerPcs, CandidateReasons
  <2>4. QED  BY <2>1, <2>3 DEF Wake
<1>2. ASSUME StoreInv', Advances, worker' \in WorkerRows, WorkerInv', CommitInv'
      PROVE  RunsInv'
  <2>1. ProcessTypeOK' /\ EditsAreFaults'
    BY <1>1, <1>2 DEF RunsInv, ProcessTypeOK, EditsAreFaults, environment
  <2>2. EffectsInv' /\ EntriesInv'
    BY <1>1, <1>2, EffectsStand DEF RunsInv, EntriesInv, environment, Unresolved
  <2>3. QED  BY <1>2, <2>1, <2>2 DEF RunsInv
<1>3. worker' = worker => WorkerInv' /\ CommitInv'
  BY <1>1 DEF WorkerInv, CommitInv, At, Up, BuildPcs, CommitPcs
<1>4. CASE UNCHANGED <<storeVars, worker>>
  BY <1>1, <1>2, <1>3, <1>4, StoreStands DEF RunsInv
<1>5. ASSUME NEW r \in Runs, runs[r].lifecycle = "cancelling", FinishCancellation(r),
             worker' = worker
      PROVE  RunsInv' /\ Settles
  BY <1>1, <1>2, <1>3, <1>5, CancellationMoves DEF RunsInv
<1>6. ASSUME NEW r \in Runs, runs[r].lifecycle \in {"queued", "running"}, Begin(r),
             worker' = [Idle EXCEPT
                           !.run = r, !.todo = runs[r].queue,
                           !.pc = IF runs[r].queue = <<>> THEN "ending" ELSE "next"]
      PROVE  RunsInv' /\ Settles
  <2>1. runs[r] \in RunRows /\ runs[r].queue \in Seq(Applications)
    <3>1. runs[r] \in RunRows
      BY DEF RunsInv, StoreInv, StoreTypeOK
    <3>2. QED  BY <3>1 DEF RunRows
  <2>2. /\ worker' \in WorkerRows /\ worker'.run = r
        /\ worker'.pc \in {"next", "ending"}
    BY <1>1, <1>6, <2>1 DEF WorkerRows, WorkerPcs, Idle
  <2>3. runs'[r].lifecycle = "running"
    BY <1>6, <2>1 DEF Begin, RunsInv, StoreInv, StoreTypeOK, RunRows
  <2>4. StoreInv' /\ Advances /\ Settles
    BY <1>6, RunMoves DEF RunsInv, Unfinished
  <2>5. WorkerInv' /\ CommitInv'
    BY <1>1, <2>2, <2>3, BetweenKeeps DEF At, Up
  <2>6. QED  BY <1>2, <2>2, <2>4, <2>5
<1>7. QED  BY <1>4, <1>5, <1>6 DEF Wake

LEMMA SelectStep == RunsInv /\ Select => RunsInv' /\ Settles
<1> SUFFICES ASSUME RunsInv, Select PROVE RunsInv' /\ Settles
  OBVIOUS
<1>1. /\ Up /\ worker.pc = "next" /\ WorkerRest /\ UNCHANGED <<storeVars, environment>>
      /\ worker \in WorkerRows /\ NoFault
  BY DEF Select, At, RunsInv, ProcessTypeOK, environment, NoFault
<1>2. StoreInv' /\ Advances /\ Settles
  BY <1>1, StoreStands DEF RunsInv
<1>3. UNCHANGED <<apps, art, journal>> /\ runs' = runs /\ candidates' = candidates
  BY <1>1 DEF environment, storeVars
<1>4. CASE Goto("ending")
  <2>1. worker' \in WorkerRows /\ worker'.pc = "ending" /\ worker'.run = worker.run
    BY <1>1, <1>4, GotoMoves DEF WorkerPcs, Moves
  <2>2. QED  BY <1>1, <1>2, <1>3, <2>1, WorkerAt, BetweenStep
<1>5. CASE worker.todo # <<>> /\ NextCandidate
  <2>1. worker' \in WorkerRows /\ worker'.pc = "next" /\ worker'.run = worker.run
    BY <1>1, <1>5, NextCandidateMoves
  <2>2. QED  BY <1>1, <1>2, <1>3, <2>1, WorkerAt, BetweenStep
<1>6. CASE worker.todo # <<>> /\ candidates[worker.run][Candidate].state = "pending"
           /\ Goto("first_read")
  <2>1. Moves("first_read")
    BY <1>1, <1>6, GotoMoves DEF WorkerPcs
  <2>2. WorkerInv' /\ CommitInv'
    BY <1>1, <1>3, <1>6, <2>1, WorkerAt
    DEF WorkerRest, Moves, Candidate, WorkerInv, CommitInv, BuildPcs, CommitPcs
  <2>3. QED  BY <1>1, <1>2, <1>3, <2>1, <2>2, QuietStep DEF Moves
<1>7. CASE worker.todo # <<>> /\ candidates[worker.run][Candidate].state = "evaluating"
           /\ Goto("restore")
  <2>1. Moves("restore")
    BY <1>1, <1>7, GotoMoves DEF WorkerPcs
  <2>2. WorkerInv' /\ CommitInv'
    BY <1>1, <1>3, <1>7, <2>1, WorkerAt
    DEF WorkerRest, Moves, Candidate, WorkerInv, CommitInv, BuildPcs, CommitPcs
  <2>3. QED  BY <1>1, <1>2, <1>3, <2>1, <2>2, QuietStep DEF Moves
<1>8. QED
  BY <1>4, <1>5, <1>6, <1>7 DEF Select

\* The version an admission proves is one the store can hold.
LEMMA SourceIsVersion ==
    ASSUME RunsInv, NEW a \in Applications
    PROVE  Source(a) \in Versions /\ Source(a) \in Nat \X SUBSET Runs
<1>1. apps[a].version \in Nat /\ apps[a].version \in 1..(faults + 1) /\ faults \in 0..MaxFaults
  BY DEF RunsInv, ProcessTypeOK, EditsAreFaults
<1>2. apps[a].version \in 1..(MaxFaults + 1) /\ Related(a) \in SUBSET Runs
  BY <1>1, ResumeRunsAssumption DEF Related
<1>3. (1..MaxFaults + 1) \X SUBSET Runs \subseteq Versions
  BY ResumeRunsAssumption
<1>4. QED  BY <1>1, <1>2, <1>3 DEF Source

LEMMA FirstReadStep == RunsInv /\ FirstRead => RunsInv' /\ Settles
<1> SUFFICES ASSUME RunsInv, FirstRead PROVE RunsInv' /\ Settles
  OBVIOUS
<1>1. /\ Up /\ worker.pc = "first_read" /\ WorkerRest
      /\ UNCHANGED storeVars /\ UNCHANGED <<apps, art, journal>>
  BY DEF FirstRead, At
<1>2. /\ worker \in WorkerRows /\ worker.run \in Runs /\ Candidate \in Applications
      /\ worker.todo # <<>> /\ runs[worker.run].lifecycle \in {"running", "cancelling"}
      /\ candidates[worker.run][Candidate].state = "pending"
  BY <1>1, WorkerAt DEF RunsInv, WorkerInv
<1>3. CASE Abandon("run_execution_failure") /\ (Fault \/ NoFault)
  BY <1>1, <1>2, <1>3, AbandonStep DEF CandidateReasons
<1>4. CASE /\ worker' = [worker EXCEPT !.pc = "second_read", !.seen = Source(Candidate)]
           /\ NoFault
  <2>1. Moves("second_read")
    BY <1>2, <1>4, SourceIsVersion DEF WorkerRows, WorkerPcs, Moves
  <2>2. WorkerInv' /\ CommitInv'
    BY <1>1, <1>2, <2>1
    DEF WorkerRest, Up, storeVars, Moves, Candidate, WorkerInv, CommitInv, BuildPcs, CommitPcs
  <2>3. StoreInv' /\ Advances /\ Settles
    BY <1>1, StoreStands DEF RunsInv
  <2>4. QED  BY <1>1, <1>4, <2>1, <2>2, <2>3, QuietStep DEF Moves
<1>5. QED  BY <1>3, <1>4 DEF FirstRead

LEMMA SecondReadStep == RunsInv /\ SecondRead => RunsInv' /\ Settles
<1> SUFFICES ASSUME RunsInv, SecondRead PROVE RunsInv' /\ Settles
  OBVIOUS
<1> DEFINE r == worker.run  a == Candidate
<1>1. /\ Up /\ worker.pc = "second_read" /\ WorkerRest
      /\ UNCHANGED <<apps, art, journal>>
  BY DEF SecondRead, At
<1>2. /\ worker \in WorkerRows /\ r \in Runs /\ a \in Applications
      /\ worker.todo # <<>> /\ runs[r].lifecycle \in {"running", "cancelling"}
      /\ candidates[r][a].state = "pending"
      /\ candidates[r][a] \in CandidateRows
  BY <1>1, WorkerAt DEF RunsInv, WorkerInv, StoreInv, StoreTypeOK
<1>3. CASE Eligible(a) /\ AdmitCandidate(r, a, Source(a)) /\ Goto("restore") /\ NoFault
  <2>1. Source(a) \in Versions /\ Source(a)[2] = {}
    BY <1>2, <1>3, SourceIsVersion DEF Eligible, Source
  <2>2. /\ StoreInv' /\ Settles /\ Advances /\ runs' = runs /\ calls' = calls
    <3>1. ~ StartArtifactSet(r, a)
      BY <1>2, <1>3 DEF AdmitCandidate, StartArtifactSet
    <3>2. QED  BY <1>2, <1>3, <2>1, <3>1, CandidateMoves DEF RunsInv
  <2>3. candidates'[r][a].state = "evaluating"
    BY <1>2, <1>3 DEF AdmitCandidate, RunsInv, StoreInv, StoreTypeOK, CandidateRows
  <2>4. Moves("restore")
    BY <1>2, <1>3, GotoMoves DEF WorkerPcs
  <2>5. WorkerInv' /\ CommitInv'
    BY <1>1, <1>2, <2>2, <2>3, <2>4
    DEF WorkerRest, Up, Moves, Candidate, WorkerInv, CommitInv, BuildPcs, CommitPcs
  <2>6. QED  BY <1>1, <1>3, <2>2, <2>4, <2>5, QuietStep DEF Moves
<1>4. CASE UNCHANGED storeVars /\ NextCandidate /\ NoFault
  <2>1. StoreInv' /\ Advances /\ Settles /\ runs' = runs
    BY <1>4, StoreStands DEF RunsInv, storeVars
  <2>2. worker' \in WorkerRows /\ worker'.pc = "next" /\ worker'.run = worker.run
    BY <1>2, <1>4, NextCandidateMoves
  <2>3. QED  BY <1>1, <1>2, <1>4, <2>1, <2>2, BetweenStep
<1>5. CASE (BeginCandidate(r, a) \/ UNCHANGED storeVars) /\ Goto("ineligible") /\ NoFault
  <2>1. /\ StoreInv' /\ Settles /\ Advances /\ runs' = runs
        /\ candidates'[r][a].state \in {"pending", "evaluating"}
    <3>1. CASE UNCHANGED storeVars
      BY <1>2, <3>1, StoreStands DEF RunsInv, storeVars
    <3>2. CASE BeginCandidate(r, a)
      <4>1. candidates'[r][a].state = "evaluating" /\ ~ StartArtifactSet(r, a)
        BY <1>2, <3>2
        DEF BeginCandidate, StartArtifactSet, RunsInv, StoreInv, StoreTypeOK, CandidateRows
      <4>2. QED  BY <1>2, <3>2, <4>1, CandidateMoves DEF RunsInv
    <3>3. QED  BY <1>5, <3>1, <3>2
  <2>2. Moves("ineligible")
    BY <1>2, <1>5, GotoMoves DEF WorkerPcs
  <2>3. WorkerInv' /\ CommitInv'
    BY <1>1, <1>2, <2>1, <2>2
    DEF WorkerRest, Up, Moves, Candidate, WorkerInv, CommitInv, BuildPcs, CommitPcs
  <2>4. QED  BY <1>1, <1>5, <2>1, <2>2, <2>3, QuietStep DEF Moves
<1>6. CASE Abandon("run_execution_failure") /\ UNCHANGED storeVars /\ (Fault \/ NoFault)
  BY <1>1, <1>2, <1>6, AbandonStep DEF CandidateReasons
<1>7. QED  BY <1>3, <1>4, <1>5, <1>6 DEF SecondRead

\* A candidate that is failed, whatever of it was begun.
LEMMA FailMoves ==
    ASSUME RunsInv, Up, worker.pc \in {"ineligible", "failing"}, NEW reason \in CandidateReasons,
           FailCandidate(worker.run, Candidate, reason)
    PROVE  StoreInv' /\ Settles /\ Advances /\ runs' = runs
<1> DEFINE r == worker.run  a == Candidate
<1>1. /\ r \in Runs /\ a \in Applications /\ runs[r].lifecycle \in {"running", "cancelling"}
      /\ candidates[r][a].state \in {"pending", "evaluating"}
      /\ candidates[r][a] \in CandidateRows
  BY WorkerAt DEF RunsInv, WorkerInv, StoreInv, StoreTypeOK
<1>2. ~ StartArtifactSet(r, a)
  <2>1. candidates'[r][a].state = "failed"
    BY <1>1 DEF FailCandidate, RunsInv, StoreInv, StoreTypeOK, CandidateRows
  <2>2. StartArtifactSet(r, a) => candidates'[r][a].state = "evaluating"
    BY <1>1 DEF StartArtifactSet, RunsInv, StoreInv, StoreTypeOK, CandidateRows
  <2>3. QED  BY <2>1, <2>2
<1>3. QED  BY <1>1, <1>2, CandidateMoves DEF RunsInv

LEMMA IneligibleStep == RunsInv /\ Ineligible => RunsInv' /\ Settles
<1> SUFFICES ASSUME RunsInv, Ineligible PROVE RunsInv' /\ Settles
  OBVIOUS
<1>1. /\ Up /\ worker.pc = "ineligible" /\ WorkerRest /\ UNCHANGED <<apps, art, journal>>
      /\ NoFault
  BY DEF Ineligible, At, environment, NoFault
<1>2. StoreInv' /\ Settles /\ Advances /\ runs' = runs
  BY <1>1, FailMoves DEF Ineligible, CandidateReasons
<1>3. worker' \in WorkerRows /\ worker'.pc = "next" /\ worker'.run = worker.run
  BY <1>1, WorkerAt, NextCandidateMoves DEF Ineligible
<1>4. QED  BY <1>1, <1>2, <1>3, WorkerAt, BetweenStep

LEMMA FailStep == RunsInv /\ Fail => RunsInv' /\ Settles
<1> SUFFICES ASSUME RunsInv, Fail PROVE RunsInv' /\ Settles
  OBVIOUS
<1>1. /\ Up /\ worker.pc = "failing" /\ WorkerRest /\ UNCHANGED <<apps, art, journal>>
      /\ NoFault
  BY DEF Fail, At, environment, NoFault
<1>2. worker \in WorkerRows /\ worker.reason \in CandidateReasons
  BY <1>1, WorkerAt DEF WorkerRows
<1>3. StoreInv' /\ Settles /\ Advances /\ runs' = runs
  BY <1>1, <1>2, FailMoves DEF Fail
<1>4. worker' \in WorkerRows /\ worker'.pc = "ending" /\ worker'.run = worker.run
  BY <1>2, GotoMoves DEF Fail, WorkerPcs, Moves
<1>5. QED  BY <1>1, <1>3, <1>4, WorkerAt, BetweenStep

LEMMA RestoreStep == RunsInv /\ Restore => RunsInv' /\ Settles
<1> SUFFICES ASSUME RunsInv, Restore PROVE RunsInv' /\ Settles
  OBVIOUS
<1>1. /\ Up /\ worker.pc = "restore" /\ WorkerRest /\ UNCHANGED storeVars
      /\ UNCHANGED <<apps, art, journal>> /\ NoFault
  BY DEF Restore, At, environment, NoFault
<1>2. /\ worker \in WorkerRows /\ worker.run \in Runs /\ Candidate \in Applications
      /\ worker.todo # <<>> /\ runs[worker.run].lifecycle \in {"running", "cancelling"}
      /\ candidates[worker.run][Candidate].state = "evaluating"
  BY <1>1, WorkerAt DEF RunsInv, WorkerInv
<1>3. CASE Abandon("run_execution_failure")
  BY <1>1, <1>2, <1>3, AbandonStep DEF CandidateReasons
<1>4. CASE /\ candidates[worker.run][Candidate].proof # NoProof
           /\ worker' = [worker EXCEPT !.pc = "build", !.stage = 1, !.tries = 0]
  <2>1. Moves("build") /\ worker'.stage = 1
    BY <1>2, <1>4 DEF WorkerRows, WorkerPcs, Moves
  <2>2. 1 \in 1..Len(Stages)
    <3>1. Stages \in Seq(Range(Stages)) /\ Stages # <<>>
      BY ResumeStoreAssumption, ResumeRunsAssumption
    <3>2. QED  BY <3>1
  <2>3. WorkerInv' /\ CommitInv'
    BY <1>1, <1>2, <1>4, <2>1, <2>2
    DEF WorkerRest, Up, storeVars, Moves, Candidate, WorkerInv, CommitInv, BuildPcs, CommitPcs
  <2>4. StoreInv' /\ Advances /\ Settles
    BY <1>1, StoreStands DEF RunsInv
  <2>5. QED  BY <1>1, <2>1, <2>3, <2>4, QuietStep DEF Moves
<1>5. QED  BY <1>3, <1>4 DEF Restore

-----------------------------------------------------------------------------
(* The builder                                                             *)

\* The stage the builder is at.
LEMMA StageIsOne ==
    ASSUME RunsInv, Up, worker.pc \in {"build", "reserved", "dispatching"}
    PROVE  Stage \in Range(Stages) /\ worker.stage \in 1..Len(Stages)
<1>1. worker.stage \in 1..Len(Stages)
  BY DEF RunsInv, WorkerInv
<1>2. Stages \in Seq(Range(Stages))
  BY ResumeStoreAssumption
<1>3. QED  BY <1>1, <1>2 DEF Stage

LEMMA LastCallIsOne ==
    ASSUME RunsInv, Up, worker.pc \in {"reserved", "dispatching"}
    PROVE  LastCall \in CallIds
<1>1. <<worker.run, Candidate, Stage, 1>> \in OnRecord(calls)
  BY DEF RunsInv, WorkerInv, Stage
<1>2. worker.run \in Runs /\ Candidate \in Applications
  BY WorkerAt
<1>3. QED
  BY <1>1, <1>2, StageIsOne, AttemptIsNext DEF LastCall, RunsInv, StoreInv, SpendInv

LEMMA DispatchStep == RunsInv /\ Dispatch => RunsInv' /\ Settles
<1> SUFFICES ASSUME RunsInv, Dispatch PROVE RunsInv' /\ Settles
  OBVIOUS
<1> DEFINE r == worker.run  a == Candidate
<1>1. /\ Up /\ worker.pc = "build" /\ WorkerRest /\ UNCHANGED <<apps, art, journal>>
  BY DEF Dispatch, At
<1>2. /\ worker \in WorkerRows /\ r \in Runs /\ a \in Applications
      /\ worker.todo # <<>> /\ runs[r].lifecycle \in {"running", "cancelling"}
      /\ candidates[r][a].state = "evaluating" /\ candidates[r][a].proof # NoProof
      /\ worker.stage \in 1..Len(Stages)
  BY <1>1, WorkerAt DEF RunsInv, WorkerInv, BuildPcs
<1>3. CASE ReserveCall(r, a, Stage, Reservation) /\ Goto("reserved") /\ NoFault
  <2>1. /\ StoreInv' /\ Advances /\ Settles
        /\ runs'[r].lifecycle = runs[r].lifecycle
        /\ candidates' = candidates /\ <<r, a, Stage, 1>> \in OnRecord(calls')
    BY <1>1, <1>2, <1>3, StageIsOne, ReserveMoves DEF RunsInv
  <2>2. Moves("reserved") /\ worker'.stage = worker.stage
    BY <1>2, <1>3, GotoMoves DEF WorkerPcs
  <2>3. WorkerInv' /\ CommitInv'
    BY <1>1, <1>2, <2>1, <2>2
    DEF WorkerRest, Up, Moves, Candidate, Stage, WorkerInv, CommitInv, BuildPcs, CommitPcs
  <2>4. QED  BY <1>1, <1>3, <2>1, <2>2, <2>3, QuietStep DEF Moves
<1>4. CASE Abandon("run_execution_failure") /\ UNCHANGED storeVars /\ (Fault \/ NoFault)
  BY <1>1, <1>2, <1>4, AbandonStep DEF CandidateReasons
<1>5. QED  BY <1>3, <1>4 DEF Dispatch

LEMMA TransmitStep == RunsInv /\ Transmit => RunsInv' /\ Settles
<1> SUFFICES ASSUME RunsInv, Transmit PROVE RunsInv' /\ Settles
  OBVIOUS
<1> DEFINE r == worker.run  a == Candidate
<1>1. /\ Up /\ worker.pc = "reserved" /\ WorkerRest /\ UNCHANGED <<apps, art, journal>>
      /\ NoFault
  BY DEF Transmit, At, environment, NoFault
<1>2. /\ worker \in WorkerRows /\ r \in Runs /\ a \in Applications
      /\ worker.todo # <<>> /\ runs[r].lifecycle \in {"running", "cancelling"}
      /\ candidates[r][a].state = "evaluating" /\ candidates[r][a].proof # NoProof
      /\ worker.stage \in 1..Len(Stages) /\ <<r, a, Stage, 1>> \in OnRecord(calls)
  BY <1>1, WorkerAt DEF RunsInv, WorkerInv, BuildPcs, Stage
<1>3. /\ StoreInv' /\ Advances /\ Settles
      /\ runs' = runs /\ candidates' = candidates /\ OnRecord(calls') = OnRecord(calls)
  BY <1>1, LastCallIsOne, MarkMoves DEF Transmit, RunsInv
<1>4. Moves("dispatching") /\ worker'.stage = worker.stage
  BY <1>2, GotoMoves DEF WorkerPcs, Transmit
<1>5. WorkerInv' /\ CommitInv'
  BY <1>1, <1>2, <1>3, <1>4
  DEF WorkerRest, Up, Moves, Candidate, Stage, WorkerInv, CommitInv, BuildPcs, CommitPcs
<1>6. QED  BY <1>1, <1>3, <1>4, <1>5, QuietStep DEF Moves

LEMMA AnswerStep == RunsInv /\ Answer => RunsInv' /\ Settles
<1> SUFFICES ASSUME RunsInv, Answer PROVE RunsInv' /\ Settles
  OBVIOUS
<1> DEFINE r == worker.run  a == Candidate
<1>1. /\ Up /\ worker.pc = "dispatching" /\ WorkerRest /\ UNCHANGED <<apps, art, journal>>
      /\ Fault \/ NoFault
  BY DEF Answer, At
<1>2. /\ worker \in WorkerRows /\ r \in Runs /\ a \in Applications
      /\ worker.todo # <<>> /\ runs[r].lifecycle \in {"running", "cancelling"}
      /\ candidates[r][a].state = "evaluating" /\ candidates[r][a].proof # NoProof
      /\ worker.stage \in 1..Len(Stages) /\ Len(Stages) \in Nat
  BY <1>1, WorkerAt, ResumeStoreAssumption DEF RunsInv, WorkerInv, BuildPcs
<1>3. /\ StoreInv' /\ Advances /\ Settles
      /\ runs'[r].lifecycle = runs[r].lifecycle /\ candidates' = candidates
  <2>1. ASSUME NEW state \in {"settled", "not_transmitted", "indeterminate"}, NEW cost,
               ResolveCall(LastCall, state, cost)
        PROVE  /\ StoreInv' /\ Advances /\ Settles
               /\ runs'[r].lifecycle = runs[r].lifecycle /\ candidates' = candidates
    BY <1>1, <1>2, <2>1, LastCallIsOne, ResolveMoves DEF RunsInv
  <2>2. QED  BY <2>1 DEF Answer
<1>4. CASE Abandon("run_execution_failure")
  <2>1. Moves("failing")
    BY <1>2, <1>4, AbandonMoves DEF CandidateReasons
  <2>2. WorkerInv' /\ CommitInv'
    BY <1>1, <1>2, <1>3, <2>1, FailingKeeps DEF WorkerRest, Up
  <2>3. QED  BY <1>1, <1>3, <2>1, <2>2, QuietStep DEF Moves
<1>5. CASE NextStage \/ AskAgain
  <2>1. \/ Moves("recheck")
        \/ Moves("build") /\ worker'.stage \in 1..Len(Stages)
    <3>1. CASE AskAgain
      BY <1>2, <3>1 DEF AskAgain, WorkerRows, WorkerPcs, Moves
    <3>2. worker.stage + 1 \in Nat /\ (worker.stage # Len(Stages) => worker.stage + 1 \in 1..Len(Stages))
      BY <1>2
    <3>3. CASE NextStage /\ worker.stage = Len(Stages)
      <4>1. worker' = [worker EXCEPT !.pc = "recheck", !.stage = worker.stage + 1, !.tries = 0]
        BY <1>2, <3>3 DEF NextStage, WorkerRows
      <4>2. QED  BY <1>2, <3>2, <4>1, BuildMoves DEF WorkerPcs
    <3>4. CASE NextStage /\ worker.stage # Len(Stages)
      <4>1. worker' = [worker EXCEPT !.pc = "build", !.stage = worker.stage + 1, !.tries = 0]
        BY <1>2, <3>4 DEF NextStage, WorkerRows
      <4>2. QED  BY <1>2, <3>2, <3>4, <4>1, BuildMoves DEF WorkerPcs
    <3>5. QED  BY <1>5, <3>1, <3>3, <3>4
  <2>2. WorkerInv' /\ CommitInv'
    BY <1>1, <1>2, <1>3, <2>1
    DEF WorkerRest, Up, Moves, Candidate, WorkerInv, CommitInv, BuildPcs, CommitPcs
  <2>3. QED  BY <1>1, <1>3, <2>1, <2>2, QuietStep DEF Moves
<1>6. QED  BY <1>4, <1>5 DEF Answer, Repair, CompleteRoles

-----------------------------------------------------------------------------
(* The commit                                                              *)

\* Artifact work begins where nothing is related to the Application: the
\* source is the one that was admitted, and nothing was made before.
LEMMA RecheckStep == RunsInv /\ Recheck => RunsInv' /\ Settles
<1> SUFFICES ASSUME RunsInv, Recheck PROVE RunsInv' /\ Settles
  OBVIOUS
<1> DEFINE r == worker.run  a == Candidate
<1>1. /\ Up /\ worker.pc = "recheck" /\ WorkerRest /\ UNCHANGED <<apps, art, journal>>
      /\ Fault \/ NoFault
  BY DEF Recheck, At
<1>2. /\ worker \in WorkerRows /\ r \in Runs /\ a \in Applications
      /\ worker.todo # <<>> /\ runs[r].lifecycle \in {"running", "cancelling"}
      /\ candidates[r][a].state = "evaluating" /\ candidates[r][a].proof # NoProof
      /\ candidates[r][a] \in CandidateRows
  BY <1>1, WorkerAt DEF RunsInv, WorkerInv, BuildPcs, StoreInv, StoreTypeOK
<1>3. CASE Abandon("run_execution_failure") /\ UNCHANGED storeVars
  BY <1>1, <1>2, <1>3, AbandonStep DEF CandidateReasons
<1>4. CASE Abandon("spend_limited") /\ UNCHANGED storeVars
  BY <1>1, <1>2, <1>4, AbandonStep DEF CandidateReasons
<1>5. CASE Goto("ending") /\ UNCHANGED storeVars
  <2>1. worker' \in WorkerRows /\ worker'.pc = "ending" /\ worker'.run = r
    BY <1>2, <1>5, GotoMoves DEF WorkerPcs, Moves
  <2>2. StoreInv' /\ Advances /\ Settles /\ runs' = runs
    BY <1>5, StoreStands DEF RunsInv, storeVars
  <2>3. QED  BY <1>1, <1>2, <2>1, <2>2, BetweenStep
<1>6. CASE /\ Unchanged(a) /\ candidates[r][a].set = "none"
           /\ StartArtifactSet(r, a) /\ Goto("intent")
  <2>1. /\ StoreInv' /\ Settles /\ runs' = runs
        /\ \A q \in Runs, b \in Applications :
              <<q, b>> # <<r, a>> => candidates'[q][b] = candidates[q][b]
    BY <1>2, <1>6, CandidateMoves DEF RunsInv
  <2>2. candidates'[r][a].state = "evaluating" /\ candidates'[r][a].set = "recoverable"
    BY <1>2, <1>6 DEF StartArtifactSet, RunsInv, StoreInv, StoreTypeOK, CandidateRows
  <2>3. Related(a) = {}
    <3>1. candidates[r][a].proof[2] = {}
      BY <1>2 DEF RunsInv, StoreInv, ProofsAreFresh
    <3>2. QED  BY <1>6, <3>1 DEF Unchanged, Source
  <2>4. art[r][a] = NoArtifacts
    BY <1>2, <1>6 DEF RunsInv, EffectsInv, ArtInv
  <2>5. Moves("intent")
    BY <1>2, <1>6, GotoMoves DEF WorkerPcs
  <2>6. WorkerInv'
    BY <1>1, <1>2, <2>1, <2>2, <2>5
    DEF WorkerRest, Up, Moves, Candidate, WorkerInv, BuildPcs, CommitPcs
  <2>7. CommitInv'
    <3>1. Candidate' = a /\ Related(a)' = {}
      BY <1>1, <2>3, <2>5 DEF Moves, Candidate, Related
    <3>2. Made(NoArtifacts, "intent")
      BY DEF NoArtifacts, Made
    <3>3. Made(art'[r][a], "intent")
      BY <1>1, <2>4, <3>2
    <3>4. QED  BY <2>2, <2>5, <3>1, <3>3 DEF Moves, CommitInv, CommitPcs
  <2>8. EffectsInv'
    <3>1. /\ JournalInv' /\ ArtInv'
      BY <1>1, <1>2, <2>1, <2>2
      DEF RunsInv, EffectsInv, JournalInv, ArtInv, Related
    <3>2. CompletedIsWhole' /\ CleanedIsUnrelated'
      BY <1>1, <1>2, <2>1, <2>2 DEF RunsInv, EffectsInv, CompletedIsWhole, CleanedIsUnrelated
    <3>3. QED  BY <3>1, <3>2 DEF EffectsInv
  <2>9. ProcessTypeOK' /\ EditsAreFaults'
    BY <1>1, <2>5, WorkerTypes DEF RunsInv, ProcessTypeOK, Moves
  <2>10. EntriesInv'
    BY <1>1 DEF RunsInv, EntriesInv, WorkerRest, Up, Unresolved
  <2>11. QED  BY <2>1, <2>6, <2>7, <2>8, <2>9, <2>10 DEF RunsInv
<1>7. QED  BY <1>3, <1>4, <1>5, <1>6 DEF Recheck

\* What is known of a commit in progress.
LEMMA CommitAt ==
    ASSUME RunsInv, Up, worker.pc \in CommitPcs
    PROVE  /\ worker \in WorkerRows /\ worker.run \in Runs /\ Candidate \in Applications
           /\ worker.todo # <<>> /\ runs[worker.run].lifecycle \in {"running", "cancelling"}
           /\ candidates[worker.run][Candidate].state = "evaluating"
           /\ candidates[worker.run][Candidate].set = "recoverable"
           /\ Made(art[worker.run][Candidate], worker.pc)
           /\ art[worker.run][Candidate] \in ArtRows /\ journal[worker.run] \in EntryRows
<1>1. worker.run \in Runs /\ Candidate \in Applications
  BY WorkerAt DEF CommitPcs
<1>2. QED
  BY <1>1, WorkerAt DEF RunsInv, ProcessTypeOK, WorkerInv, CommitInv, CommitPcs

\* An effect of the commit: it is that of the candidate at work and no other.
LEMMA MakingStep ==
    ASSUME RunsInv, Up, worker.pc \in {"resume", "publish", "note", "attach"},
           NEW pc \in {"resume_sent", "published", "note_sent", "attach_sent"}, Goto(pc),
           pc # "resume_sent" => journal[worker.run].resume,
           NEW made \in ArtRows, Made(made, pc),
           art' = [art EXCEPT ![worker.run][Candidate] = made],
           WorkerRest, UNCHANGED <<storeVars, apps, journal>>, NoFault
    PROVE  RunsInv' /\ Settles
<1> DEFINE r == worker.run  a == Candidate
<1>1. /\ worker \in WorkerRows /\ r \in Runs /\ a \in Applications
      /\ worker.todo # <<>> /\ runs[r].lifecycle \in {"running", "cancelling"}
      /\ candidates[r][a].state = "evaluating" /\ candidates[r][a].set = "recoverable"
      /\ Related(a) = {} /\ journal[r].app = a /\ journal[r].resolution = "active"
  BY CommitAt DEF RunsInv, CommitInv, CommitPcs
<1>2. /\ art \in [Runs -> [Applications -> ArtRows]] /\ journal \in [Runs -> EntryRows]
      /\ storeVars' = storeVars /\ candidates' = candidates /\ runs' = runs /\ calls' = calls
      /\ apps' = apps /\ journal' = journal
  BY DEF RunsInv, ProcessTypeOK, storeVars
<1>3. /\ art'[r][a] = made
      /\ \A q \in Runs, b \in Applications : <<q, b>> # <<r, a>> => art'[q][b] = art[q][b]
      /\ art' \in [Runs -> [Applications -> ArtRows]]
  BY <1>1, <1>2
<1>4. Moves(pc)
  BY <1>1, GotoMoves DEF WorkerPcs
<1>5. ProcessTypeOK' /\ EditsAreFaults'
  BY <1>2, <1>3, <1>4, WorkerTypes DEF RunsInv, Moves
<1>6. StoreInv' /\ Settles
  BY <1>2, StoreStands DEF RunsInv
<1>7. WorkerInv'
  BY <1>1, <1>2, <1>4
  DEF WorkerRest, Up, Moves, Candidate, WorkerInv, BuildPcs, CommitPcs
<1>8. made.linked <=> pc = "attach_sent"
  BY DEF Made
<1>9. \A b \in Applications : Related(b)' = IF b = a /\ made.linked THEN {r} ELSE Related(b)
  <2> SUFFICES ASSUME NEW b \in Applications, NEW q \in Runs
               PROVE  art'[q][b].linked <=> (IF b = a /\ made.linked THEN q = r ELSE art[q][b].linked)
    BY <1>1 DEF Related
  <2>1. ~ art[q][a].linked
    BY <1>1 DEF Related
  <2>2. QED  BY <1>3, <2>1
<1>10. CommitInv'
  <2>1. Candidate' = a
    BY <1>4 DEF Moves, Candidate
  <2>2. pc # "attach_sent" => Related(a)' = {}
    <3>1. Related(a)' = IF made.linked THEN {r} ELSE Related(a)
      BY <1>1, <1>9, <2>1
    <3>2. QED  BY <1>1, <1>8, <3>1
  <2>3. QED  BY <1>1, <1>2, <1>3, <1>4, <2>1, <2>2 DEF Moves, CommitInv, CommitPcs
<1>11. EffectsInv'
  <2>1. JournalInv'
    BY <1>2 DEF RunsInv, EffectsInv, JournalInv
  <2>2. ArtInv'
    <3>1. \A q \in Runs, b \in Applications :
              candidates'[q][b].set = "none" => art'[q][b] = NoArtifacts
      BY <1>1, <1>2, <1>3 DEF RunsInv, EffectsInv, ArtInv
    <3>2. \A b \in Applications : \A p, q \in Related(b)' : p = q
      BY <1>9 DEF RunsInv, EffectsInv, ArtInv
    <3>3. QED  BY <3>1, <3>2 DEF ArtInv
  <2>3. CompletedIsWhole'
    BY <1>1, <1>2, <1>3 DEF RunsInv, EffectsInv, CompletedIsWhole
  <2>4. CleanedIsUnrelated'
    <3> SUFFICES ASSUME NEW q \in Runs, journal[q].resolution = "cleaned"
                 PROVE  art'[q][journal[q].app].resume # "live" /\ ~art'[q][journal[q].app].linked
      BY <1>2 DEF CleanedIsUnrelated
    <3>1. q # r /\ journal[q].app \in Applications
      BY <1>1 DEF RunsInv, EffectsInv, JournalInv
    <3>2. QED  BY <1>3, <3>1 DEF RunsInv, EffectsInv, CleanedIsUnrelated
  <2>5. QED  BY <2>1, <2>2, <2>3, <2>4 DEF EffectsInv
<1>12. EntriesInv'
  BY <1>2 DEF RunsInv, EntriesInv, WorkerRest, Up, Unresolved
<1>13. QED  BY <1>5, <1>6, <1>7, <1>10, <1>11, <1>12 DEF RunsInv

\* What the journal records of the commit, before and after its effects.
LEMMA RecordingStep ==
    ASSUME RunsInv, Up, worker.pc \in CommitPcs, NEW pc \in CommitPcs, Goto(pc),
           NEW entry \in EntryRows, entry.app = Candidate,
           pc \in {"publish", "note", "attach"} => entry.resume,
           entry.resolution = IF pc = "complete" THEN "completed" ELSE "active",
           pc \in {"resume", "publish", "note", "attach", "complete"},
           Made(art[worker.run][Candidate], pc),
           pc # "complete" => Related(Candidate) = {},
           journal' = [journal EXCEPT ![worker.run] = entry],
           WorkerRest, UNCHANGED <<storeVars, apps, art>>, NoFault
    PROVE  RunsInv' /\ Settles
<1> DEFINE r == worker.run  a == Candidate
<1>1. /\ worker \in WorkerRows /\ r \in Runs /\ a \in Applications
      /\ worker.todo # <<>> /\ runs[r].lifecycle \in {"running", "cancelling"}
      /\ candidates[r][a].state = "evaluating" /\ candidates[r][a].set = "recoverable"
  BY CommitAt
<1>2. /\ art \in [Runs -> [Applications -> ArtRows]] /\ journal \in [Runs -> EntryRows]
      /\ storeVars' = storeVars /\ candidates' = candidates /\ runs' = runs /\ calls' = calls
      /\ apps' = apps /\ art' = art
  BY DEF RunsInv, ProcessTypeOK, storeVars
<1>3. /\ journal'[r] = entry /\ \A q \in Runs \ {r} : journal'[q] = journal[q]
      /\ journal' \in [Runs -> EntryRows]
  BY <1>1, <1>2
<1>4. Moves(pc)
  BY <1>1, GotoMoves DEF WorkerPcs, CommitPcs
<1>5. ProcessTypeOK' /\ EditsAreFaults'
  BY <1>2, <1>3, <1>4, WorkerTypes DEF RunsInv, Moves
<1>6. StoreInv' /\ Settles
  BY <1>2, StoreStands DEF RunsInv
<1>7. WorkerInv'
  BY <1>1, <1>2, <1>4
  DEF WorkerRest, Up, Moves, Candidate, WorkerInv, BuildPcs, CommitPcs
<1>8. CommitInv'
  <2>1. Candidate' = a /\ Related(a)' = Related(a)
    BY <1>2, <1>4 DEF Moves, Candidate, Related
  <2>2. QED  BY <1>1, <1>2, <1>3, <1>4, <2>1 DEF Moves, CommitInv, CommitPcs
<1>9. EffectsInv'
  <2>1. JournalInv'
    <3> SUFFICES ASSUME NEW q \in Runs
                 PROVE  /\ journal'[q].resolution # "none" =>
                              /\ journal'[q].app \in Applications
                              /\ candidates[q][journal'[q].app].set # "none"
                        /\ journal'[q].resolution = "active" =>
                              candidates[q][journal'[q].app].state # "completed"
      BY <1>2 DEF JournalInv
    <3>1. CASE q = r
      BY <1>1, <1>3, <3>1
    <3>2. CASE q # r
      BY <1>3, <3>2 DEF RunsInv, EffectsInv, JournalInv
    <3>3. QED  BY <3>1, <3>2
  <2>2. ArtInv' /\ CompletedIsWhole'
    BY <1>2 DEF RunsInv, EffectsInv, ArtInv, CompletedIsWhole, Related
  <2>3. CleanedIsUnrelated'
    BY <1>2, <1>3 DEF RunsInv, EffectsInv, CleanedIsUnrelated
  <2>4. QED  BY <2>1, <2>2, <2>3 DEF EffectsInv
<1>10. EntriesInv'
  BY DEF RunsInv, EntriesInv, WorkerRest, Up
<1>11. QED  BY <1>5, <1>6, <1>7, <1>8, <1>9, <1>10 DEF RunsInv

\* The commit's except clause is entered with an active entry that names the
\* candidate, and without a doubt only when it names the Resume.
LEMMA CleanUpStep ==
    ASSUME RunsInv, Up, worker.pc \in CommitPcs \ {"intent", "complete"}, NEW doubt \in BOOLEAN,
           CleanUp(doubt), ~ doubt => journal[worker.run].resume,
           WorkerRest, UNCHANGED storeVars, UNCHANGED <<apps, art, journal>>, Fault \/ NoFault
    PROVE  RunsInv' /\ Settles
<1>1. /\ worker \in WorkerRows /\ worker.run \in Runs
      /\ worker.todo # <<>> /\ runs[worker.run].lifecycle \in {"running", "cancelling"}
      /\ candidates[worker.run][Candidate].state = "evaluating"
      /\ journal[worker.run].app = Candidate /\ journal[worker.run].resolution = "active"
  BY CommitAt DEF RunsInv, CommitInv, CommitPcs
<1>2. Moves("cleaning") /\ worker'.doubt = doubt
  BY <1>1, CleanUpMoves
<1>3. StoreInv' /\ Advances /\ Settles
  BY StoreStands DEF RunsInv
<1>4. WorkerInv' /\ CommitInv'
  BY <1>1, <1>2, CleaningKeeps DEF WorkerRest, Up, storeVars
<1>5. QED  BY <1>2, <1>3, <1>4, QuietStep DEF Moves

LEMMA WriteIntentStep == RunsInv /\ WriteIntent => RunsInv' /\ Settles
<1> SUFFICES ASSUME RunsInv, WriteIntent PROVE RunsInv' /\ Settles
  OBVIOUS
<1> DEFINE entry == [NoEntry EXCEPT !.app = Candidate, !.resolution = "active"]
<1>1. /\ Up /\ worker.pc = "intent" /\ WorkerRest /\ UNCHANGED <<storeVars, apps, art>>
      /\ NoFault /\ Goto("resume") /\ journal' = [journal EXCEPT ![worker.run] = entry]
  BY DEF WriteIntent, At, NoFault
<1>2. /\ Candidate \in Applications /\ Made(art[worker.run][Candidate], "intent")
      /\ Related(Candidate) = {}
  BY <1>1, CommitAt DEF RunsInv, CommitInv, CommitPcs
<1>3. entry \in EntryRows /\ entry.app = Candidate /\ entry.resolution = "active"
  BY <1>2 DEF NoEntry, EntryRows
<1>4. Made(art[worker.run][Candidate], "resume")
  BY <1>2 DEF Made
<1> HIDE DEF entry
<1>5. QED  BY <1>1, <1>2, <1>3, <1>4, RecordingStep DEF CommitPcs

\* The four effects.  A request that fails leaves the commit to its except
\* clause.
LEMMA CreateResumeStep == RunsInv /\ CreateResume => RunsInv' /\ Settles
<1> SUFFICES ASSUME RunsInv, CreateResume PROVE RunsInv' /\ Settles
  OBVIOUS
<1>1. /\ Up /\ worker.pc = "resume" /\ WorkerRest /\ UNCHANGED <<storeVars, apps, journal>>
  BY DEF CreateResume, Send, At
<1>2. /\ art[worker.run][Candidate] \in ArtRows /\ Made(art[worker.run][Candidate], "resume")
      /\ art \in [Runs -> [Applications -> ArtRows]]
      /\ worker.run \in Runs /\ Candidate \in Applications
  BY <1>1, CommitAt DEF CommitPcs, RunsInv, ProcessTypeOK
<1> DEFINE made == [art[worker.run][Candidate] EXCEPT !.resume = "live"]
<1>3. CASE art' = art /\ CleanUp(TRUE) /\ Fault
  BY <1>1, <1>3, CleanUpStep DEF CommitPcs
<1>4. CASE /\ art' = [art EXCEPT ![worker.run][Candidate]["resume"] = "live"]
           /\ Goto("resume_sent") /\ NoFault
  <2>1. art' = [art EXCEPT ![worker.run][Candidate] = made]
    BY <1>2, <1>4
  <2>2. made \in ArtRows /\ Made(made, "resume_sent")
    BY <1>2 DEF ArtRows, Pages, Made
  <2> HIDE DEF made
  <2>3. QED  BY <1>1, <1>4, <2>1, <2>2, MakingStep
<1>5. QED  BY <1>3, <1>4 DEF CreateResume, Send

LEMMA PublishStep == RunsInv /\ Publish => RunsInv' /\ Settles
<1> SUFFICES ASSUME RunsInv, Publish PROVE RunsInv' /\ Settles
  OBVIOUS
<1>1. /\ Up /\ worker.pc = "publish" /\ WorkerRest /\ UNCHANGED <<storeVars, apps, journal>>
      /\ NoFault
  BY DEF Publish, At, NoFault
<1>2. /\ art[worker.run][Candidate] \in ArtRows /\ Made(art[worker.run][Candidate], "publish")
      /\ art \in [Runs -> [Applications -> ArtRows]]
      /\ worker.run \in Runs /\ Candidate \in Applications /\ journal[worker.run].resume
  BY <1>1, CommitAt DEF CommitPcs, RunsInv, ProcessTypeOK, CommitInv
<1> DEFINE made == [art[worker.run][Candidate] EXCEPT !.pdf = TRUE]
<1>3. CASE art' = art /\ CleanUp(FALSE)
  BY <1>1, <1>2, <1>3, CleanUpStep DEF CommitPcs
<1>4. CASE art' = [art EXCEPT ![worker.run][Candidate].pdf = TRUE] /\ Goto("published")
  <2>1. art' = [art EXCEPT ![worker.run][Candidate] = made]
    BY <1>2, <1>4
  <2>2. made \in ArtRows /\ Made(made, "published")
    BY <1>2 DEF ArtRows, Pages, Made
  <2> HIDE DEF made
  <2>3. QED  BY <1>1, <1>2, <1>4, <2>1, <2>2, MakingStep
<1>5. QED  BY <1>3, <1>4 DEF Publish

LEMMA CreateNoteStep == RunsInv /\ CreateNote => RunsInv' /\ Settles
<1> SUFFICES ASSUME RunsInv, CreateNote PROVE RunsInv' /\ Settles
  OBVIOUS
<1>1. /\ Up /\ worker.pc = "note" /\ WorkerRest /\ UNCHANGED <<storeVars, apps, journal>>
  BY DEF CreateNote, Send, At
<1>2. /\ art[worker.run][Candidate] \in ArtRows /\ Made(art[worker.run][Candidate], "note")
      /\ art \in [Runs -> [Applications -> ArtRows]]
      /\ worker.run \in Runs /\ Candidate \in Applications /\ journal[worker.run].resume
  BY <1>1, CommitAt DEF CommitPcs, RunsInv, ProcessTypeOK, CommitInv
<1> DEFINE made == [art[worker.run][Candidate] EXCEPT !.note = "live"]
<1>3. CASE art' = art /\ CleanUp(TRUE) /\ Fault
  BY <1>1, <1>3, CleanUpStep DEF CommitPcs
<1>4. CASE /\ art' = [art EXCEPT ![worker.run][Candidate]["note"] = "live"]
           /\ Goto("note_sent") /\ NoFault
  <2>1. art' = [art EXCEPT ![worker.run][Candidate] = made]
    BY <1>2, <1>4
  <2>2. made \in ArtRows /\ Made(made, "note_sent")
    BY <1>2 DEF ArtRows, Pages, Made
  <2> HIDE DEF made
  <2>3. QED  BY <1>1, <1>2, <1>4, <2>1, <2>2, MakingStep
<1>5. QED  BY <1>3, <1>4 DEF CreateNote, Send

LEMMA AttachStep == RunsInv /\ Attach => RunsInv' /\ Settles
<1> SUFFICES ASSUME RunsInv, Attach PROVE RunsInv' /\ Settles
  OBVIOUS
<1>1. /\ Up /\ worker.pc = "attach" /\ WorkerRest /\ UNCHANGED <<storeVars, apps, journal>>
  BY DEF Attach, Send, At
<1>2. /\ art[worker.run][Candidate] \in ArtRows /\ Made(art[worker.run][Candidate], "attach")
      /\ art \in [Runs -> [Applications -> ArtRows]]
      /\ worker.run \in Runs /\ Candidate \in Applications /\ journal[worker.run].resume
  BY <1>1, CommitAt DEF CommitPcs, RunsInv, ProcessTypeOK, CommitInv
<1> DEFINE made == [art[worker.run][Candidate] EXCEPT !.linked = TRUE]
<1>3. CASE art' = art /\ CleanUp(FALSE) /\ Fault
  BY <1>1, <1>2, <1>3, CleanUpStep DEF CommitPcs
<1>4. CASE /\ art' = [art EXCEPT ![worker.run][Candidate]["linked"] = TRUE]
           /\ Goto("attach_sent") /\ NoFault
  <2>1. art' = [art EXCEPT ![worker.run][Candidate] = made]
    BY <1>2, <1>4
  <2>2. made \in ArtRows /\ Made(made, "attach_sent")
    BY <1>2 DEF ArtRows, Pages, Made
  <2> HIDE DEF made
  <2>3. QED  BY <1>1, <1>2, <1>4, <2>1, <2>2, MakingStep
<1>5. QED  BY <1>3, <1>4 DEF Attach, Send

\* An answer that arrives, or is lost.
LEMMA ReceiveStep ==
    ASSUME RunsInv, NEW sent \in {"resume_sent", "note_sent", "attach_sent"},
           NEW pc \in {"publish", "note", "attach", "complete"}, NEW entry \in EntryRows,
           NEW doubt \in BOOLEAN, Receive(sent, pc, entry, doubt),
           entry.app = Entry.app, pc # "complete" => entry.resume,
           entry.resolution = IF pc = "complete" THEN "completed" ELSE Entry.resolution,
           <<sent, pc>> \in {<<"resume_sent", "publish">>, <<"note_sent", "attach">>,
                             <<"attach_sent", "complete">>},
           sent = "resume_sent" => doubt
    PROVE  RunsInv' /\ Settles
<1>1. /\ Up /\ worker.pc = sent /\ WorkerRest /\ UNCHANGED <<storeVars, apps, art>>
      /\ sent \in CommitPcs \ {"intent", "complete"} /\ pc \in CommitPcs
  BY DEF Receive, At, CommitPcs
<1>2. /\ Made(art[worker.run][Candidate], sent) /\ worker.run \in Runs
      /\ Entry.app = Candidate /\ Entry.resolution = "active"
      /\ sent # "resume_sent" => Entry.resume
      /\ sent # "attach_sent" => Related(Candidate) = {}
  BY <1>1, CommitAt DEF Entry, RunsInv, CommitInv, CommitPcs
<1>3. CASE journal' = journal /\ CleanUp(doubt) /\ Fault
  BY <1>1, <1>2, <1>3, CleanUpStep DEF Entry
<1>4. CASE journal' = [journal EXCEPT ![worker.run] = entry] /\ Goto(pc) /\ NoFault
  <2>1. Made(art[worker.run][Candidate], pc)
    BY <1>2 DEF Made
  <2>2. pc \in {"resume", "publish", "note", "attach", "complete"}
        /\ (pc # "complete" => Related(Candidate) = {})
        /\ (pc \in {"publish", "note", "attach"} => entry.resume)
        /\ entry.resolution = (IF pc = "complete" THEN "completed" ELSE "active")
        /\ entry.app = Candidate
    BY <1>2
  <2>3. QED  BY <1>1, <1>4, <2>1, <2>2, RecordingStep
<1>5. QED  BY <1>1, <1>3, <1>4 DEF Receive

\* The three answers, and the PDF that is on record.
LEMMA AnswersStep ==
    RunsInv /\ (ResumeCreated \/ NoteCreated \/ Attached \/ PdfPublished) => RunsInv' /\ Settles
<1> SUFFICES ASSUME RunsInv, ResumeCreated \/ NoteCreated \/ Attached \/ PdfPublished
             PROVE  RunsInv' /\ Settles
  OBVIOUS
<1>1. /\ Up /\ worker.pc \in {"resume_sent", "note_sent", "attach_sent", "published"}
      /\ worker.pc \in CommitPcs
  BY DEF ResumeCreated, NoteCreated, Attached, PdfPublished, Receive, At, CommitPcs
<1>2. /\ Entry \in EntryRows /\ journal \in [Runs -> EntryRows] /\ worker.run \in Runs
      /\ worker.pc # "resume_sent" => Entry.resume
  BY <1>1, CommitAt DEF Entry, RunsInv, ProcessTypeOK, CommitInv, CommitPcs
<1>3. CASE ResumeCreated
  <2> DEFINE entry == [Entry EXCEPT !.resume = TRUE]
  <2>1. /\ entry \in EntryRows /\ entry.app = Entry.app /\ entry.resume
        /\ entry.resolution = Entry.resolution
    BY <1>2 DEF EntryRows
  <2>2. Receive("resume_sent", "publish", entry, TRUE)
    BY <1>3 DEF ResumeCreated
  <2> HIDE DEF entry
  <2>3. QED  BY <2>1, <2>2, ReceiveStep
<1>4. CASE NoteCreated
  <2> DEFINE entry == [Entry EXCEPT !.note = TRUE]
  <2>1. Receive("note_sent", "attach", entry, TRUE) /\ worker.pc = "note_sent"
    BY <1>4 DEF NoteCreated, Receive, At
  <2>2. /\ entry \in EntryRows /\ entry.app = Entry.app /\ entry.resume
        /\ entry.resolution = Entry.resolution
    BY <1>2, <2>1 DEF EntryRows
  <2> HIDE DEF entry
  <2>3. QED  BY <2>1, <2>2, ReceiveStep
<1>5. CASE Attached
  <2> DEFINE entry == [Entry EXCEPT !.resolution = "completed"]
  <2>1. /\ entry \in EntryRows /\ entry.app = Entry.app /\ entry.resolution = "completed"
    BY <1>2 DEF EntryRows
  <2>2. Receive("attach_sent", "complete", entry, FALSE)
    BY <1>5 DEF Attached
  <2> HIDE DEF entry
  <2>3. QED  BY <2>1, <2>2, ReceiveStep
<1>6. CASE PdfPublished
  <2> DEFINE entry == [Entry EXCEPT !.pdf = TRUE]
  <2>1. /\ worker.pc = "published" /\ WorkerRest /\ UNCHANGED <<storeVars, apps, art>>
        /\ NoFault /\ Goto("note") /\ journal' = [journal EXCEPT ![worker.run] = entry]
    BY <1>2, <1>6 DEF PdfPublished, At, NoFault, Entry
  <2>2. /\ Made(art[worker.run][Candidate], "published") /\ Related(Candidate) = {}
        /\ Entry.app = Candidate /\ Entry.resolution = "active"
    BY <1>1, <2>1, CommitAt DEF Entry, RunsInv, CommitInv, CommitPcs
  <2>3. /\ entry \in EntryRows /\ entry.app = Candidate /\ entry.resume
        /\ entry.resolution = "active"
    BY <1>2, <2>1, <2>2 DEF EntryRows
  <2>4. Made(art[worker.run][Candidate], "note")
    BY <2>2 DEF Made
  <2> HIDE DEF entry
  <2>5. QED  BY <1>1, <2>1, <2>2, <2>3, <2>4, RecordingStep DEF CommitPcs
<1>7. QED  BY <1>3, <1>4, <1>5, <1>6

\* A candidate is completed when all four effects are there.
LEMMA CompleteStep == RunsInv /\ Complete => RunsInv' /\ Settles
<1> SUFFICES ASSUME RunsInv, Complete PROVE RunsInv' /\ Settles
  OBVIOUS
<1> DEFINE r == worker.run  a == Candidate
<1>1. /\ Up /\ worker.pc = "complete" /\ WorkerRest /\ UNCHANGED <<apps, art, journal>>
      /\ NoFault /\ NextCandidate /\ CompleteCandidate(r, a)
  BY DEF Complete, At, environment, NoFault
<1>2. /\ worker \in WorkerRows /\ r \in Runs /\ a \in Applications
      /\ worker.todo # <<>> /\ runs[r].lifecycle \in {"running", "cancelling"}
      /\ candidates[r][a].state = "evaluating"
      /\ Made(art[r][a], "complete") /\ art[r][a] \in ArtRows
      /\ journal[r].app = a /\ journal[r].resolution = "completed"
  BY <1>1, CommitAt DEF CommitPcs, RunsInv, CommitInv
<1>3. /\ StoreInv' /\ Settles
      /\ \A q \in Runs : runs'[q].lifecycle = runs[q].lifecycle
      /\ candidates'[r][a].set = "sealed" /\ candidates[r][a].set # "none"
      /\ \A q \in Runs, b \in Applications :
            <<q, b>> # <<r, a>> => candidates'[q][b] = candidates[q][b]
  BY <1>1, <1>2, CompleteMoves DEF RunsInv
<1>4. worker' \in WorkerRows /\ worker'.pc = "next" /\ worker'.run = r
  BY <1>1, <1>2, NextCandidateMoves
<1>5. WorkerInv' /\ CommitInv'
  BY <1>1, <1>2, <1>3, <1>4, BetweenKeeps DEF WorkerRest, Up
<1>6. ProcessTypeOK' /\ EditsAreFaults'
  BY <1>1, <1>4, WorkerTypes DEF RunsInv, ProcessTypeOK
<1>7. EffectsInv'
  <2>1. JournalInv'
    <3> SUFFICES ASSUME NEW q \in Runs
                 PROVE  /\ journal[q].resolution # "none" =>
                              /\ journal[q].app \in Applications
                              /\ candidates'[q][journal[q].app].set # "none"
                        /\ journal[q].resolution = "active" =>
                              candidates'[q][journal[q].app].state # "completed"
      BY <1>1 DEF JournalInv
    <3>1. CASE q = r
      BY <1>2, <1>3, <3>1
    <3>2. CASE q # r
      BY <1>3, <3>2 DEF RunsInv, EffectsInv, JournalInv
    <3>3. QED  BY <3>1, <3>2
  <2>2. ArtInv'
    BY <1>1, <1>3 DEF RunsInv, EffectsInv, ArtInv, Related
  <2>3. CompletedIsWhole'
    <3>1. art[r][a] = [resume |-> "live", linked |-> TRUE, note |-> "live", pdf |-> TRUE]
      BY <1>2 DEF Made, ArtRows
    <3>2. QED  BY <1>1, <1>3, <3>1 DEF RunsInv, EffectsInv, CompletedIsWhole
  <2>4. CleanedIsUnrelated'
    BY <1>1 DEF RunsInv, EffectsInv, CleanedIsUnrelated
  <2>5. QED  BY <2>1, <2>2, <2>3, <2>4 DEF EffectsInv
<1>8. EntriesInv'
  BY <1>1 DEF RunsInv, EntriesInv, WorkerRest, Up, Unresolved
<1>9. QED  BY <1>3, <1>5, <1>6, <1>7, <1>8 DEF RunsInv

-----------------------------------------------------------------------------
(* Cleanup                                                                 *)

\* What undoing leaves of a candidate's artifacts: no relation it did not have,
\* and nothing live or related when the entry names the Resume and all of it
\* is undone.
LEMMA UndoneLeaves ==
    ASSUME NEW artifacts \in ArtRows, NEW entry \in EntryRows, NEW undo \in SUBSET Effects
    PROVE  /\ Undone(artifacts, entry, undo) \in ArtRows
           /\ Undone(artifacts, entry, undo).linked => artifacts.linked
           /\ undo = Effects /\ entry.resume =>
                 /\ Undone(artifacts, entry, undo).resume # "live"
                 /\ ~ Undone(artifacts, entry, undo).linked
<1> DEFINE linked == artifacts.linked /\ ~(entry.resume /\ "linked" \in undo)
           note == IF entry.note /\ "note" \in undo THEN "archived" ELSE artifacts.note
           pdf == artifacts.pdf /\ ~(entry.pdf /\ "pdf" \in undo)
           resume == IF entry.resume /\ "resume" \in undo THEN "archived" ELSE artifacts.resume
<1>1. artifacts.resume \in Pages /\ artifacts.note \in Pages
      /\ artifacts.linked \in BOOLEAN /\ artifacts.pdf \in BOOLEAN
  BY DEF ArtRows
<1>2. resume \in Pages /\ note \in Pages /\ linked \in BOOLEAN /\ pdf \in BOOLEAN
  BY <1>1 DEF Pages
<1>3. linked => artifacts.linked
  BY <1>1
<1>4. undo = Effects /\ entry.resume => resume # "live" /\ ~ linked
  BY DEF Effects
<1>5. Undone(artifacts, entry, undo) =
          [artifacts EXCEPT !.linked = linked, !.note = note, !.pdf = pdf, !.resume = resume]
  BY DEF Undone, ArtRows
<1> HIDE DEF linked, note, pdf, resume
<1>6. /\ Undone(artifacts, entry, undo) \in ArtRows
      /\ Undone(artifacts, entry, undo).linked = linked
      /\ Undone(artifacts, entry, undo).resume = resume
  BY <1>2, <1>5 DEF ArtRows
<1>7. QED  BY <1>3, <1>4, <1>6

\* The cleanup of an unresolved entry, in the run or after a restart.
LEMMA CleanEntryKeeps ==
    ASSUME RunsInv, NEW r \in Runs, journal[r].resolution = "active",
           NEW failed \in BOOLEAN, NEW doubt \in BOOLEAN, CleanEntry(r, failed, doubt),
           doubt \/ journal[r].resume, UNCHANGED storeVars
    PROVE  /\ EffectsInv'
           /\ art' \in [Runs -> [Applications -> ArtRows]] /\ journal' \in [Runs -> EntryRows]
           /\ \A q \in Runs \ {r} : journal'[q] = journal[q]
<1> DEFINE a == journal[r].app
<1>1. /\ a \in Applications /\ candidates[r][a].set # "none"
      /\ candidates[r][a].state # "completed"
  BY DEF RunsInv, EffectsInv, JournalInv
<1>2. /\ art \in [Runs -> [Applications -> ArtRows]] /\ art[r][a] \in ArtRows
      /\ journal \in [Runs -> EntryRows] /\ journal[r] \in EntryRows
      /\ candidates' = candidates
  BY <1>1 DEF RunsInv, ProcessTypeOK, storeVars
<1>3. PICK undo \in SUBSET Effects :
          /\ ~failed => undo = Effects
          /\ art' = [art EXCEPT ![r][a] = Undone(art[r][a], journal[r], undo)]
          /\ journal' = [journal EXCEPT ![r].resolution = Resolved(failed, doubt)]
  BY <1>2 DEF CleanEntry
<1> DEFINE left == Undone(art[r][a], journal[r], undo)
           entry == [journal[r] EXCEPT !.resolution = Resolved(failed, doubt)]
<1>4. /\ left \in ArtRows /\ (left.linked => art[r][a].linked)
      /\ undo = Effects /\ journal[r].resume => left.resume # "live" /\ ~ left.linked
  BY <1>2, UndoneLeaves
<1>5. /\ entry \in EntryRows /\ entry.app = a
      /\ entry.resolution \in {"active", "cleaned"}
      /\ entry.resolution = "cleaned" => left.resume # "live" /\ ~ left.linked
  <2>1. Resolved(failed, doubt) \in {"active", "cleaned"}
        /\ (Resolved(failed, doubt) = "cleaned" => ~failed /\ ~doubt)
    BY DEF Resolved
  <2>2. /\ entry \in EntryRows /\ entry.app = a /\ entry.resolution = Resolved(failed, doubt)
    BY <1>2, <2>1 DEF EntryRows
  <2> HIDE DEF entry, left
  <2>3. QED  BY <1>3, <1>4, <2>1, <2>2
<1>6. art' = [art EXCEPT ![r][a] = left] /\ journal' = [journal EXCEPT ![r] = entry]
  BY <1>2, <1>3
<1> HIDE DEF left, entry
<1>7. /\ art'[r][a] = left
      /\ \A q \in Runs, b \in Applications : <<q, b>> # <<r, a>> => art'[q][b] = art[q][b]
      /\ art' \in [Runs -> [Applications -> ArtRows]]
  BY <1>1, <1>2, <1>4, <1>6
<1>8. /\ journal'[r] = entry /\ \A q \in Runs \ {r} : journal'[q] = journal[q]
      /\ journal' \in [Runs -> EntryRows]
  BY <1>2, <1>5, <1>6
<1> HIDE DEF a
<1>9. JournalInv'
  <2> SUFFICES ASSUME NEW q \in Runs
               PROVE  /\ journal'[q].resolution # "none" =>
                            /\ journal'[q].app \in Applications
                            /\ candidates[q][journal'[q].app].set # "none"
                      /\ journal'[q].resolution = "active" =>
                            candidates[q][journal'[q].app].state # "completed"
    BY <1>2 DEF JournalInv
  <2>1. CASE q = r
    BY <1>1, <1>5, <1>8, <2>1
  <2>2. CASE q # r
    BY <1>8, <2>2 DEF RunsInv, EffectsInv, JournalInv
  <2>3. QED  BY <2>1, <2>2
<1>10. ArtInv'
  <2>1. \A q \in Runs, b \in Applications :
            candidates'[q][b].set = "none" => art'[q][b] = NoArtifacts
    BY <1>1, <1>2, <1>7 DEF RunsInv, EffectsInv, ArtInv
  <2>2. \A b \in Applications : Related(b)' \subseteq Related(b)
    BY <1>4, <1>7 DEF Related
  <2>3. QED  BY <2>1, <2>2 DEF RunsInv, EffectsInv, ArtInv
<1>11. CompletedIsWhole'
  BY <1>1, <1>2, <1>7 DEF RunsInv, EffectsInv, CompletedIsWhole
<1>12. CleanedIsUnrelated'
  <2> SUFFICES ASSUME NEW q \in Runs, journal'[q].resolution = "cleaned"
               PROVE  /\ art'[q][journal'[q].app].resume # "live"
                      /\ ~art'[q][journal'[q].app].linked
    BY DEF CleanedIsUnrelated
  <2>1. CASE q = r
    BY <1>5, <1>7, <1>8, <2>1
  <2>2. CASE q # r
    <3>1. journal'[q] = journal[q] /\ journal[q].app \in Applications
      BY <1>8, <2>2 DEF RunsInv, EffectsInv, JournalInv
    <3>2. QED  BY <1>7, <2>2, <3>1 DEF RunsInv, EffectsInv, CleanedIsUnrelated
  <2>3. QED  BY <2>1, <2>2
<1>13. QED  BY <1>7, <1>8, <1>9, <1>10, <1>11, <1>12 DEF EffectsInv

LEMMA CleanStep == RunsInv /\ Clean => RunsInv' /\ Settles
<1> SUFFICES ASSUME RunsInv, Clean PROVE RunsInv' /\ Settles
  OBVIOUS
<1>1. /\ Up /\ worker.pc = "cleaning" /\ WorkerRest /\ UNCHANGED <<storeVars, apps>>
      /\ Fault \/ NoFault
      /\ Abandon("artifact_commit_failed")
  BY DEF Clean, At
<1>2. /\ worker \in WorkerRows /\ worker.run \in Runs /\ Candidate \in Applications
      /\ worker.todo # <<>> /\ runs[worker.run].lifecycle \in {"running", "cancelling"}
      /\ candidates[worker.run][Candidate].state = "evaluating"
      /\ journal[worker.run].resolution = "active"
      /\ worker.doubt \/ journal[worker.run].resume
      /\ worker.doubt \in BOOLEAN
  BY <1>1, WorkerAt DEF RunsInv, WorkerInv, CommitInv, WorkerRows
<1>3. /\ EffectsInv' /\ art' \in [Runs -> [Applications -> ArtRows]]
      /\ journal' \in [Runs -> EntryRows]
  <2>1. CASE CleanEntry(worker.run, FALSE, worker.doubt)
    BY <1>1, <1>2, <2>1, CleanEntryKeeps
  <2>2. CASE CleanEntry(worker.run, TRUE, worker.doubt)
    BY <1>1, <1>2, <2>2, CleanEntryKeeps
  <2>3. QED  BY <2>1, <2>2 DEF Clean
<1>4. StoreInv' /\ Settles
  BY <1>1, StoreStands DEF RunsInv
<1>5. Moves("failing")
  BY <1>1, <1>2, AbandonMoves DEF CandidateReasons
<1>6. WorkerInv' /\ CommitInv'
  BY <1>1, <1>2, <1>5, FailingKeeps DEF WorkerRest, Up, storeVars
<1>7. ProcessTypeOK' /\ EditsAreFaults'
  BY <1>1, <1>3, <1>5, WorkerTypes DEF RunsInv, Moves
<1>8. EntriesInv'
  BY <1>1 DEF RunsInv, EntriesInv, WorkerRest, Up
<1>9. QED  BY <1>3, <1>4, <1>6, <1>7, <1>8 DEF RunsInv

-----------------------------------------------------------------------------
(* The end of process(), crash and restart                                 *)

\* The worker at rest.
LEMMA IdleKeeps ==
    ASSUME worker' = Idle
    PROVE  /\ WorkerInv' /\ CommitInv'
           /\ worker' \in WorkerRows
<1>1. <<>> \in Seq(Applications) /\ <<0, {}>> \in Nat \X SUBSET Runs
  OBVIOUS
<1>2. worker'.pc = "idle" /\ worker' \in WorkerRows
  BY <1>1 DEF Idle, WorkerRows, WorkerPcs, CandidateReasons
<1>3. QED  BY <1>2 DEF WorkerInv, CommitInv, BuildPcs, CommitPcs

LEMMA EndStep == RunsInv /\ End => RunsInv' /\ Settles
<1> SUFFICES ASSUME RunsInv, End PROVE RunsInv' /\ Settles
  OBVIOUS
<1>1. /\ Up /\ worker.pc = "ending" /\ WorkerRest /\ UNCHANGED <<apps, art, journal>>
      /\ NoFault /\ worker' = Idle
  BY DEF End, At, environment, NoFault
<1>2. worker.run \in Runs /\ runs[worker.run].lifecycle \in {"running", "cancelling"}
  BY <1>1, WorkerAt
<1>3. StoreInv' /\ Advances /\ Settles
  BY <1>2, CancellationMoves, RunMoves DEF End, RunsInv, Unfinished
<1>4. QED  BY <1>1, <1>3, IdleKeeps, QuietStep

\* A step that leaves the effects alone, of anything but a busy worker.
LEMMA RestStep ==
    ASSUME RunsInv, StoreInv', Advances, UNCHANGED <<art, journal>>,
           ProcessTypeOK', EditsAreFaults', EntriesInv', WorkerInv', CommitInv'
    PROVE  RunsInv'
  BY EffectsStand DEF RunsInv

LEMMA CrashStep == RunsInv /\ Crash => RunsInv' /\ Settles
<1> SUFFICES ASSUME RunsInv, Crash PROVE RunsInv' /\ Settles
  OBVIOUS
<1>1. /\ server' = [state |-> "down", entries |-> {}] /\ starter' = NoStarter
      /\ wake' = FALSE /\ worker' = Idle /\ UNCHANGED storeVars /\ UNCHANGED <<apps, art, journal>>
      /\ Fault
  BY DEF Crash
<1>2. StoreInv' /\ Advances /\ Settles
  BY <1>1, StoreStands DEF RunsInv
<1>3. faults' \in 0..MaxFaults /\ faults <= faults' /\ faults \in Nat
  BY <1>1, FaultsAreCounted DEF RunsInv, ProcessTypeOK
<1>4. ProcessTypeOK'
  <2>1. <<>> \in Seq(Applications)
    OBVIOUS
  <2>2. NoStarter \in [pc : {"none", "selected"}, queue : Seq(Applications),
                       target : Targets \cup {0}, exhausted : BOOLEAN]
    BY <2>1 DEF NoStarter
  <2>3. QED  BY <1>1, <1>3, <2>2, IdleKeeps DEF RunsInv, ProcessTypeOK
<1>5. EditsAreFaults'
  BY <1>1, <1>3 DEF RunsInv, ProcessTypeOK, EditsAreFaults
<1>6. EntriesInv'
  BY <1>1 DEF EntriesInv
<1>7. QED  BY <1>1, <1>2, <1>4, <1>5, <1>6, IdleKeeps, RestStep

\* Startup: the worker is at rest.
LEMMA RestartStep == RunsInv /\ (Restart \/ Serve) => RunsInv' /\ Settles
<1> SUFFICES ASSUME RunsInv, Restart \/ Serve PROVE RunsInv' /\ Settles
  OBVIOUS
<1>1. /\ server.state # "up" /\ UNCHANGED <<storeVars, starter, worker, environment>>
      /\ wake' \in BOOLEAN
      /\ \/ server' = [state |-> "reconciling", entries |-> Unresolved]
         \/ server' = [server EXCEPT !.state = "up"] /\ server.entries = {}
  BY DEF Restart, Serve, RunsInv, ProcessTypeOK
<1>2. worker' = Idle
  BY <1>1 DEF RunsInv, WorkerInv
<1>3. StoreInv' /\ Advances /\ Settles
  BY <1>1, StoreStands DEF RunsInv
<1>4. server' \in [state : {"down", "reconciling", "up"}, entries : SUBSET Runs]
  BY <1>1 DEF RunsInv, ProcessTypeOK, Unresolved
<1>5. ProcessTypeOK' /\ EditsAreFaults'
  BY <1>1, <1>4 DEF RunsInv, ProcessTypeOK, EditsAreFaults, environment
<1>6. EntriesInv'
  BY <1>1, <1>4 DEF RunsInv, ProcessTypeOK, EntriesInv, Unresolved, environment
<1>7. QED  BY <1>1, <1>2, <1>3, <1>5, <1>6, IdleKeeps, RestStep DEF environment

LEMMA ReconcileStep ==
    ASSUME RunsInv, NEW r \in Runs, ReconcileEntry(r)
    PROVE  RunsInv' /\ Settles
<1> DEFINE a == journal[r].app
<1>1. /\ server.state = "reconciling" /\ r \in server.entries
      /\ server' = [server EXCEPT !.entries = @ \ {r}]
      /\ UNCHANGED <<storeVars, starter, wake, worker, apps>>
      /\ Fault \/ NoFault
  BY DEF ReconcileEntry
<1>2. /\ worker = Idle /\ worker' = Idle /\ journal[r].resolution = "active"
      /\ a \in Applications
  BY <1>1 DEF RunsInv, WorkerInv, EntriesInv, Unresolved, EffectsInv, JournalInv
<1>3. StoreInv' /\ Advances /\ Settles
  BY <1>1, StoreStands DEF RunsInv
<1>4. /\ EffectsInv' /\ art' \in [Runs -> [Applications -> ArtRows]]
      /\ journal' \in [Runs -> EntryRows]
      /\ \A q \in Runs \ {r} : journal'[q] = journal[q]
  <2>1. CASE UNCHANGED <<art, journal>>
    BY <1>3, <2>1, EffectsStand DEF RunsInv, ProcessTypeOK
  <2>2. CASE journal' = [journal EXCEPT ![r].resolution = "completed"] /\ art' = art
    <3> DEFINE entry == [journal[r] EXCEPT !.resolution = "completed"]
    <3>1. /\ journal \in [Runs -> EntryRows] /\ journal[r] \in EntryRows
          /\ art \in [Runs -> [Applications -> ArtRows]] /\ candidates' = candidates
      BY <1>1 DEF RunsInv, ProcessTypeOK, storeVars
    <3>2. entry \in EntryRows /\ entry.app = a /\ entry.resolution = "completed"
      BY <3>1 DEF EntryRows
    <3>3. journal' = [journal EXCEPT ![r] = entry]
      BY <2>2, <3>1
    <3> HIDE DEF entry
    <3>4. /\ journal'[r] = entry /\ \A q \in Runs \ {r} : journal'[q] = journal[q]
          /\ journal' \in [Runs -> EntryRows]
      BY <3>1, <3>2, <3>3
    <3>5. JournalInv'
      BY <1>2, <3>1, <3>2, <3>4 DEF RunsInv, EffectsInv, JournalInv
    <3>6. ArtInv' /\ CompletedIsWhole' /\ CleanedIsUnrelated'
      BY <2>2, <3>1, <3>2, <3>4
      DEF RunsInv, EffectsInv, ArtInv, CompletedIsWhole, CleanedIsUnrelated, Related
    <3>7. QED  BY <2>2, <3>1, <3>4, <3>5, <3>6 DEF EffectsInv
  <2>3. ASSUME NEW failed \in BOOLEAN, CleanEntry(r, failed, FALSE), journal[r].resume
        PROVE  /\ EffectsInv' /\ art' \in [Runs -> [Applications -> ArtRows]]
               /\ journal' \in [Runs -> EntryRows]
               /\ \A q \in Runs \ {r} : journal'[q] = journal[q]
    BY <1>1, <1>2, <2>3, CleanEntryKeeps
  <2>4. QED  BY <2>1, <2>2, <2>3 DEF ReconcileEntry
<1>5. ProcessTypeOK' /\ EditsAreFaults'
  <2>1. faults' \in 0..MaxFaults /\ faults <= faults' /\ faults \in Nat
    BY <1>1, FaultsAreCounted DEF RunsInv, ProcessTypeOK
  <2>2. QED  BY <1>1, <1>4, <2>1 DEF RunsInv, ProcessTypeOK, EditsAreFaults
<1>6. EntriesInv'
  BY <1>1, <1>4 DEF RunsInv, ProcessTypeOK, EntriesInv, Unresolved
<1>7. QED  BY <1>2, <1>3, <1>4, <1>5, <1>6, IdleKeeps DEF RunsInv

-----------------------------------------------------------------------------
(* Requests and edits                                                      *)

\* A step that is not the worker's: where the worker is busy, it moves no
\* candidate, no call, and no run out of the worker's hands.
LEMMA AsideStep ==
    ASSUME RunsInv, StoreInv', Advances, UNCHANGED <<worker, server, art, journal>>,
           ProcessTypeOK', EditsAreFaults',
           worker.pc # "idle" =>
              /\ candidates' = candidates /\ calls' = calls
              /\ runs'[worker.run].lifecycle \in {"running", "cancelling"}
    PROVE  RunsInv'
<1>1. Candidate' = Candidate
  BY DEF Candidate
<1>2. WorkerInv'
  BY <1>1 DEF RunsInv, WorkerInv, BuildPcs, CommitPcs
<1>3. CommitInv'
  BY <1>1 DEF RunsInv, CommitInv, CommitPcs, Related
<1>4. EntriesInv'
  BY DEF RunsInv, EntriesInv, Unresolved
<1>5. QED  BY <1>2, <1>3, <1>4, RestStep

LEMMA EditStep ==
    ASSUME RunsInv, NEW a \in Applications, Edit(a)
    PROVE  RunsInv' /\ Settles
<1>1. /\ UNCHANGED storeVars /\ UNCHANGED <<starter, wake, worker, server, art, journal>>
      /\ Fault
  BY DEF Edit
<1>2. StoreInv' /\ Advances /\ Settles
  BY <1>1, StoreStands DEF RunsInv
<1>3. faults \in Nat /\ faults' = faults + 1 /\ faults' \in 0..MaxFaults
  BY <1>1, FaultsAreCounted DEF Fault, RunsInv, ProcessTypeOK
<1>4. PICK kind \in {"ready", "low", "unreadable"} :
          apps' = [apps EXCEPT ![a] = [version |-> apps[a].version + 1, kind |-> kind]]
  BY DEF Edit, RunsInv, ProcessTypeOK
<1>5. apps[a].version \in Nat /\ apps[a].version + 1 \in 1..(faults' + 1)
  BY <1>3 DEF RunsInv, ProcessTypeOK, EditsAreFaults
<1>6. ProcessTypeOK'
  BY <1>1, <1>3, <1>4, <1>5 DEF RunsInv, ProcessTypeOK
<1>7. EditsAreFaults'
  <2> SUFFICES ASSUME NEW b \in Applications PROVE apps'[b].version \in 1..(faults' + 1)
    BY DEF EditsAreFaults
  <2>1. CASE b = a
    BY <1>4, <1>5, <2>1 DEF RunsInv, ProcessTypeOK
  <2>2. CASE b # a
    <3>1. apps'[b] = apps[b] /\ apps[b].version \in 1..(faults + 1)
      BY <1>4, <2>2 DEF RunsInv, ProcessTypeOK, EditsAreFaults
    <3>2. QED  BY <1>3, <3>1
  <2>3. QED  BY <2>1, <2>2
<1>8. storeVars' = storeVars => runs' = runs /\ candidates' = candidates /\ calls' = calls
  BY DEF storeVars
<1>9. worker.pc # "idle" => runs[worker.run].lifecycle \in {"running", "cancelling"}
  BY DEF RunsInv, WorkerInv
<1>10. QED  BY <1>1, <1>2, <1>6, <1>7, <1>8, <1>9, AsideStep

LEMMA ReadQueueStep ==
    ASSUME RunsInv, NEW order \in Queues, NEW target \in Targets, ReadQueue(order, target)
    PROVE  RunsInv' /\ Settles
<1> DEFINE listed == Listed(order)
           page == SubSeq(listed, 1, Min({Len(listed), 2 * target}))
<1>1. /\ UNCHANGED storeVars /\ UNCHANGED <<wake, worker, server, apps, art, journal>>
      /\ faults' = faults
      /\ starter' = [pc |-> "selected",
                     queue |-> Keep(page, {a \in Applications : apps[a].kind = "ready"}),
                     target |-> target,
                     exhausted |-> Len(listed) <= 2 * target]
  BY DEF ReadQueue, environment
<1>2. order \in Seq(Applications) /\ target \in Nat \ {0}
  BY ResumeStoreAssumption
<1>3. listed \in Seq(Applications)
  BY <1>2, KeepIsQueue DEF Listed
<1>4. page \in Seq(Applications)
  <2>1. Len(listed) \in Nat /\ 2 * target \in Nat
    BY <1>2, <1>3
  <2>2. Min({Len(listed), 2 * target}) \in {Len(listed), 2 * target}
        /\ Min({Len(listed), 2 * target}) <= Len(listed)
    <3> DEFINE least(x) == \A y \in {Len(listed), 2 * target} : x <= y
    <3>1. \E x \in {Len(listed), 2 * target} : least(x)
      BY <2>1
    <3>2. Min({Len(listed), 2 * target}) \in {Len(listed), 2 * target}
          /\ least(Min({Len(listed), 2 * target}))
      BY <3>1, Zenon DEF Min
    <3>3. QED  BY <3>2
  <2>3. Min({Len(listed), 2 * target}) \in 0..Len(listed)
    BY <2>1, <2>2
  <2> HIDE DEF listed
  <2>4. QED  BY <1>3, <2>3, PrefixIsQueue
<1> HIDE DEF page
<1>5. Keep(page, {a \in Applications : apps[a].kind = "ready"}) \in Seq(Applications)
  BY <1>4, KeepIsQueue
<1>6. (Len(listed) <= 2 * target) \in BOOLEAN
  OBVIOUS
<1> HIDE DEF listed
<1>7. ProcessTypeOK'
  BY <1>1, <1>5, <1>6 DEF RunsInv, ProcessTypeOK
<1>8. EditsAreFaults'
  BY <1>1 DEF RunsInv, EditsAreFaults
<1>9. StoreInv' /\ Advances /\ Settles
  BY <1>1, StoreStands DEF RunsInv
<1>10. worker.pc # "idle" => runs[worker.run].lifecycle \in {"running", "cancelling"}
  BY DEF RunsInv, WorkerInv
<1>11. QED  BY <1>1, <1>7, <1>8, <1>9, <1>10, AsideStep DEF storeVars

LEMMA StarterIsTyped ==
    NoStarter \in [pc : {"none", "selected"}, queue : Seq(Applications),
                   target : Targets \cup {0}, exhausted : BOOLEAN]
<1>1. <<>> \in Seq(Applications)
  OBVIOUS
<1>2. QED  BY <1>1 DEF NoStarter

\* A run is created only where none is unfinished, so that the worker rests.
LEMMA StartStep == RunsInv /\ Start => RunsInv' /\ Settles
<1> SUFFICES ASSUME RunsInv, Start PROVE RunsInv' /\ Settles
  OBVIOUS
<1>1. /\ StartRun(NewRun, NewRun, starter.target, starter.queue, starter.exhausted)
      /\ starter' = NoStarter /\ wake' = TRUE /\ UNCHANGED <<worker, server, environment>>
  BY DEF Start
<1>2. NewRun \in Runs
  BY Zenon DEF Start, NewRun
<1>3. /\ NewRun \in Keys /\ starter.target \in Targets \cup {0}
      /\ starter.queue \in Seq(Applications) /\ starter.exhausted \in BOOLEAN
  BY <1>2, ResumeRunsAssumption DEF RunsInv, ProcessTypeOK
<1>4. StoreInv' /\ Advances /\ Settles
  BY <1>1, <1>2, <1>3, StartMoves DEF RunsInv
<1>5. worker.pc = "idle"
  BY <1>1 DEF StartRun, RunsInv, WorkerInv, Unfinished
<1>6. ProcessTypeOK' /\ EditsAreFaults'
  BY <1>1, StarterIsTyped DEF RunsInv, ProcessTypeOK, EditsAreFaults, environment
<1>7. QED  BY <1>1, <1>4, <1>5, <1>6, AsideStep DEF environment

LEMMA RequestStep ==
    ASSUME RunsInv, StartRefused \/ Replay \/ \E r \in Runs : RequestCancel(r)
    PROVE  RunsInv' /\ Settles
<1>1. /\ UNCHANGED <<worker, server, apps, art, journal>>
      /\ Fault \/ faults' = faults
      /\ wake' \in BOOLEAN
      /\ starter' \in {starter, NoStarter}
  BY DEF StartRefused, Replay, RequestCancel, environment, RunsInv, ProcessTypeOK
<1>2. ProcessTypeOK' /\ EditsAreFaults'
  <2>1. faults' \in 0..MaxFaults /\ faults <= faults' /\ faults \in Nat
    BY <1>1, FaultsAreCounted DEF RunsInv, ProcessTypeOK, NoFault
  <2>2. QED  BY <1>1, <2>1, StarterIsTyped DEF RunsInv, ProcessTypeOK, EditsAreFaults
<1>3. worker.pc # "idle" => worker.run \in Runs /\ runs[worker.run].lifecycle \in {"running", "cancelling"}
  BY DEF RunsInv, WorkerInv
<1>4. CASE UNCHANGED storeVars
  <2>1. StoreInv' /\ Advances /\ Settles
    BY <1>4, StoreStands DEF RunsInv
  <2>2. QED  BY <1>1, <1>2, <1>3, <1>4, <2>1, AsideStep DEF storeVars
<1>5. ASSUME NEW r \in Runs, Cancel(r) PROVE RunsInv' /\ Settles
  <2>1. StoreInv' /\ Advances /\ Settles
    BY <1>5, RunMoves DEF RunsInv, Cancel
  <2>2. /\ candidates' = candidates /\ calls' = calls /\ runs'[r].lifecycle = "cancelling"
        /\ \A q \in Runs \ {r} : runs'[q] = runs[q]
    <3>1. runs[r] \in RunRows
      BY DEF RunsInv, StoreInv, StoreTypeOK
    <3>2. QED  BY <1>5, <3>1 DEF Cancel, RunsInv, StoreInv, StoreTypeOK, RunRows
  <2>3. worker.pc # "idle" => runs'[worker.run].lifecycle \in {"running", "cancelling"}
    BY <1>3, <2>2
  <2>4. QED  BY <1>1, <1>2, <2>1, <2>2, <2>3, AsideStep
<1>6. QED  BY <1>4, <1>5 DEF StartRefused, Replay, RequestCancel

-----------------------------------------------------------------------------
(* Every step                                                              *)

LEMMA RunsInvInit == Init => RunsInv
<1> SUFFICES ASSUME Init PROVE RunsInv
  OBVIOUS
<1>1. /\ StoreInit /\ starter = NoStarter /\ wake = TRUE /\ worker = Idle
      /\ server = [state |-> "up", entries |-> {}]
      /\ apps = [a \in Applications |-> [version |-> 1, kind |-> "ready"]]
      /\ art = [r \in Runs |-> [a \in Applications |-> NoArtifacts]]
      /\ journal = [r \in Runs |-> NoEntry] /\ faults = 0
  BY DEF Init
<1>2. StoreTypeOK /\ SpendInv
  BY <1>1, InvInit
<1>3. /\ \A r \in Runs : runs[r].lifecycle = "absent"
      /\ \A r \in Runs, a \in Applications : candidates[r][a] = NoCandidate
      /\ \A c \in CallIds : calls[c] = NoCall
  BY <1>1 DEF StoreInit, NoRun
<1>4. StoreInv
  <2>1. CallsBounded
    BY <1>3, ResumeRunsAssumption DEF CallsBounded, NoCall
  <2>2. RunsInTurn
    BY <1>3 DEF RunsInTurn, Unfinished
  <2>3. ProofsAreFresh
    BY <1>3 DEF ProofsAreFresh, NoCandidate
  <2>4. QED  BY <1>2, <2>1, <2>2, <2>3 DEF StoreInv
<1>5. ProcessTypeOK
  <2>1. <<>> \in Seq(Applications) /\ <<0, {}>> \in Nat \X SUBSET Runs
    OBVIOUS
  <2>2. Idle \in WorkerRows
    BY <2>1 DEF Idle, WorkerRows, WorkerPcs, CandidateReasons
  <2>3. NoArtifacts \in ArtRows /\ NoEntry \in EntryRows
    BY DEF NoArtifacts, ArtRows, Pages, NoEntry, EntryRows
  <2>4. 0 \in 0..MaxFaults
    BY ResumeRunsAssumption
  <2>5. QED  BY <1>1, <2>2, <2>3, <2>4, StarterIsTyped DEF ProcessTypeOK
<1>6. EditsAreFaults /\ EntriesInv
  BY <1>1 DEF EditsAreFaults, EntriesInv
<1>7. WorkerInv /\ CommitInv
  <2>1. worker.pc = "idle"
    BY <1>1 DEF Idle
  <2>2. QED  BY <1>1, <2>1 DEF WorkerInv, CommitInv, BuildPcs, CommitPcs
<1>8. EffectsInv
  <2>1. JournalInv /\ CleanedIsUnrelated
    BY <1>1 DEF JournalInv, CleanedIsUnrelated, NoEntry
  <2>2. ArtInv
    BY <1>1 DEF ArtInv, Related, NoArtifacts
  <2>3. CompletedIsWhole
    BY <1>3 DEF CompletedIsWhole, NoCandidate
  <2>4. QED  BY <2>1, <2>2, <2>3 DEF EffectsInv
<1>9. QED  BY <1>4, <1>5, <1>6, <1>7, <1>8 DEF RunsInv

LEMMA RunsInvStep == RunsInv /\ [Next]_vars => RunsInv' /\ Settles
<1> SUFFICES ASSUME RunsInv, [Next]_vars PROVE RunsInv' /\ Settles
  OBVIOUS
<1>1. CASE WorkerStep
  BY <1>1, WakeStep, SelectStep, FirstReadStep, SecondReadStep, IneligibleStep, RestoreStep,
     DispatchStep, TransmitStep, AnswerStep, RecheckStep, WriteIntentStep, CreateResumeStep,
     AnswersStep, PublishStep, CreateNoteStep, AttachStep, CompleteStep, CleanStep, FailStep,
     EndStep, Zenon
  DEF WorkerStep
<1>2. CASE Reconciliation
  BY <1>2, RestartStep, ReconcileStep DEF Reconciliation
<1>3. CASE Request
  BY <1>3, ReadQueueStep, StartStep, RequestStep DEF Request
<1>4. ASSUME NEW a \in Applications, Edit(a) PROVE RunsInv' /\ Settles
  BY <1>4, EditStep
<1>5. CASE Crash
  BY <1>5, CrashStep
<1>6. CASE UNCHANGED vars
  <2>1. UNCHANGED storeVars /\ UNCHANGED <<starter, wake, worker, server, environment>>
    BY <1>6 DEF vars
  <2>2. StoreInv' /\ Advances /\ Settles
    BY <2>1, StoreStands DEF RunsInv
  <2>3. ProcessTypeOK' /\ EditsAreFaults'
    BY <2>1 DEF RunsInv, ProcessTypeOK, EditsAreFaults, environment
  <2>4. worker.pc # "idle" => runs[worker.run].lifecycle \in {"running", "cancelling"}
    BY DEF RunsInv, WorkerInv
  <2>5. QED  BY <2>1, <2>2, <2>3, <2>4, AsideStep DEF environment, storeVars
<1>7. QED  BY <1>1, <1>2, <1>3, <1>4, <1>5, <1>6 DEF Next

\* The invariant of the Resume Runs is one.
LEMMA RunsSafety == Spec => []RunsInv
<1>1. RunsInv /\ [Next]_vars => RunsInv'
  BY RunsInvStep
<1>2. QED  BY <1>1, RunsInvInit, PTL DEF Spec

\* Every variable holds a value the code could hold; the counters stay
\* between zero and the ceiling.
THEOREM RunsTypes == Spec => []TypeOK
<1>1. RunsInv => TypeOK
  <2> SUFFICES ASSUME RunsInv PROVE TypeOK
    OBVIOUS
  <2>1. /\ StoreTypeOK /\ ProcessTypeOK /\ Ceiling \in Nat /\ Reservation \in Nat
    BY ResumeStoreAssumption, ResumeRunsAssumption DEF RunsInv, StoreInv
  <2>2. \A r \in Runs : /\ runs[r].verified \in 0..Ceiling /\ runs[r].active \in 0..Ceiling
                        /\ runs[r].indeterminate \in 0..Ceiling
    BY <2>1 DEF StoreTypeOK, RunRows, RunsInv, StoreInv, SpendInv, SpendWithinCeiling, Committed
  <2>3. \A c \in CallIds : calls[c].reservation \in 0..Reservation /\ calls[c].cost \in 0..Reservation
    BY <2>1 DEF StoreTypeOK, CallRows, RunsInv, StoreInv, CallsBounded
  <2>4. runs \in [Runs ->
          [lifecycle : Lifecycles \cup {"absent"}, key : Keys \cup {"absent"},
           target : Targets \cup {0}, queue : Seq(Applications),
           exhausted : BOOLEAN, outcome : Outcomes \cup {"none"},
           reason : Outcomes \cup {"none", "operator_cancelled"},
           verified : 0..Ceiling, active : 0..Ceiling, indeterminate : 0..Ceiling]]
    BY <2>1, <2>2 DEF StoreTypeOK, RunRows
  <2>5. calls \in [CallIds -> [state : CallStates \cup {"absent"},
                              reservation : 0..Reservation, cost : 0..Reservation]]
    BY <2>1, <2>3 DEF StoreTypeOK, CallRows
  <2>6. \A r \in Runs, a \in Applications :
          /\ candidates[r][a].state \in
                {"absent", "pending", "evaluating"} \cup TerminalCandidateStates
          /\ candidates[r][a].proof \in Versions \cup {NoProof}
          /\ candidates[r][a].set \in {"none", "recoverable", "sealed"}
    BY <2>1 DEF StoreTypeOK, CandidateRows, OpenCandidateStates
  <2>7. QED
    BY <2>1, <2>4, <2>5, <2>6 DEF ProcessTypeOK, WorkerRows, ArtRows, EntryRows, TypeOK
<1>2. QED  BY <1>1, RunsSafety, PTL

\* The counters a run is stopped by are the sums of its calls, whatever
\* crashed between a reservation and its resolution.
THEOREM RunsCountTheirCalls == Spec => []CountersAreTheCalls
<1>1. RunsInv => CountersAreTheCalls
  BY CountersAreSums DEF RunsInv, StoreInv, SpendInv
<1>2. QED  BY <1>1, RunsSafety, PTL

\* Committed Spend never passes the ceiling: the check of a reservation holds
\* for every bound on the calls, the costs and the crashes.
THEOREM RunsSpendWithinCeiling == Spec => []SpendWithinCeiling
<1>1. RunsInv => SpendWithinCeiling
  BY DEF RunsInv, StoreInv, SpendInv
<1>2. QED  BY <1>1, RunsSafety, PTL

\* A completed candidate keeps all it was sealed with: the cleanups, of the
\* run and of startup, work on entries of candidates that are not completed.
THEOREM CompletedStaysWhole == Spec => []CompletedIsWhole
<1>1. RunsInv => CompletedIsWhole
  BY DEF RunsInv, EffectsInv
<1>2. QED  BY <1>1, RunsSafety, PTL

\* An Application is never related to two live Resumes: a commit begins where
\* nothing is related and only it relates something until it is over.
THEOREM OneResumeStays == Spec => []OneResumePerApplication
<1>1. RunsInv => OneResumePerApplication
  <2> SUFFICES ASSUME RunsInv, NEW a \in Applications
               PROVE  Cardinality(CompletedResumes(a)) <= 1
    BY DEF OneResumePerApplication
  <2>1. CompletedResumes(a) \subseteq Related(a) /\ \A q, r \in Related(a) : q = r
    BY DEF RunsInv, EffectsInv, ArtInv, CompletedResumes
  <2>2. CASE CompletedResumes(a) = {}
    BY <2>2, FS_EmptySet
  <2>3. CASE CompletedResumes(a) # {}
    <3>1. PICK r : CompletedResumes(a) = {r}
      BY <2>1, <2>3
    <3>2. Cardinality({r}) = 1
      BY FS_Singleton, Zenon
    <3>3. QED  BY <3>1, <3>2
  <2>4. QED  BY <2>2, <2>3
<1>2. QED  BY <1>1, RunsSafety, PTL

\* What the journal calls cleaned has neither a live Resume nor a relation.
THEOREM CleanedStaysUnrelated == Spec => []CleanedIsUnrelated
<1>1. RunsInv => CleanedIsUnrelated
  BY DEF RunsInv, EffectsInv
<1>2. QED  BY <1>1, RunsSafety, PTL

\* What happened to a candidate, and a finished run, are final, although the
\* store's methods look at no state: their callers come in time and once.
THEOREM SettledStaysFinal == Spec => SettledIsFinal
<1>1. RunsInv /\ [Next]_vars => [Settles]_storeVars
  BY RunsInvStep
<1>2. QED  BY <1>1, RunsSafety, PTL DEF Spec, SettledIsFinal, Settles

=============================================================================
