----------------------- MODULE ApplicationCaptureProofs -----------------------
(***************************************************************************)
(* Theorems about ApplicationCapture, for any number of confirmations, Job *)
(* URLs and interferences.                                                 *)
(***************************************************************************)
EXTENDS ApplicationCapture, FiniteSetTheorems, TLAPS

-----------------------------------------------------------------------------
(* The inductive invariant                                                 *)

ConfirmRows ==
    [pc : {"none", "finding", "inspecting", "archiving", "archived", "creating",
           "posted", "appending", "answered"},
     url : Urls \cup {"none"}, appends : Appends \cup {0},
     existing : Confirms \cup {NoPage},
     result : {"none", "created", "already_captured", "conflict", "failed"},
     page : Confirms \cup {NoPage}]

PageRows ==
    [state : {"none", "live", "archived", "deleted"}, readable : BOOLEAN,
     appended : Nat, late : BOOLEAN]

EntryRows ==
    [resolution : {"none", "active", "completed", "cleaned"}, named : BOOLEAN]

\* The lock: one confirmation at most is in progress for a Job URL, none while
\* the process is not up.
LockInv ==
    /\ \A c, d \in Confirms : Pending(c) /\ Pending(d) /\ Url(c) = Url(d) => c = d
    /\ \A c \in Confirms : Pending(c) => Up

\* A page is there for good when somebody has been told of it.
Kept(p) == pages[p].state \in {"live", "deleted"}

\* Every page of the Job URL but p took effect late.
Alone(u, p) == \A q \in Live(u) : q = p \/ pages[q].late

Untouched == {"none", "finding", "inspecting", "archiving", "archived"}

\* What a confirmation knows where it is.
StageOf(c) ==
    LET pc == confirms[c].pc  p == Existing(c)
    IN  /\ pc = "none" <=> Url(c) = "none"
        /\ pc # "answered" => confirms[c].result = "none"
        /\ pc \in Untouched \cup {"creating"} => pages[c].state = "none" /\ c \notin late
        /\ pc \in Untouched => journal[c].resolution = "none"
        /\ pc \in {"creating", "posted", "appending"} => journal[c].resolution = "active"
        /\ pc \in {"archived", "creating"} => Alone(Url(c), NoPage)
        /\ pc \in {"posted", "appending"} => Kept(c)
        /\ pc \in {"inspecting", "archiving"} => p \in Of(Url(c)) /\ Kept(p) /\ Alone(Url(c), p)
        /\ pc = "archiving" => journal[p].resolution = "active" /\ journal[p].named

StageInv == \A c \in Confirms : StageOf(c)

\* A page that was reported is neither archived nor the page of an entry that
\* a confirmation or a restart may archive.
ReportInv ==
    \A c \in Confirms : confirms[c].page # NoPage =>
        Kept(confirms[c].page) /\ journal[confirms[c].page].resolution # "active"

\* Only startup works on the entries it found unresolved.
EntriesInv ==
    /\ api.state # "reconciling" => api.entries = {}
    /\ \A c \in api.entries : journal[c].resolution = "active"

OneLive ==
    \A u \in Urls : \A p, q \in Live(u) : ~ pages[p].late /\ ~ pages[q].late => p = q

CaptureInv ==
    /\ TypeOK /\ LockInv /\ StageInv /\ ReportInv /\ EntriesInv
    /\ OneLive /\ ArchivedWasNamed /\ CleanedIsGone

-----------------------------------------------------------------------------
(* What the definitions say of one confirmation                            *)

\* The types, a variable at a time.
LEMMA TypesAre ==
    TypeOK <=>
        /\ confirms \in [Confirms -> ConfirmRows]
        /\ \A c \in Confirms :
              confirms[c].page # NoPage <=> confirms[c].result \in {"created", "already_captured"}
        /\ pages \in [Confirms -> PageRows]
        /\ journal \in [Confirms -> EntryRows]
        /\ late \subseteq Confirms
        /\ api \in [state : {"down", "reconciling", "up"}, entries : SUBSET Confirms]
        /\ faults \in 0..MaxFaults
BY DEF TypeOK, ConfirmRows, PageRows, EntryRows

\* A pending confirmation has a Job URL.
LEMMA PendingHasUrl ==
    ASSUME CaptureInv, NEW c \in Confirms, confirms[c].pc # "none"
    PROVE  Url(c) \in Urls
BY TypesAre DEF CaptureInv, StageInv, StageOf, Url, ConfirmRows

-----------------------------------------------------------------------------
(* Steps that change one confirmation and nothing else                     *)

\* The page and the Job URL of the confirmation that changes.
SameUrls(c, row) ==
    \/ row.url = Url(c)
    \/ confirms[c].pc = "none" /\ row.url \in Urls

LEMMA OneConfirmChanges ==
    ASSUME CaptureInv, NEW c \in Confirms, NEW row \in ConfirmRows, Up,
           confirms' = [confirms EXCEPT ![c] = row],
           row.page = NoPage, row.result \in {"none", "conflict", "failed"},
           SameUrls(c, row),
           row.pc \notin {"none", "answered"} =>
               (Pending(c) /\ row.url = Url(c)) \/ Free(row.url),
           StageOf(c)',
           UNCHANGED <<pages, journal, api>>,
           late' = late \/ (late' = late \cup {c} /\ row.pc = "answered"),
           faults' \in 0..MaxFaults
    PROVE  CaptureInv'
<1>1. confirms \in [Confirms -> ConfirmRows]
  BY TypesAre DEF CaptureInv
<1>2. confirms'[c] = row /\ \A d \in Confirms \ {c} : confirms'[d] = confirms[d]
  BY <1>1
<1>3. TypeOK'
  <2>1. TypeOK
    BY DEF CaptureInv
  <2>2. confirms' \in [Confirms -> ConfirmRows]
    BY <1>1
  <2>3. \A d \in Confirms :
           confirms'[d].page # NoPage <=> confirms'[d].result \in {"created", "already_captured"}
    BY <2>1, <1>2, TypesAre
  <2>4. late' \subseteq Confirms
    BY <2>1, TypesAre
  <2>5. QED  BY <2>1, <2>2, <2>3, <2>4, TypesAre DEF TypeOK, ConfirmRows, EntryRows, PageRows
<1>4. \A u : Live(u)' = Live(u)
  <2>1. confirms[c].pc = "none" => pages[c].state = "none"
    BY DEF CaptureInv, StageInv, StageOf, Untouched
  <2>2. QED  BY <2>1, <1>2 DEF Live, Of, SameUrls, Url
<1>5. LockInv'
  BY <1>2, TypesAre DEF CaptureInv, LockInv, Pending, Url, Free, Of, SameUrls, Up, StageInv, StageOf
<1>6. StageInv'
  <2> SUFFICES ASSUME NEW d \in Confirms, d # c PROVE StageOf(d)'
    BY DEF StageInv
  <2>1. StageOf(d) /\ confirms'[d] = confirms[d]
    BY <1>2 DEF CaptureInv, StageInv
  <2>2. \A u, p : Alone(u, p)' <=> Alone(u, p)
    BY <1>4 DEF Alone
  <2>3. \A u \in Urls : Of(u) \subseteq Of(u)'
    <3>1. confirms[c].pc = "none" => confirms[c].url = "none"
      BY DEF CaptureInv, StageInv, StageOf, Url
    <3>2. \A u \in Urls : c \in Of(u) => row.url = u
      BY <3>1, CaptureAssumption DEF Of, SameUrls, Url
    <3>3. QED  BY <1>2, <3>2 DEF Of
  <2>4. d \in late' <=> d \in late
    OBVIOUS
  <2>5. confirms[d].pc # "none" => Url(d) \in Urls
    BY PendingHasUrl
  <2>6. QED  BY <2>1, <2>2, <2>3, <2>4, <2>5 DEF StageOf, Url, Existing, Kept
<1>7. ReportInv'
  BY <1>2 DEF CaptureInv, ReportInv, Kept
<1>8. EntriesInv'
  BY DEF CaptureInv, EntriesInv
<1>9. OneLive'
  BY <1>4 DEF CaptureInv, OneLive
<1>10. ArchivedWasNamed' /\ CleanedIsGone'
  BY DEF CaptureInv, ArchivedWasNamed, CleanedIsGone
<1>11. QED  BY <1>3, <1>5, <1>6, <1>7, <1>8, <1>9, <1>10 DEF CaptureInv

\* A confirmation in progress that goes on to another step.
LEMMA GoesOn ==
    ASSUME CaptureInv, NEW c \in Confirms, Up, Pending(c),
           NEW pc \in {"inspecting", "archiving"}, NEW p \in Confirms \cup {NoPage},
           confirms' = [confirms EXCEPT ![c].pc = pc, ![c].existing = p],
           StageOf(c)',
           UNCHANGED <<pages, journal, late, api>>, faults' \in 0..MaxFaults
    PROVE  CaptureInv'
<1> DEFINE row == [confirms[c] EXCEPT !.pc = pc, !.existing = p]
<1>1. confirms[c] \in ConfirmRows /\ confirms[c].result = "none" /\ confirms[c].page = NoPage
  BY TypesAre DEF CaptureInv, StageInv, StageOf, Pending
<1>2. /\ row \in ConfirmRows /\ row.pc = pc /\ row.url = Url(c)
      /\ row.result = "none" /\ row.page = NoPage
  BY <1>1 DEF ConfirmRows, Url
<1>3. confirms' = [confirms EXCEPT ![c] = row]
  OBVIOUS
<1> HIDE DEF row
<1>4. QED  BY <1>2, <1>3, OneConfirmChanges DEF SameUrls

\* A confirmation in progress that is refused: nothing else changes, but that
\* a POST may be on its way.
LEMMA Refused ==
    ASSUME CaptureInv, NEW c \in Confirms, Up, Pending(c),
           NEW result \in {"conflict", "failed"},
           Refuse(c, result),
           UNCHANGED <<pages, journal, api>>, late' \in {late, late \cup {c}},
           faults' \in 0..MaxFaults
    PROVE  CaptureInv'
<1> DEFINE row == [confirms[c] EXCEPT !.pc = "answered", !.result = result, !.page = NoPage]
<1>1. confirms[c] \in ConfirmRows /\ confirms \in [Confirms -> ConfirmRows]
  BY TypesAre DEF CaptureInv
<1>2. /\ row \in ConfirmRows /\ row.pc = "answered" /\ row.url = Url(c)
      /\ row.result = result /\ row.page = NoPage
  BY <1>1 DEF ConfirmRows, Url
<1>3. confirms' = [confirms EXCEPT ![c] = row]
  BY DEF Refuse, Answer
<1> HIDE DEF row
<1>4. confirms'[c] = row
  BY <1>1, <1>3
<1>5. StageOf(c)'
  BY <1>2, <1>4 DEF CaptureInv, StageInv, StageOf, Untouched, Url, Pending
<1>6. QED  BY <1>2, <1>3, <1>5, OneConfirmChanges DEF SameUrls

\* What an interference costs.
LEMMA FaultsStayBounded ==
    ASSUME CaptureInv, Fault \/ NoFault
    PROVE  faults' \in 0..MaxFaults
BY CaptureAssumption, TypesAre DEF CaptureInv, Fault, NoFault

LEMMA ConfirmKeeps ==
    ASSUME CaptureInv, NEW c \in Confirms, NEW u \in Urls, NEW n \in Appends, Confirm(c, u, n)
    PROVE  CaptureInv'
<1> DEFINE pc == IF Free(u) THEN "finding" ELSE "answered"
           result == IF Free(u) THEN "none" ELSE "conflict"
           row == [NoConfirm EXCEPT !.url = u, !.appends = n, !.pc = pc, !.result = result]
<1>1. Up /\ confirms[c].pc = "none" /\ confirms' = [confirms EXCEPT ![c] = row]
  BY DEF Confirm
<1>2. pc \in {"finding", "answered"} /\ result \in {"none", "conflict"}
      /\ (pc = "finding" <=> result = "none") /\ (pc = "finding" => Free(u))
  OBVIOUS
<1> HIDE DEF pc, result
<1>3. /\ row \in ConfirmRows /\ row.pc = pc /\ row.url = u
      /\ row.result = result /\ row.page = NoPage
  BY <1>2 DEF ConfirmRows, NoConfirm
<1> HIDE DEF row
<1>4. confirms'[c] = row
  BY <1>1, TypesAre DEF CaptureInv
<1>5. UNCHANGED <<pages, journal, late, api, faults>>
  BY DEF Confirm
<1>6. pages[c].state = "none" /\ c \notin late /\ journal[c].resolution = "none"
  BY <1>1 DEF CaptureInv, StageInv, StageOf, Untouched
<1>7. StageOf(c)'
  BY <1>2, <1>3, <1>4, <1>5, <1>6, CaptureAssumption DEF StageOf, Untouched, Url
<1>8. faults' \in 0..MaxFaults
  BY <1>5, TypesAre DEF CaptureInv
<1>9. QED  BY <1>1, <1>2, <1>3, <1>5, <1>7, <1>8, OneConfirmChanges DEF SameUrls

-----------------------------------------------------------------------------
(* Steps of a confirmation that change the journal or a page               *)

\* While c is in progress no other confirmation of its Job URL is.
LEMMA NobodyElse ==
    ASSUME CaptureInv, NEW c \in Confirms, Pending(c), NEW d \in Confirms, d # c,
           Url(d) = Url(c)
    PROVE  confirms[d].pc = "answered"
<1>1. ~ Pending(d)
  BY DEF CaptureInv, LockInv
<1>2. Url(c) # "none"
  BY DEF CaptureInv, StageInv, StageOf, Pending
<1>3. QED  BY <1>1, <1>2 DEF CaptureInv, StageInv, StageOf, Pending

\* An answered confirmation keeps its stage whatever becomes of the rest, and
\* one of another Job URL keeps it when nothing of its own Job URL changes.
LEMMA OtherStages ==
    ASSUME CaptureInv, NEW c \in Confirms, Pending(c), NEW d \in Confirms, d # c,
           confirms'[d] = confirms[d], confirms'[c].url = confirms[c].url,
           d \in late' <=> d \in late,
           \A e \in Confirms \ {c} : confirms'[e] = confirms[e],
           \A e \in Confirms : Url(e) # Url(c) =>
               pages'[e] = pages[e] /\ journal'[e] = journal[e]
    PROVE  StageOf(d)'
<1>1. StageOf(d)
  BY DEF CaptureInv, StageInv
<1>2. CASE Url(d) = Url(c)
  <2>1. confirms[d].pc = "answered" /\ confirms'[d].pc = "answered"
    BY <1>2, NobodyElse
  <2>2. QED  BY <1>1, <2>1 DEF StageOf, Untouched, Url
<1>3. CASE Url(d) # Url(c)
  <2>1. Of(Url(d))' = Of(Url(d))
    BY DEF Of, Url
  <2>2. Live(Url(d))' = Live(Url(d))
    BY <1>3 DEF Live, Of, Url
  <2>3. \A p : Alone(Url(d), p)' <=> Alone(Url(d), p)
    BY <1>3, <2>2 DEF Alone, Live, Of, Url
  <2>4. confirms[d].pc \in {"inspecting", "archiving"} =>
            Existing(d) \in Confirms /\ Url(Existing(d)) = Url(d)
    BY <1>1 DEF StageOf, Of, Url
  <2>5. pages'[d] = pages[d] /\ journal'[d] = journal[d]
    BY <1>3
  <2>6. confirms[d].pc \in {"inspecting", "archiving"} =>
            /\ pages'[Existing(d)] = pages[Existing(d)]
            /\ journal'[Existing(d)] = journal[Existing(d)]
    BY <1>3, <2>4
  <2>7. QED  BY <1>1, <2>1, <2>3, <2>5, <2>6 DEF StageOf, Url, Existing, Kept
<1>4. QED  BY <1>2, <1>3

\* A step of a confirmation in progress, which leaves what has another Job URL
\* alone.
OwnStep(c, row) ==
    /\ Up /\ Pending(c)
    /\ confirms' = [confirms EXCEPT ![c] = row]
    /\ row \in ConfirmRows /\ row.url = Url(c) /\ row.pc # "none"
    /\ row.page # NoPage <=> row.result \in {"created", "already_captured"}
    /\ pages' \in [Confirms -> PageRows]
    /\ journal' \in [Confirms -> EntryRows]
    /\ \A e \in Confirms : Url(e) # Url(c) => pages'[e] = pages[e] /\ journal'[e] = journal[e]
    /\ late' = late /\ api' = api /\ faults' \in 0..MaxFaults

LEMMA OwnSteps ==
    ASSUME CaptureInv, NEW c \in Confirms, NEW row, OwnStep(c, row),
           StageOf(c)', ReportInv', OneLive', ArchivedWasNamed', CleanedIsGone'
    PROVE  CaptureInv'
<1>1. TypeOK /\ confirms \in [Confirms -> ConfirmRows]
  BY TypesAre DEF CaptureInv
<1>2. confirms'[c] = row /\ \A d \in Confirms \ {c} : confirms'[d] = confirms[d]
  BY <1>1 DEF OwnStep
<1>3. TypeOK'
  <2>1. \A d \in Confirms :
           confirms'[d].page # NoPage <=> confirms'[d].result \in {"created", "already_captured"}
    BY <1>1, <1>2, TypesAre DEF OwnStep
  <2>2. confirms' \in [Confirms -> ConfirmRows]
    BY <1>1 DEF OwnStep
  <2>3. QED  BY <1>1, <2>1, <2>2, TypesAre
           DEF OwnStep, TypeOK, ConfirmRows, EntryRows, PageRows
<1>4. LockInv'
  BY <1>2 DEF OwnStep, CaptureInv, LockInv, Pending, Url, Up
<1>5. StageInv'
  <2> SUFFICES ASSUME NEW d \in Confirms, d # c PROVE StageOf(d)'
    BY DEF StageInv
  <2>1. QED  BY <1>2, OtherStages DEF OwnStep, Url
<1>6. EntriesInv'
  BY DEF OwnStep, CaptureInv, EntriesInv, Up
<1>7. QED  BY <1>3, <1>4, <1>5, <1>6 DEF CaptureInv

\* What Goto and Answer make of the record of a confirmation in progress.
LEMMA GotoRow ==
    ASSUME CaptureInv, NEW c \in Confirms, Pending(c),
           NEW pc \in {"archived", "creating", "posted", "appending"}, Goto(c, pc)
    PROVE  \E row \in ConfirmRows :
               /\ confirms' = [confirms EXCEPT ![c] = row]
               /\ confirms'[c] = row
               /\ \A d \in Confirms \ {c} : confirms'[d] = confirms[d]
               /\ row.pc = pc /\ row.url = Url(c) /\ row.existing = Existing(c)
               /\ row.result = "none" /\ row.page = NoPage
<1> DEFINE row == [confirms[c] EXCEPT !.pc = pc]
<1>1. /\ confirms \in [Confirms -> ConfirmRows] /\ confirms[c] \in ConfirmRows
      /\ confirms[c].result = "none" /\ confirms[c].page = NoPage
  BY TypesAre DEF CaptureInv, StageInv, StageOf, Pending
<1>2. /\ row \in ConfirmRows /\ row.pc = pc /\ row.url = Url(c) /\ row.existing = Existing(c)
      /\ row.result = "none" /\ row.page = NoPage
  BY <1>1 DEF ConfirmRows, Url, Existing
<1>3. confirms' = [confirms EXCEPT ![c] = row]
  BY DEF Goto
<1> HIDE DEF row
<1>4. QED  BY <1>1, <1>2, <1>3

LEMMA AnswerRow ==
    ASSUME CaptureInv, NEW c \in Confirms, Pending(c),
           NEW result \in {"created", "already_captured", "failed"},
           NEW page \in Confirms \cup {NoPage}, Answer(c, result, page)
    PROVE  \E row \in ConfirmRows :
               /\ confirms' = [confirms EXCEPT ![c] = row]
               /\ confirms'[c] = row
               /\ \A d \in Confirms \ {c} : confirms'[d] = confirms[d]
               /\ row.pc = "answered" /\ row.url = Url(c)
               /\ row.result = result /\ row.page = page
<1> DEFINE row == [confirms[c] EXCEPT !.pc = "answered", !.result = result, !.page = page]
<1>1. confirms \in [Confirms -> ConfirmRows] /\ confirms[c] \in ConfirmRows
  BY TypesAre DEF CaptureInv
<1>2. /\ row \in ConfirmRows /\ row.pc = "answered" /\ row.url = Url(c)
      /\ row.result = result /\ row.page = page
  BY <1>1 DEF ConfirmRows, Url
<1>3. confirms' = [confirms EXCEPT ![c] = row]
  BY DEF Answer
<1> HIDE DEF row
<1>4. QED  BY <1>1, <1>2, <1>3

\* The entries nothing is left of are ended, and the intent of c is recorded.
LEMMA CreationStarts ==
    ASSUME CaptureInv, NEW c \in Confirms, Up,
           confirms[c].pc \in {"finding", "archived"}, Alone(Url(c), NoPage),
           StartCreation(c), NoFault, UNCHANGED <<pages, late, api>>
    PROVE  CaptureInv'
<1>1. /\ TypeOK /\ StageOf(c) /\ Pending(c)
      /\ confirms \in [Confirms -> ConfirmRows] /\ journal \in [Confirms -> EntryRows]
  BY TypesAre DEF CaptureInv, StageInv, Pending
<1>2. Goto(c, "creating")
  BY DEF StartCreation
<1>3. PICK row \in ConfirmRows :
          /\ confirms' = [confirms EXCEPT ![c] = row]
          /\ confirms'[c] = row
          /\ \A d \in Confirms \ {c} : confirms'[d] = confirms[d]
          /\ row.pc = "creating" /\ row.url = Url(c) /\ row.existing = Existing(c)
          /\ row.result = "none" /\ row.page = NoPage
  BY <1>1, <1>2, GotoRow
<1>4. /\ journal'[c].resolution = "active" /\ journal'[c].named = FALSE
      /\ journal'[c] \in EntryRows
  BY <1>1 DEF StartCreation, NoEntry, Resolve, EntryRows
<1>5. \A d \in Confirms \ {c} :
          /\ Url(d) # Url(c) => journal'[d] = journal[d]
          /\ journal'[d].named = journal[d].named
          /\ journal'[d].resolution = journal[d].resolution
             \/ (journal[d].resolution = "active" /\ journal'[d].resolution = "cleaned"
                 /\ Url(d) = Url(c))
          /\ journal'[d] \in EntryRows
  <2> SUFFICES ASSUME NEW d \in Confirms \ {c} PROVE
          /\ Url(d) # Url(c) => journal'[d] = journal[d]
          /\ journal'[d].named = journal[d].named
          /\ journal'[d].resolution = journal[d].resolution
             \/ (journal[d].resolution = "active" /\ journal'[d].resolution = "cleaned"
                 /\ Url(d) = Url(c))
          /\ journal'[d] \in EntryRows
    OBVIOUS
  <2>1. journal[d] \in EntryRows
    BY <1>1
  <2>2. journal'[d] = IF d \in Unresolved(Url(c))
                      THEN [journal[d] EXCEPT !.resolution = "cleaned"] ELSE journal[d]
    BY DEF StartCreation, Resolve
  <2>3. QED  BY <2>1, <2>2 DEF Unresolved, Of, Url, EntryRows
<1>6. journal' \in [Confirms -> EntryRows]
  <2>1. journal' = [d \in Confirms |-> journal'[d]]
    BY DEF StartCreation, Resolve
  <2>2. QED  BY <1>4, <1>5, <2>1
<1>7. \A u : Live(u)' = Live(u) /\ Of(u)' = Of(u)
  BY <1>3 DEF Live, Of, Url
<1>8. OwnStep(c, row)
  <2>1. faults' \in 0..MaxFaults
    BY <1>1, TypesAre DEF NoFault
  <2>2. QED  BY <1>1, <1>3, <1>5, <1>6, <2>1, TypesAre DEF OwnStep
<1>9. StageOf(c)'
  <2>1. Alone(Url(c), NoPage)'
    BY <1>3, <1>7 DEF Alone, Url
  <2>2. QED  BY <1>1, <1>3, <1>4, <2>1 DEF StageOf, Untouched, Url
<1>10. ReportInv'
  <2> SUFFICES ASSUME NEW d \in Confirms, confirms'[d].page # NoPage
               PROVE  /\ pages'[confirms'[d].page].state \in {"live", "deleted"}
                      /\ journal'[confirms'[d].page].resolution # "active"
    BY DEF ReportInv, Kept
  <2>1. confirms'[d].page = confirms[d].page
    BY <1>1, <1>3, TypesAre DEF StageOf
  <2>2. /\ confirms[d].page \in Confirms /\ Kept(confirms[d].page)
        /\ journal[confirms[d].page].resolution # "active"
    BY <1>1, <2>1 DEF CaptureInv, ReportInv, ConfirmRows
  <2>3. confirms[d].page # c
    BY <1>1, <2>2 DEF Kept, StageOf, Untouched
  <2>4. QED  BY <1>5, <2>1, <2>2, <2>3 DEF Kept
<1>11. OneLive'
  BY <1>7 DEF CaptureInv, OneLive
<1>12. ArchivedWasNamed'
  BY <1>1, <1>5 DEF CaptureInv, ArchivedWasNamed, StageOf, Untouched
<1>13. CleanedIsGone'
  <2> SUFFICES ASSUME NEW d \in Confirms, journal'[d].resolution = "cleaned",
                      pages[d].state = "live"
               PROVE  pages[d].late
    BY DEF CleanedIsGone
  <2>1. d # c
    BY <1>4
  <2>2. CASE journal[d].resolution = "cleaned"
    BY <2>2 DEF CaptureInv, CleanedIsGone
  <2>3. CASE Url(d) = Url(c)
    <3>1. d \in Live(Url(c))
      BY <2>3 DEF Live, Of, Url
    <3>2. QED  BY <3>1, CaptureAssumption DEF Alone
  <2>4. QED  BY <1>5, <2>1, <2>2, <2>3
<1>14. QED  BY <1>8, <1>9, <1>10, <1>11, <1>12, <1>13, OwnSteps

\* A page that was reported, and where it is.
LEMMA ReportedPage ==
    ASSUME CaptureInv, NEW c \in Confirms, confirms[c].page # NoPage
    PROVE  /\ confirms[c].page \in Confirms
           /\ pages[confirms[c].page].state \in {"live", "deleted"}
           /\ journal[confirms[c].page].resolution # "active"
BY TypesAre DEF CaptureInv, ReportInv, Kept, ConfirmRows

LEMMA FindKeeps ==
    ASSUME CaptureInv, NEW c \in Confirms, Find(c)
    PROVE  CaptureInv'
<1>1. Up /\ confirms[c].pc = "finding" /\ Pending(c) /\ UNCHANGED <<pages, late, api>>
  BY DEF Find, At, Pending
<1>2. Fault \/ NoFault
  BY DEF Find
<1>3. faults' \in 0..MaxFaults
  BY <1>2, FaultsStayBounded
<1>4. CASE Live(Url(c)) = {} /\ StartCreation(c) /\ NoFault
  <2>1. Alone(Url(c), NoPage)
    BY <1>4 DEF Alone
  <2>2. QED  BY <1>1, <1>4, <2>1, CreationStarts
<1>5. CASE /\ \E p \in Confirms :
                /\ Live(Url(c)) = {p}
                /\ confirms' = [confirms EXCEPT ![c].pc = "inspecting", ![c].existing = p]
           /\ UNCHANGED journal
  <2>1. PICK p \in Confirms :
           /\ Live(Url(c)) = {p}
           /\ confirms' = [confirms EXCEPT ![c].pc = "inspecting", ![c].existing = p]
    BY <1>5
  <2>2. /\ confirms \in [Confirms -> ConfirmRows] /\ confirms[c] \in ConfirmRows /\ StageOf(c)
    BY TypesAre DEF CaptureInv, StageInv
  <2>3. /\ confirms'[c].pc = "inspecting" /\ confirms'[c].existing = p
        /\ confirms'[c].url = confirms[c].url /\ confirms'[c].result = confirms[c].result
        /\ \A d \in Confirms \ {c} : confirms'[d] = confirms[d]
    BY <2>1, <2>2 DEF ConfirmRows
  <2>4. p \in Live(Url(c))
    BY <2>1
  <2>5. p \in Of(Url(c)) /\ Kept(p) /\ Alone(Url(c), p)
    BY <2>1, <2>4 DEF Live, Kept, Alone
  <2>6. \A u : Of(u)' = Of(u) /\ Live(u)' = Live(u)
    BY <1>1, <2>3 DEF Of, Live
  <2>7. p \in Of(Url(c))' /\ Kept(p)' /\ Alone(Url(c), p)'
    BY <1>1, <2>3, <2>5, <2>6 DEF Kept, Alone, Url
  <2>8. StageOf(c)'
    BY <1>1, <1>5, <2>2, <2>3, <2>7 DEF StageOf, Untouched, Url, Existing
  <2>9. QED  BY <1>1, <1>3, <1>5, <2>1, <2>8, GoesOn
<1>6. CASE \E result \in {"conflict", "failed"} : Refuse(c, result) /\ UNCHANGED journal
  BY <1>1, <1>3, <1>6, Refused
<1>7. QED  BY <1>4, <1>5, <1>6 DEF Find

\* A page found complete is reported, and its entries are ended.
LEMMA ReportsComplete ==
    ASSUME CaptureInv, NEW c \in Confirms, Up, confirms[c].pc = "inspecting",
           journal' = FoundComplete(Url(c)),
           Answer(c, "already_captured", Existing(c)),
           NoFault, UNCHANGED <<pages, late, api>>
    PROVE  CaptureInv'
<1> DEFINE p == Existing(c)
<1>1. /\ TypeOK /\ StageOf(c) /\ Pending(c)
      /\ confirms \in [Confirms -> ConfirmRows] /\ journal \in [Confirms -> EntryRows]
  BY TypesAre DEF CaptureInv, StageInv, Pending
<1>2. p \in Confirms /\ p \in Of(Url(c)) /\ Kept(p)
  BY <1>1 DEF StageOf, Of
<1> HIDE DEF p
<1>3. Answer(c, "already_captured", p)
  BY DEF p
<1>4. PICK row \in ConfirmRows :
          /\ confirms' = [confirms EXCEPT ![c] = row]
          /\ confirms'[c] = row
          /\ \A d \in Confirms \ {c} : confirms'[d] = confirms[d]
          /\ row.pc = "answered" /\ row.url = Url(c)
          /\ row.result = "already_captured" /\ row.page = p
  BY <1>1, <1>2, <1>3, AnswerRow
<1>5. \A d \in Confirms :
          /\ Url(d) # Url(c) => journal'[d] = journal[d]
          /\ Url(d) = Url(c) => journal'[d].resolution # "active"
          /\ journal'[d].named = journal[d].named
          /\ journal'[d].resolution = journal[d].resolution \/ journal'[d].resolution = "completed"
          /\ journal'[d] \in EntryRows
  <2> SUFFICES ASSUME NEW d \in Confirms PROVE
          /\ Url(d) # Url(c) => journal'[d] = journal[d]
          /\ Url(d) = Url(c) => journal'[d].resolution # "active"
          /\ journal'[d].named = journal[d].named
          /\ journal'[d].resolution = journal[d].resolution \/ journal'[d].resolution = "completed"
          /\ journal'[d] \in EntryRows
    OBVIOUS
  <2>1. journal[d] \in EntryRows
    BY <1>1
  <2>2. journal'[d] = IF d \in Unresolved(Url(c))
                      THEN [journal[d] EXCEPT !.resolution = "completed"] ELSE journal[d]
    BY DEF FoundComplete, Resolve
  <2>3. QED  BY <2>1, <2>2 DEF Unresolved, Of, Url, EntryRows
<1>6. journal' \in [Confirms -> EntryRows]
  <2>1. journal' = [d \in Confirms |-> journal'[d]]
    BY DEF FoundComplete, Resolve
  <2>2. QED  BY <1>5, <2>1
<1>7. \A u : Live(u)' = Live(u)
  BY <1>4 DEF Live, Of, Url
<1>8. OwnStep(c, row)
  <2>1. faults' \in 0..MaxFaults
    BY <1>1, TypesAre DEF NoFault
  <2>2. QED  BY <1>1, <1>2, <1>4, <1>5, <1>6, <2>1, CaptureAssumption, TypesAre DEF OwnStep
<1>9. StageOf(c)'
  BY <1>1, <1>4 DEF StageOf, Untouched, Url, Pending
<1>10. ReportInv'
  <2> SUFFICES ASSUME NEW d \in Confirms, confirms'[d].page # NoPage
               PROVE  /\ pages'[confirms'[d].page].state \in {"live", "deleted"}
                      /\ journal'[confirms'[d].page].resolution # "active"
    BY DEF ReportInv, Kept
  <2>1. CASE d = c
    BY <1>2, <1>4, <1>5, <2>1 DEF Kept, Of, Url
  <2>2. CASE d # c
    BY <1>4, <1>5, <2>2, ReportedPage
  <2>3. QED  BY <2>1, <2>2
<1>11. OneLive'
  BY <1>7 DEF CaptureInv, OneLive
<1>12. ArchivedWasNamed'
  BY <1>5 DEF CaptureInv, ArchivedWasNamed
<1>13. CleanedIsGone'
  BY <1>5 DEF CaptureInv, CleanedIsGone
<1>14. QED  BY <1>8, <1>9, <1>10, <1>11, <1>12, <1>13, OwnSteps

LEMMA InspectKeeps ==
    ASSUME CaptureInv, NEW c \in Confirms, Inspect(c)
    PROVE  CaptureInv'
<1>1. Up /\ confirms[c].pc = "inspecting" /\ Pending(c) /\ UNCHANGED <<pages, late, api>>
  BY DEF Inspect, At, Pending
<1>2. Fault \/ NoFault
  BY DEF Inspect
<1>3. faults' \in 0..MaxFaults
  BY <1>2, FaultsStayBounded
<1>4. CASE /\ journal' = FoundComplete(Url(c))
           /\ Answer(c, "already_captured", Existing(c)) /\ NoFault
  BY <1>1, <1>4, ReportsComplete
<1>5. CASE Owned(Existing(c), Unresolved(Url(c))) /\ Goto(c, "archiving") /\ journal' = journal
  <2>1. /\ confirms \in [Confirms -> ConfirmRows] /\ confirms[c] \in ConfirmRows /\ StageOf(c)
    BY TypesAre DEF CaptureInv, StageInv
  <2>2. Existing(c) \in Confirms /\ journal[Existing(c)].resolution = "active"
        /\ journal[Existing(c)].named
    BY <1>5 DEF Owned, Unresolved, Of
  <2>3. confirms' = [confirms EXCEPT ![c].pc = "archiving", ![c].existing = Existing(c)]
    BY <1>5, <2>1 DEF Goto, ConfirmRows, Existing
  <2>4. /\ confirms'[c].pc = "archiving" /\ confirms'[c].existing = confirms[c].existing
        /\ confirms'[c].url = confirms[c].url /\ confirms'[c].result = confirms[c].result
        /\ \A d \in Confirms \ {c} : confirms'[d] = confirms[d]
    BY <1>5, <2>1 DEF Goto, ConfirmRows
  <2>5. \A u : Of(u)' = Of(u) /\ Live(u)' = Live(u)
    BY <1>1, <2>4 DEF Of, Live
  <2>6. \A u, p : Alone(u, p)' <=> Alone(u, p)
    BY <1>1, <2>5 DEF Alone
  <2>7. StageOf(c)'
    BY <1>1, <1>5, <2>1, <2>2, <2>4, <2>5, <2>6 DEF StageOf, Untouched, Url, Existing, Kept
  <2>8. QED  BY <1>1, <1>3, <1>5, <2>2, <2>3, <2>7, GoesOn
<1>6. CASE \E result \in {"conflict", "failed"} : Refuse(c, result) /\ journal' = journal
  BY <1>1, <1>3, <1>6, Refused
<1>7. QED  BY <1>4, <1>5, <1>6 DEF Inspect

\* A page that its entry names and that nobody was told of is archived.
LEMMA ArchiveKeeps ==
    ASSUME CaptureInv, NEW c \in Confirms, Archive(c)
    PROVE  CaptureInv'
<1>1. Up /\ confirms[c].pc = "archiving" /\ Pending(c) /\ UNCHANGED <<journal, late, api>>
  BY DEF Archive, At, Pending
<1>2. Fault \/ NoFault
  BY DEF Archive
<1>3. faults' \in 0..MaxFaults
  BY <1>2, FaultsStayBounded
<1>4. CASE Refuse(c, "failed") /\ pages' = pages
  BY <1>1, <1>3, <1>4, Refused
<1>5. CASE pages' = Archived(Existing(c)) /\ Goto(c, "archived")
  <2> DEFINE p == Existing(c)
  <2>1. /\ TypeOK /\ StageOf(c) /\ pages \in [Confirms -> PageRows]
    BY TypesAre DEF CaptureInv, StageInv
  <2>2. /\ p \in Confirms /\ Url(p) = Url(c) /\ Kept(p) /\ Alone(Url(c), p)
        /\ journal[p].resolution = "active" /\ journal[p].named
    BY <1>1, <2>1 DEF StageOf, Of, Url
  <2> HIDE DEF p
  <2>3. PICK row \in ConfirmRows :
            /\ confirms' = [confirms EXCEPT ![c] = row]
            /\ confirms'[c] = row
            /\ \A d \in Confirms \ {c} : confirms'[d] = confirms[d]
            /\ row.pc = "archived" /\ row.url = Url(c) /\ row.existing = Existing(c)
            /\ row.result = "none" /\ row.page = NoPage
    BY <1>1, <1>5, GotoRow
  <2>4. /\ pages'[p].state \in {"archived", "deleted"} /\ pages'[p].late = pages[p].late
        /\ pages' \in [Confirms -> PageRows]
        /\ \A q \in Confirms \ {p} : pages'[q] = pages[q]
    <3> DEFINE state == IF pages[p].state = "live" THEN "archived" ELSE pages[p].state
               page == [pages[p] EXCEPT !.state = state]
    <3>1. pages[p] \in PageRows /\ state \in {"archived", "deleted"}
      BY <2>1, <2>2 DEF Kept
    <3> HIDE DEF state
    <3>2. page \in PageRows /\ page.state = state /\ page.late = pages[p].late
      BY <3>1 DEF PageRows
    <3>3. pages' = [pages EXCEPT ![p] = page]
      BY <1>5 DEF Archived, p, state
    <3> HIDE DEF page
    <3>4. QED  BY <2>1, <2>2, <3>1, <3>2, <3>3
  <2>5. OwnStep(c, row)
    BY <1>1, <1>3, <2>1, <2>2, <2>3, <2>4, TypesAre DEF OwnStep
  <2>6. \A u : Live(u)' \subseteq Live(u) \ {p}
    BY <2>3, <2>4 DEF Live, Of, Url
  <2>7. StageOf(c)'
    <3>1. c # p
      BY <1>1, <2>1, <2>2 DEF StageOf, Untouched, Kept
    <3>2. Alone(Url(c), NoPage)'
      BY <2>2, <2>3, <2>4, <2>6 DEF Alone, Url, Live, Of
    <3>3. QED  BY <1>1, <2>1, <2>3, <2>4, <3>1, <3>2 DEF StageOf, Untouched, Url
  <2>8. ReportInv'
    <3> SUFFICES ASSUME NEW d \in Confirms, confirms'[d].page # NoPage
                 PROVE  /\ pages'[confirms'[d].page].state \in {"live", "deleted"}
                        /\ journal'[confirms'[d].page].resolution # "active"
      BY DEF ReportInv, Kept
    <3>1. d # c /\ confirms'[d] = confirms[d]
      BY <2>3
    <3>2. confirms[d].page \in Confirms \ {p}
      BY <2>2, <3>1, ReportedPage
    <3>3. QED  BY <1>1, <2>4, <3>1, <3>2, ReportedPage
  <2>9. OneLive'
    BY <2>4, <2>6 DEF CaptureInv, OneLive, Live, Of
  <2>10. ArchivedWasNamed'
    BY <1>1, <2>2, <2>4 DEF CaptureInv, ArchivedWasNamed
  <2>11. CleanedIsGone'
    BY <1>1, <2>2, <2>4 DEF CaptureInv, CleanedIsGone
  <2>12. QED  BY <2>5, <2>7, <2>8, <2>9, <2>10, <2>11, OwnSteps
<1>6. QED  BY <1>4, <1>5 DEF Archive

LEMMA ArchiveAnsweredKeeps ==
    ASSUME CaptureInv, NEW c \in Confirms, ArchiveAnswered(c)
    PROVE  CaptureInv'
<1>1. Up /\ confirms[c].pc = "archived" /\ Pending(c) /\ UNCHANGED <<pages, late, api>>
  BY DEF ArchiveAnswered, At, Pending
<1>2. CASE StartCreation(c) /\ NoFault
  <2>1. Alone(Url(c), NoPage)
    BY <1>1 DEF CaptureInv, StageInv, StageOf
  <2>2. QED  BY <1>1, <1>2, <2>1, CreationStarts
<1>3. CASE Refuse(c, "failed") /\ journal' = journal /\ Fault
  BY <1>1, <1>3, Refused, FaultsStayBounded
<1>4. QED  BY <1>2, <1>3 DEF ArchiveAnswered

\* The page is the one of its Job URL that did not take effect late.
LEMMA CreateKeeps ==
    ASSUME CaptureInv, NEW c \in Confirms, Create(c)
    PROVE  CaptureInv'
<1>1. Up /\ confirms[c].pc = "creating" /\ Pending(c) /\ UNCHANGED <<journal, api>>
  BY DEF Create, At, Pending
<1>2. Fault \/ NoFault
  BY DEF Create
<1>3. faults' \in 0..MaxFaults
  BY <1>2, FaultsStayBounded
<1>4. CASE pages' = pages /\ Refuse(c, "failed") /\ late' \in {late, late \cup {c}}
  BY <1>1, <1>3, <1>4, Refused
<1>5. CASE Posted(c, FALSE) /\ Goto(c, "posted") /\ late' = late
  <2>1. /\ TypeOK /\ StageOf(c) /\ pages \in [Confirms -> PageRows]
    BY TypesAre DEF CaptureInv, StageInv
  <2>2. PICK row \in ConfirmRows :
            /\ confirms' = [confirms EXCEPT ![c] = row]
            /\ confirms'[c] = row
            /\ \A d \in Confirms \ {c} : confirms'[d] = confirms[d]
            /\ row.pc = "posted" /\ row.url = Url(c) /\ row.existing = Existing(c)
            /\ row.result = "none" /\ row.page = NoPage
    BY <1>1, <1>5, GotoRow
  <2>3. /\ pages'[c].state = "live" /\ ~ pages'[c].late
        /\ pages' \in [Confirms -> PageRows]
        /\ \A q \in Confirms \ {c} : pages'[q] = pages[q]
    BY <1>5, <2>1 DEF Posted, PageRows
  <2>4. OwnStep(c, row)
    BY <1>1, <1>3, <1>5, <2>1, <2>2, <2>3, TypesAre DEF OwnStep
  <2>5. StageOf(c)'
    BY <1>1, <2>1, <2>2, <2>3 DEF StageOf, Untouched, Url, Kept
  <2>6. ReportInv'
    <3> SUFFICES ASSUME NEW d \in Confirms, confirms'[d].page # NoPage
                 PROVE  /\ pages'[confirms'[d].page].state \in {"live", "deleted"}
                        /\ journal'[confirms'[d].page].resolution # "active"
      BY DEF ReportInv, Kept
    <3>1. d # c /\ confirms'[d] = confirms[d]
      BY <2>2
    <3>2. confirms[d].page # c
      BY <1>1, <2>1, <3>1, ReportedPage DEF StageOf
    <3>3. QED  BY <1>1, <2>3, <3>1, <3>2, ReportedPage
  <2>7. OneLive'
    <3> SUFFICES ASSUME NEW u \in Urls, NEW p \in Live(u)', NEW q \in Live(u)',
                        ~ pages'[p].late, ~ pages'[q].late
                 PROVE  p = q
      BY DEF OneLive
    <3>1. /\ p \in Confirms /\ Url(p) = u /\ (p # c => p \in Live(u))
          /\ q \in Confirms /\ Url(q) = u /\ (q # c => q \in Live(u))
      BY <2>2, <2>3 DEF Live, Of, Url
    <3>2. Alone(Url(c), NoPage)
      BY <1>1, <2>1 DEF StageOf
    <3>3. \A s \in Live(Url(c)) : pages[s].late
      BY <3>2, CaptureAssumption DEF Alone, Live, Of
    <3>4. CASE u = Url(c)
      BY <2>3, <3>1, <3>3, <3>4
    <3>5. CASE u # Url(c)
      BY <2>3, <3>1, <3>5 DEF CaptureInv, OneLive
    <3>6. QED  BY <3>4, <3>5
  <2>8. ArchivedWasNamed'
    BY <1>1, <2>3 DEF CaptureInv, ArchivedWasNamed
  <2>9. CleanedIsGone'
    BY <1>1, <2>1, <2>3 DEF CaptureInv, CleanedIsGone, StageOf
  <2>10. QED  BY <2>4, <2>5, <2>6, <2>7, <2>8, <2>9, OwnSteps
<1>6. QED  BY <1>4, <1>5 DEF Create

LEMMA CreatedKeeps ==
    ASSUME CaptureInv, NEW c \in Confirms, Created(c)
    PROVE  CaptureInv'
<1>1. Up /\ confirms[c].pc = "posted" /\ Pending(c) /\ UNCHANGED <<pages, late, api>>
  BY DEF Created, At, Pending
<1>2. Fault \/ NoFault
  BY DEF Created
<1>3. faults' \in 0..MaxFaults
  BY <1>2, FaultsStayBounded
<1>4. CASE journal' = journal /\ Refuse(c, "failed")
  BY <1>1, <1>3, <1>4, Refused
<1>5. CASE journal' = [journal EXCEPT ![c].named = TRUE] /\ Goto(c, "appending")
  <2>1. /\ TypeOK /\ StageOf(c) /\ journal \in [Confirms -> EntryRows]
    BY TypesAre DEF CaptureInv, StageInv
  <2>2. PICK row \in ConfirmRows :
            /\ confirms' = [confirms EXCEPT ![c] = row]
            /\ confirms'[c] = row
            /\ \A d \in Confirms \ {c} : confirms'[d] = confirms[d]
            /\ row.pc = "appending" /\ row.url = Url(c) /\ row.existing = Existing(c)
            /\ row.result = "none" /\ row.page = NoPage
    BY <1>1, <1>5, GotoRow
  <2>3. /\ journal'[c].named /\ journal'[c].resolution = journal[c].resolution
        /\ journal' \in [Confirms -> EntryRows]
        /\ \A d \in Confirms \ {c} : journal'[d] = journal[d]
    BY <1>5, <2>1 DEF EntryRows
  <2>4. OwnStep(c, row)
    BY <1>1, <1>3, <2>1, <2>2, <2>3, TypesAre DEF OwnStep
  <2>5. StageOf(c)'
    BY <1>1, <2>1, <2>2, <2>3 DEF StageOf, Untouched, Url, Kept
  <2>6. \A d \in Confirms : confirms'[d].page = confirms[d].page
    BY <1>1, <2>1, <2>2, TypesAre DEF StageOf
  <2>7. ReportInv'
    BY <1>1, <2>3, <2>6, ReportedPage DEF ReportInv, Kept
  <2>8. \A u : Live(u)' = Live(u)
    BY <1>1, <2>2 DEF Live, Of, Url
  <2>9. OneLive'
    BY <1>1, <2>8 DEF CaptureInv, OneLive
  <2>10. ArchivedWasNamed' /\ CleanedIsGone'
    BY <1>1, <2>3 DEF CaptureInv, ArchivedWasNamed, CleanedIsGone
  <2>11. QED  BY <2>4, <2>5, <2>7, <2>9, <2>10, OwnSteps
<1>6. QED  BY <1>4, <1>5 DEF Created

LEMMA AppendKeeps ==
    ASSUME CaptureInv, NEW c \in Confirms, Append(c)
    PROVE  CaptureInv'
<1>1. Up /\ confirms[c].pc = "appending" /\ Pending(c) /\ UNCHANGED <<journal, late, api>>
  BY DEF Append, At, Pending
<1>2. Fault \/ NoFault
  BY DEF Append
<1>3. faults' \in 0..MaxFaults
  BY <1>2, FaultsStayBounded
<1>4. CASE pages' = pages /\ Refuse(c, "failed")
  BY <1>1, <1>3, <1>4, Refused
<1>5. CASE /\ pages' = [pages EXCEPT ![c].appended = @ + 1]
           /\ confirms' = confirms \/ Refuse(c, "failed")
  <2>1. /\ TypeOK /\ StageOf(c) /\ pages \in [Confirms -> PageRows]
        /\ confirms \in [Confirms -> ConfirmRows] /\ confirms[c].page = NoPage
    BY <1>1, TypesAre DEF CaptureInv, StageInv, StageOf
  <2>2. PICK row \in ConfirmRows :
            /\ confirms' = [confirms EXCEPT ![c] = row]
            /\ confirms'[c] = row
            /\ \A d \in Confirms \ {c} : confirms'[d] = confirms[d]
            /\ row.pc \in {"appending", "answered"} /\ row.url = Url(c)
            /\ row.pc = "appending" => row.result = "none"
            /\ row.result \in {"none", "failed"} /\ row.page = NoPage
    <3>1. CASE Refuse(c, "failed")
      <4>1. Answer(c, "failed", NoPage)
        BY <3>1 DEF Refuse
      <4>2. PICK row \in ConfirmRows :
                /\ confirms' = [confirms EXCEPT ![c] = row]
                /\ confirms'[c] = row
                /\ \A d \in Confirms \ {c} : confirms'[d] = confirms[d]
                /\ row.pc = "answered" /\ row.url = Url(c)
                /\ row.result = "failed" /\ row.page = NoPage
        BY <1>1, <4>1, AnswerRow
      <4>3. QED  BY <4>2
    <3>2. CASE confirms' = confirms
      <4>1. confirms[c] \in ConfirmRows /\ confirms' = [confirms EXCEPT ![c] = confirms[c]]
        BY <2>1, <3>2
      <4>2. confirms[c].result = "none"
        BY <1>1, <2>1 DEF StageOf
      <4>3. QED  BY <1>1, <2>1, <3>2, <4>1, <4>2 DEF Url
    <3>3. QED  BY <1>5, <3>1, <3>2
  <2>3. /\ pages'[c].state = pages[c].state /\ pages'[c].late = pages[c].late
        /\ pages' \in [Confirms -> PageRows]
        /\ \A q \in Confirms \ {c} : pages'[q] = pages[q]
    <3> DEFINE page == [pages[c] EXCEPT !.appended = @ + 1]
    <3>1. pages[c] \in PageRows
      BY <2>1
    <3>2. page \in PageRows /\ page.state = pages[c].state /\ page.late = pages[c].late
      BY <3>1 DEF PageRows
    <3>3. pages' = [pages EXCEPT ![c] = page]
      BY <1>5
    <3> HIDE DEF page
    <3>4. QED  BY <2>1, <3>2, <3>3
  <2>4. OwnStep(c, row)
    BY <1>1, <1>3, <2>1, <2>2, <2>3, TypesAre DEF OwnStep
  <2>5. StageOf(c)'
    BY <1>1, <2>1, <2>2, <2>3 DEF StageOf, Untouched, Url, Kept
  <2>6. \A d \in Confirms : confirms'[d].page = confirms[d].page
    BY <2>1, <2>2
  <2>7. \A q \in Confirms : pages'[q].state = pages[q].state /\ pages'[q].late = pages[q].late
    BY <2>3
  <2>8. ReportInv'
    BY <1>1, <2>6, <2>7, ReportedPage DEF ReportInv, Kept
  <2>9. \A u : Live(u)' = Live(u)
    BY <2>2, <2>7 DEF Live, Of, Url
  <2>10. OneLive'
    <3>1. \A u : \A q \in Live(u) : pages'[q].late = pages[q].late
      BY <2>7 DEF Live, Of
    <3>2. QED  BY <2>9, <3>1 DEF CaptureInv, OneLive
  <2>11. ArchivedWasNamed' /\ CleanedIsGone'
    BY <1>1, <2>7 DEF CaptureInv, ArchivedWasNamed, CleanedIsGone
  <2>12. QED  BY <2>4, <2>5, <2>8, <2>10, <2>11, OwnSteps
<1>6. QED  BY <1>4, <1>5 DEF Append

LEMMA FinishKeeps ==
    ASSUME CaptureInv, NEW c \in Confirms, Finish(c)
    PROVE  CaptureInv'
<1>1. Up /\ confirms[c].pc = "appending" /\ Pending(c)
      /\ UNCHANGED <<pages, late, api, faults>>
  BY DEF Finish, At, Pending
<1>2. /\ TypeOK /\ StageOf(c) /\ journal \in [Confirms -> EntryRows]
      /\ faults' \in 0..MaxFaults
  BY <1>1, TypesAre DEF CaptureInv, StageInv
<1>3. Answer(c, "created", c)
  BY DEF Finish
<1>4. PICK row \in ConfirmRows :
          /\ confirms' = [confirms EXCEPT ![c] = row]
          /\ confirms'[c] = row
          /\ \A d \in Confirms \ {c} : confirms'[d] = confirms[d]
          /\ row.pc = "answered" /\ row.url = Url(c)
          /\ row.result = "created" /\ row.page = c
  BY <1>1, <1>3, AnswerRow
<1>5. /\ journal'[c].resolution = "completed" /\ journal'[c].named = journal[c].named
      /\ journal' \in [Confirms -> EntryRows]
      /\ \A d \in Confirms \ {c} : journal'[d] = journal[d]
  <2> DEFINE entry == [journal[c] EXCEPT !.resolution = "completed"]
  <2>1. entry \in EntryRows /\ entry.resolution = "completed" /\ entry.named = journal[c].named
    BY <1>2 DEF EntryRows
  <2>2. journal' = [journal EXCEPT ![c] = entry]
    BY DEF Finish
  <2> HIDE DEF entry
  <2>3. QED  BY <1>2, <2>1, <2>2
<1>6. OwnStep(c, row)
  BY <1>1, <1>2, <1>4, <1>5, CaptureAssumption, TypesAre DEF OwnStep
<1>7. StageOf(c)'
  BY <1>1, <1>2, <1>4 DEF StageOf, Untouched, Url
<1>8. ReportInv'
  <2> SUFFICES ASSUME NEW d \in Confirms, confirms'[d].page # NoPage
               PROVE  /\ pages'[confirms'[d].page].state \in {"live", "deleted"}
                      /\ journal'[confirms'[d].page].resolution # "active"
    BY DEF ReportInv, Kept
  <2>1. CASE d = c
    BY <1>1, <1>2, <1>4, <1>5, <2>1 DEF Kept, StageOf
  <2>2. CASE d # c
    BY <1>1, <1>4, <1>5, <2>2, ReportedPage
  <2>3. QED  BY <2>1, <2>2
<1>9. \A u : Live(u)' = Live(u)
  BY <1>1, <1>4 DEF Live, Of, Url
<1>10. OneLive'
  BY <1>1, <1>9 DEF CaptureInv, OneLive
<1>11. ArchivedWasNamed' /\ CleanedIsGone'
  BY <1>1, <1>5 DEF CaptureInv, ArchivedWasNamed, CleanedIsGone
<1>12. QED  BY <1>6, <1>7, <1>8, <1>10, <1>11, OwnSteps

-----------------------------------------------------------------------------
(* Notion, its owner, the crash and the restart                            *)

\* A page that takes effect late is not counted, and nobody waits for it.
LEMMA LandKeeps ==
    ASSUME CaptureInv, NEW c \in Confirms, Land(c)
    PROVE  CaptureInv'
<1>1. /\ TypeOK /\ pages \in [Confirms -> PageRows]
      /\ c \in late /\ late' = late \ {c} /\ UNCHANGED <<confirms, journal, api, faults>>
  BY TypesAre DEF CaptureInv, Land
<1>2. /\ pages'[c].state = "live" /\ pages'[c].late
      /\ pages' \in [Confirms -> PageRows]
      /\ \A q \in Confirms \ {c} : pages'[q] = pages[q]
  BY <1>1 DEF Land, Posted, PageRows
<1>3. TypeOK'
  BY <1>1, <1>2 DEF TypeOK, PageRows
<1>4. LockInv'
  BY <1>1 DEF CaptureInv, LockInv, Pending, Url, Up
<1>5. \A u : Of(u)' = Of(u) /\ Live(u)' \subseteq Live(u) \cup {c}
  BY <1>1, <1>2 DEF Live, Of
<1>6. \A u, p : Alone(u, p) => Alone(u, p)'
  <2>1. \A u : \A q \in Live(u)' : q # c => q \in Live(u) /\ pages'[q] = pages[q]
    BY <1>2, <1>5 DEF Live, Of
  <2>2. QED  BY <1>2, <2>1 DEF Alone
<1>7. StageInv'
  <2> SUFFICES ASSUME NEW d \in Confirms PROVE StageOf(d)'
    BY DEF StageInv
  <2>1. StageOf(d)
    BY DEF CaptureInv, StageInv
  <2>2. d = c => confirms[d].pc \notin Untouched \cup {"creating"}
    BY <1>1, <2>1 DEF StageOf
  <2>3. \A q \in Confirms : Kept(q) => Kept(q)'
    BY <1>2 DEF Kept
  <2>4. confirms[d].pc \in {"inspecting", "archiving"} => Existing(d) \in Confirms
    BY <2>1 DEF StageOf, Of
  <2>5. d # c => pages'[d] = pages[d]
    BY <1>2
  <2>6. QED  BY <1>1, <1>5, <1>6, <2>1, <2>2, <2>3, <2>4, <2>5
           DEF StageOf, Url, Existing, Untouched
<1>8. ReportInv'
  BY <1>1, <1>2, ReportedPage DEF ReportInv, Kept
<1>9. EntriesInv'
  BY <1>1 DEF CaptureInv, EntriesInv
<1>10. OneLive'
  <2>1. \A u : \A q \in Live(u)' : ~ pages'[q].late => q \in Live(u) /\ ~ pages[q].late
    BY <1>2, <1>5 DEF Live, Of
  <2>2. QED  BY <2>1 DEF CaptureInv, OneLive
<1>11. ArchivedWasNamed' /\ CleanedIsGone'
  BY <1>1, <1>2 DEF CaptureInv, ArchivedWasNamed, CleanedIsGone
<1>12. QED  BY <1>3, <1>4, <1>7, <1>8, <1>9, <1>10, <1>11 DEF CaptureInv

LEMMA OwnerEditsKeeps ==
    ASSUME CaptureInv, NEW p \in Confirms, OwnerEdits(p)
    PROVE  CaptureInv'
<1>1. /\ TypeOK /\ pages \in [Confirms -> PageRows] /\ pages[p].state = "live"
      /\ UNCHANGED <<confirms, journal, late, api>>
  BY TypesAre DEF CaptureInv, OwnerEdits
<1>2. /\ pages'[p].state \in {"live", "deleted"} /\ pages'[p].late = pages[p].late
      /\ pages' \in [Confirms -> PageRows]
      /\ \A q \in Confirms \ {p} : pages'[q] = pages[q]
  BY <1>1 DEF OwnerEdits, PageRows
<1>3. faults' \in 0..MaxFaults
  BY FaultsStayBounded DEF OwnerEdits
<1>4. TypeOK'
  BY <1>1, <1>2, <1>3 DEF TypeOK, PageRows
<1>5. LockInv'
  BY <1>1 DEF CaptureInv, LockInv, Pending, Url, Up
<1>6. \A u : Of(u)' = Of(u) /\ Live(u)' \subseteq Live(u)
  BY <1>1, <1>2 DEF Live, Of
<1>7. \A q \in Confirms : pages'[q].late = pages[q].late
  BY <1>2
<1>8. \A u, q : Alone(u, q) => Alone(u, q)'
  BY <1>6, <1>7 DEF Alone, Live, Of
<1>9. StageInv'
  <2> SUFFICES ASSUME NEW d \in Confirms PROVE StageOf(d)'
    BY DEF StageInv
  <2>1. StageOf(d)
    BY DEF CaptureInv, StageInv
  <2>2. \A q \in Confirms : Kept(q) => Kept(q)'
    BY <1>2 DEF Kept
  <2>3. confirms[d].pc \in {"inspecting", "archiving"} => Existing(d) \in Confirms
    BY <2>1 DEF StageOf, Of
  <2>4. pages[d].state = "none" => pages'[d] = pages[d]
    BY <1>1, <1>2
  <2>5. QED  BY <1>1, <1>6, <1>8, <2>1, <2>2, <2>3, <2>4 DEF StageOf, Url, Existing, Untouched
<1>10. ReportInv'
  BY <1>1, <1>2, ReportedPage DEF ReportInv, Kept
<1>11. EntriesInv'
  BY <1>1 DEF CaptureInv, EntriesInv
<1>12. OneLive'
  BY <1>6, <1>7 DEF CaptureInv, OneLive, Live, Of
<1>13. ArchivedWasNamed' /\ CleanedIsGone'
  BY <1>1, <1>2 DEF CaptureInv, ArchivedWasNamed, CleanedIsGone
<1>14. QED  BY <1>4, <1>5, <1>9, <1>10, <1>11, <1>12, <1>13 DEF CaptureInv

LEMMA CrashKeeps ==
    ASSUME CaptureInv, Crash
    PROVE  CaptureInv'
<1>1. /\ TypeOK /\ confirms \in [Confirms -> ConfirmRows]
      /\ UNCHANGED <<pages, journal>>
      /\ api' = [state |-> "down", entries |-> {}]
  BY TypesAre DEF CaptureInv, Crash
<1>2. \A c \in Confirms :
          /\ ~ Pending(c) => confirms'[c] = confirms[c]
          /\ Pending(c) => confirms'[c].pc = "answered"
          /\ confirms'[c].url = confirms[c].url /\ confirms'[c].page = confirms[c].page
          /\ confirms'[c] \in ConfirmRows
          /\ confirms'[c].page # NoPage <=> confirms'[c].result \in {"created", "already_captured"}
  <2> SUFFICES ASSUME NEW c \in Confirms PROVE
          /\ ~ Pending(c) => confirms'[c] = confirms[c]
          /\ Pending(c) => confirms'[c].pc = "answered"
          /\ confirms'[c].url = confirms[c].url /\ confirms'[c].page = confirms[c].page
          /\ confirms'[c] \in ConfirmRows
          /\ confirms'[c].page # NoPage <=> confirms'[c].result \in {"created", "already_captured"}
    OBVIOUS
  <2>1. confirms[c] \in ConfirmRows
        /\ (confirms[c].page # NoPage <=> confirms[c].result \in {"created", "already_captured"})
    BY <1>1, TypesAre
  <2>2. CASE ~ Pending(c)
    BY <2>1, <2>2 DEF Crash
  <2>3. CASE Pending(c)
    <3>1. confirms'[c] = [confirms[c] EXCEPT !.pc = "answered", !.result = "failed"]
      BY <2>3 DEF Crash
    <3>2. confirms[c].page = NoPage
      BY <2>1, <2>3 DEF CaptureInv, StageInv, StageOf, Pending
    <3>3. QED  BY <2>1, <2>3, <3>1, <3>2 DEF ConfirmRows
  <2>4. QED  BY <2>2, <2>3
<1>3. confirms' \in [Confirms -> ConfirmRows]
  <2>1. confirms' = [c \in Confirms |-> confirms'[c]]
    BY DEF Crash
  <2>2. QED  BY <1>2, <2>1
<1>4. late' \subseteq Confirms
      /\ \A c \in late' : c \in late \/ confirms[c].pc = "creating"
  BY <1>1, TypesAre DEF Crash
<1>5. faults' \in 0..MaxFaults
  BY FaultsStayBounded DEF Crash
<1>6. TypeOK'
  BY <1>1, <1>2, <1>3, <1>4, <1>5 DEF TypeOK, ConfirmRows
<1>7. \A c \in Confirms : ~ Pending(c)'
  BY <1>2 DEF Pending
<1>8. LockInv'
  BY <1>7 DEF LockInv
<1>9. StageInv'
  <2> SUFFICES ASSUME NEW c \in Confirms PROVE StageOf(c)'
    BY DEF StageInv
  <2>1. StageOf(c)
    BY DEF CaptureInv, StageInv
  <2>2. CASE Pending(c)
    BY <1>2, <2>1, <2>2 DEF StageOf, Url, Untouched, Pending
  <2>3. CASE ~ Pending(c)
    <3>1. confirms'[c] = confirms[c] /\ confirms[c].pc \in {"none", "answered"}
      BY <1>2, <2>3 DEF Pending
    <3>2. confirms[c].pc = "none" => c \notin late'
      BY <1>4, <2>1 DEF StageOf, Untouched
    <3>3. QED  BY <1>1, <2>1, <3>1, <3>2 DEF StageOf, Url, Untouched
  <2>4. QED  BY <2>2, <2>3
<1>10. ReportInv'
  BY <1>1, <1>2, ReportedPage DEF ReportInv, Kept
<1>11. EntriesInv'
  BY <1>1 DEF EntriesInv
<1>12. \A u : Live(u)' = Live(u)
  BY <1>1, <1>2 DEF Live, Of
<1>13. OneLive' /\ ArchivedWasNamed' /\ CleanedIsGone'
  BY <1>1, <1>12 DEF CaptureInv, OneLive, ArchivedWasNamed, CleanedIsGone
<1>14. QED  BY <1>6, <1>8, <1>9, <1>10, <1>11, <1>13 DEF CaptureInv

LEMMA RestartKeeps ==
    ASSUME CaptureInv, Restart
    PROVE  CaptureInv'
<1>1. /\ TypeOK /\ api.state = "down"
      /\ api' = [state |-> "reconciling", entries |-> UNION {Unresolved(u) : u \in Urls}]
      /\ UNCHANGED <<confirms, pages, journal, late, faults>>
  BY DEF CaptureInv, Restart
<1>2. api' \in [state : {"down", "reconciling", "up"}, entries : SUBSET Confirms]
      /\ api'.state = "reconciling" /\ \A c \in api'.entries : journal[c].resolution = "active"
  BY <1>1 DEF Unresolved, Of
<1>3. TypeOK'
  BY <1>1, <1>2 DEF TypeOK
<1>4. LockInv'
  BY <1>1 DEF CaptureInv, LockInv, Pending, Url, Up
<1>5. StageInv'
  BY <1>1 DEF CaptureInv, StageInv, StageOf, Url, Existing, Kept, Alone, Live, Of
<1>6. ReportInv' /\ OneLive' /\ ArchivedWasNamed' /\ CleanedIsGone'
  BY <1>1 DEF CaptureInv, ReportInv, OneLive, ArchivedWasNamed, CleanedIsGone, Kept, Live, Of
<1>7. EntriesInv'
  BY <1>1, <1>2 DEF EntriesInv
<1>8. QED  BY <1>3, <1>4, <1>5, <1>6, <1>7 DEF CaptureInv

LEMMA ServeKeeps ==
    ASSUME CaptureInv, Serve
    PROVE  CaptureInv'
<1>1. /\ TypeOK /\ api.state = "reconciling" /\ api.entries = {}
      /\ api' = [api EXCEPT !.state = "up"]
      /\ UNCHANGED <<confirms, pages, journal, late, faults>>
  BY DEF CaptureInv, Serve
<1>2. api' \in [state : {"down", "reconciling", "up"}, entries : SUBSET Confirms]
      /\ api'.state = "up" /\ api'.entries = {}
  BY <1>1 DEF TypeOK
<1>3. TypeOK'
  BY <1>1, <1>2 DEF TypeOK
<1>4. LockInv'
  BY <1>1 DEF CaptureInv, LockInv, Pending, Url, Up
<1>5. StageInv'
  BY <1>1 DEF CaptureInv, StageInv, StageOf, Url, Existing, Kept, Alone, Live, Of
<1>6. ReportInv' /\ OneLive' /\ ArchivedWasNamed' /\ CleanedIsGone'
  BY <1>1 DEF CaptureInv, ReportInv, OneLive, ArchivedWasNamed, CleanedIsGone, Kept, Live, Of
<1>7. EntriesInv'
  BY <1>2 DEF EntriesInv
<1>8. QED  BY <1>3, <1>4, <1>5, <1>6, <1>7 DEF CaptureInv

\* What reconcile may do with one entry: end it, archive its page when the
\* entry names it, or leave it for the next start.
EntryIsReconciled(c) ==
    /\ \A d \in Confirms \ {c} : journal'[d] = journal[d] /\ pages'[d] = pages[d]
    /\ journal' \in [Confirms -> EntryRows] /\ pages' \in [Confirms -> PageRows]
    /\ journal'[c].named = journal[c].named
    /\ journal'[c].resolution \in {journal[c].resolution, "completed", "cleaned"}
    /\ pages'[c].late = pages[c].late
    /\ pages'[c].state = pages[c].state \/ (pages'[c].state = "archived" /\ journal[c].named)
    /\ journal'[c].resolution = "cleaned" => pages'[c].state # "live"

LEMMA ResolveOne ==
    ASSUME CaptureInv, NEW c \in Confirms, NEW resolution \in {"completed", "cleaned"},
           journal' = Resolve({c}, resolution)
    PROVE  /\ \A d \in Confirms \ {c} : journal'[d] = journal[d]
           /\ journal' \in [Confirms -> EntryRows]
           /\ journal'[c].named = journal[c].named
           /\ journal'[c].resolution = resolution
<1> DEFINE entry == [journal[c] EXCEPT !.resolution = resolution]
<1>1. journal \in [Confirms -> EntryRows]
  BY TypesAre DEF CaptureInv
<1>2. entry \in EntryRows /\ entry.named = journal[c].named /\ entry.resolution = resolution
  BY <1>1 DEF EntryRows
<1>3. journal' = [journal EXCEPT ![c] = entry]
  BY <1>1 DEF Resolve
<1> HIDE DEF entry
<1>4. QED  BY <1>1, <1>2, <1>3

LEMMA ArchiveOne ==
    ASSUME CaptureInv, NEW c \in Confirms, pages' = Archived(c)
    PROVE  /\ \A d \in Confirms \ {c} : pages'[d] = pages[d]
           /\ pages' \in [Confirms -> PageRows]
           /\ pages'[c].late = pages[c].late
           /\ pages'[c].state \in {pages[c].state, "archived"} \ {"live"}
<1> DEFINE state == IF pages[c].state = "live" THEN "archived" ELSE pages[c].state
           page == [pages[c] EXCEPT !.state = state]
<1>1. pages \in [Confirms -> PageRows] /\ pages[c] \in PageRows
  BY TypesAre DEF CaptureInv
<1>2. /\ state \in {pages[c].state, "archived"} \ {"live"}
      /\ state \in {"none", "live", "archived", "deleted"}
  BY <1>1 DEF PageRows
<1>3. pages' = [pages EXCEPT ![c] = page]
  BY DEF Archived
<1> HIDE DEF state
<1>4. page \in PageRows /\ page.state = state /\ page.late = pages[c].late
  BY <1>1, <1>2 DEF PageRows
<1> HIDE DEF page
<1>5. QED  BY <1>1, <1>2, <1>3, <1>4

LEMMA ReconcileEntryIs ==
    ASSUME CaptureInv, NEW c \in Confirms, ReconcileEntry(c)
    PROVE  EntryIsReconciled(c)
<1>1. pages \in [Confirms -> PageRows] /\ journal \in [Confirms -> EntryRows]
  BY TypesAre DEF CaptureInv
<1>2. CASE journal' = journal /\ pages' = pages
  <2>1. journal[c].resolution # "cleaned"
    BY DEF CaptureInv, EntriesInv, ReconcileEntry
  <2>2. QED  BY <1>1, <1>2, <2>1 DEF EntryIsReconciled
<1>3. CASE Live(Url(c)) = {} /\ journal' = Resolve({c}, "cleaned") /\ pages' = pages
  <2>1. pages[c].state # "live"
    BY <1>3 DEF Live, Of, Url
  <2>2. QED  BY <1>1, <1>3, <2>1, ResolveOne DEF EntryIsReconciled
<1>4. CASE journal' = Resolve({c}, "completed") /\ pages' = pages
  BY <1>1, <1>4, ResolveOne DEF EntryIsReconciled
<1>5. CASE \E p \in Confirms : Owned(p, {c}) /\ ReconciledByArchive(c)
  <2>1. journal[c].named
    BY <1>5 DEF Owned
  <2>2. CASE pages' = Archived(c) /\ journal' = Resolve({c}, "cleaned")
    BY <2>1, <2>2, ResolveOne, ArchiveOne DEF EntryIsReconciled
  <2>3. CASE pages' = Archived(c) /\ journal' = journal
    <3>1. journal[c].resolution # "cleaned"
      BY DEF CaptureInv, EntriesInv, ReconcileEntry
    <3>2. QED  BY <1>1, <2>1, <2>3, <3>1, ArchiveOne DEF EntryIsReconciled
  <2>4. QED  BY <1>2, <1>5, <2>2, <2>3 DEF ReconciledByArchive
<1>6. QED  BY <1>2, <1>3, <1>4, <1>5 DEF ReconcileEntry

LEMMA ReconcileKeeps ==
    ASSUME CaptureInv, NEW c \in Confirms, ReconcileEntry(c)
    PROVE  CaptureInv'
<1>1. /\ TypeOK /\ api.state = "reconciling" /\ c \in api.entries
      /\ api' = [api EXCEPT !.entries = @ \ {c}]
      /\ UNCHANGED <<confirms, late>>
      /\ journal[c].resolution = "active"
  BY DEF CaptureInv, EntriesInv, ReconcileEntry
<1>2. EntryIsReconciled(c)
  BY ReconcileEntryIs
<1>3. Fault \/ NoFault
  BY DEF ReconcileEntry, ReconciledByArchive
<1>4. /\ api' \in [state : {"down", "reconciling", "up"}, entries : SUBSET Confirms]
      /\ api'.state = "reconciling" /\ api'.entries = api.entries \ {c}
  BY <1>1 DEF TypeOK
<1>5. TypeOK'
  <2>1. faults' \in 0..MaxFaults
    BY <1>3, FaultsStayBounded
  <2>2. QED  BY <1>1, <1>2, <1>4, <2>1 DEF EntryIsReconciled, TypeOK, EntryRows, PageRows
<1>6. \A d \in Confirms : ~ Pending(d)
  BY <1>1 DEF CaptureInv, LockInv, Up
<1>7. LockInv'
  BY <1>1, <1>6 DEF LockInv, Pending
<1>8. StageInv'
  <2> SUFFICES ASSUME NEW d \in Confirms PROVE StageOf(d)'
    BY DEF StageInv
  <2>1. StageOf(d) /\ StageOf(c) /\ confirms[d].pc \in {"none", "answered"}
    BY <1>6 DEF CaptureInv, StageInv, Pending
  <2>2. d = c => confirms[d].pc = "answered"
    BY <1>1, <2>1 DEF StageOf, Untouched
  <2>3. d # c => pages'[d] = pages[d] /\ journal'[d] = journal[d]
    BY <1>2 DEF EntryIsReconciled
  <2>4. QED  BY <1>1, <2>1, <2>2, <2>3 DEF StageOf, Url, Untouched
<1>9. ReportInv'
  <2> SUFFICES ASSUME NEW d \in Confirms, confirms[d].page # NoPage
               PROVE  /\ pages'[confirms[d].page].state \in {"live", "deleted"}
                      /\ journal'[confirms[d].page].resolution # "active"
    BY <1>1 DEF ReportInv, Kept
  <2>1. confirms[d].page \in Confirms \ {c}
    BY <1>1, ReportedPage
  <2>2. QED  BY <1>2, <2>1, ReportedPage DEF EntryIsReconciled
<1>10. EntriesInv'
  <2>1. \A d \in api'.entries : d \in Confirms \ {c} /\ journal[d].resolution = "active"
    BY <1>1, <1>4 DEF CaptureInv, EntriesInv, TypeOK
  <2>2. QED  BY <1>2, <1>4, <2>1 DEF EntryIsReconciled, EntriesInv
<1>11. \A q \in Confirms :
          pages'[q].late = pages[q].late /\ (pages'[q].state = "live" => pages[q].state = "live")
  BY <1>2 DEF EntryIsReconciled
<1>12. OneLive'
  BY <1>1, <1>11 DEF CaptureInv, OneLive, Live, Of
<1>13. ArchivedWasNamed'
  BY <1>2 DEF EntryIsReconciled, CaptureInv, ArchivedWasNamed
<1>14. CleanedIsGone'
  BY <1>1, <1>2 DEF EntryIsReconciled, CaptureInv, CleanedIsGone
<1>15. QED  BY <1>5, <1>7, <1>8, <1>9, <1>10, <1>12, <1>13, <1>14 DEF CaptureInv

-----------------------------------------------------------------------------
(* The theorems                                                            *)

LEMMA CaptureStarts == Init => CaptureInv
<1> SUFFICES ASSUME Init PROVE CaptureInv
  OBVIOUS
<1>1. \A c \in Confirms :
          /\ confirms[c] = NoConfirm /\ pages[c] = NoNotionPage /\ journal[c] = NoEntry
  BY DEF Init
<1>2. TypeOK
  BY CaptureAssumption DEF Init, TypeOK, NoConfirm, NoNotionPage, NoEntry
<1>3. LockInv
  BY <1>1 DEF LockInv, Pending, NoConfirm
<1>4. StageInv
  BY <1>1 DEF StageInv, StageOf, Untouched, Init, NoConfirm, NoNotionPage, NoEntry, Url
<1>5. ReportInv /\ EntriesInv
  BY <1>1 DEF ReportInv, EntriesInv, Init, NoConfirm
<1>6. OneLive /\ ArchivedWasNamed /\ CleanedIsGone
  BY <1>1 DEF OneLive, ArchivedWasNamed, CleanedIsGone, Live, Of, NoNotionPage, NoEntry
<1>7. QED  BY <1>2, <1>3, <1>4, <1>5, <1>6 DEF CaptureInv

LEMMA CaptureSteps == CaptureInv /\ [Next]_vars => CaptureInv'
<1> SUFFICES ASSUME CaptureInv, [Next]_vars PROVE CaptureInv'
  OBVIOUS
<1>1. CASE UNCHANGED vars
  BY <1>1 DEF vars, CaptureInv, TypeOK, LockInv, StageInv, StageOf, ReportInv, EntriesInv,
     OneLive, ArchivedWasNamed, CleanedIsGone, Kept, Alone, Live, Of, Url, Existing, Pending, Up
<1>2. ASSUME NEW c \in Confirms, NEW u \in Urls, NEW n \in Appends, Confirm(c, u, n)
      PROVE  CaptureInv'
  BY <1>2, ConfirmKeeps
<1>3. ASSUME NEW c \in Confirms,
             \/ Find(c) \/ Inspect(c) \/ Archive(c) \/ ArchiveAnswered(c)
             \/ Create(c) \/ Created(c) \/ Append(c) \/ Finish(c)
      PROVE  CaptureInv'
  BY <1>3, FindKeeps, InspectKeeps, ArchiveKeeps, ArchiveAnsweredKeeps,
     CreateKeeps, CreatedKeeps, AppendKeeps, FinishKeeps
<1>4. ASSUME NEW c \in Confirms, ReconcileEntry(c) \/ Land(c) \/ OwnerEdits(c)
      PROVE  CaptureInv'
  BY <1>4, ReconcileKeeps, LandKeeps, OwnerEditsKeeps
<1>5. CASE Crash \/ Restart \/ Serve
  BY <1>5, CrashKeeps, RestartKeeps, ServeKeeps
<1>6. QED
  <2>1. CASE Next
    BY <1>2, <1>3, <1>4, <1>5, <2>1, Zenon DEF Next
  <2>2. QED  BY <1>1, <2>1

LEMMA CaptureInvHolds == Spec => []CaptureInv
BY CaptureStarts, CaptureSteps, PTL DEF Spec

(* Every variable of the capture holds a value the code could hold, and an   *)
(* answer of confirm has an Application exactly when it says there is one.   *)
THEOREM CaptureTypes == Spec => []TypeOK
<1>1. CaptureInv => TypeOK
  BY DEF CaptureInv
<1>2. QED  BY <1>1, CaptureInvHolds, PTL

\* Of a Job URL there are no two pages that did not take effect late, so their
\* set is empty or has one element.
LEMMA OneLiveCounts == CaptureInv => OnePageUnlessLate
<1> SUFFICES ASSUME CaptureInv, NEW u \in Urls
             PROVE  Cardinality({p \in Live(u) : ~pages[p].late}) <= 1
  BY DEF OnePageUnlessLate
<1> DEFINE S == {p \in Live(u) : ~pages[p].late}
<1>1. \A p, q \in S : p = q
  BY DEF CaptureInv, OneLive
<1> HIDE DEF S
<1>2. CASE S = {}
  <2>1. Cardinality(S) = 0
    BY <1>2, FS_EmptySet, Zenon
  <2>2. QED  BY <2>1 DEF S
<1>3. CASE S # {}
  <2>1. PICK p : p \in S
    BY <1>3
  <2>2. S = {p}
    BY <1>1, <2>1
  <2>3. Cardinality(S) = 1
    BY <2>2, FS_Singleton, Zenon
  <2>4. QED  BY <2>3 DEF S
<1>4. QED  BY <1>2, <1>3

(* Whatever fails, crashes and is repeated, a Job URL has one Application    *)
(* next to pages whose POST took effect after it had been given up: the lock *)
(* of confirm covers the query, the archive and the POST, for any number of  *)
(* confirmations.                                                            *)
THEOREM OnePagePerUrl == Spec => []OnePageUnlessLate
BY OneLiveCounts, CaptureInvHolds, PTL

(* An Application that an answer of confirm named is never archived, neither *)
(* by a later confirmation nor by reconcile.                                 *)
THEOREM ReportedStaysKept == Spec => []ReportedIsKept
<1>1. CaptureInv => ReportedIsKept
  BY DEF CaptureInv, ReportInv, ReportedIsKept, Kept
<1>2. QED  BY <1>1, CaptureInvHolds, PTL

(* confirm and reconcile archive only a page that the journal entry of the   *)
(* confirmation that made it names.                                          *)
THEOREM OnlyNamedIsArchived == Spec => []ArchivedWasNamed
<1>1. CaptureInv => ArchivedWasNamed
  BY DEF CaptureInv
<1>2. QED  BY <1>1, CaptureInvHolds, PTL

(* An entry resolved as cleaned left no page behind, but for one that took   *)
(* effect later.                                                             *)
THEOREM CleanedStaysGone == Spec => []CleanedIsGone
<1>1. CaptureInv => CleanedIsGone
  BY DEF CaptureInv
<1>2. QED  BY <1>1, CaptureInvHolds, PTL

=============================================================================
