--------------------------- MODULE ApplicationCapture ---------------------------
(***************************************************************************)
(* Application Capture: confirm and reconcile of                           *)
(* features/applications/capture.py, under the lock of                     *)
(* shared/execution.py, over the effect journal (shared/recovery.py) and   *)
(* what create_application and its readers do to the pages of Notion       *)
(* (integrations/notion_workspace.py).                                     *)
(*                                                                         *)
(* A page is made by one POST with its first 80 blocks and PATCHes with    *)
(* the rest.  Neither is retried, and a POST whose answer is given up,     *)
(* after its deadline or because the process dies, may take effect later.  *)
(* A confirmation makes at most one page, so a page and a journal entry    *)
(* are named by the confirmation they belong to.                           *)
(*                                                                         *)
(* What interferes (a failed request, a lost answer, a crash, the owner of *)
(* the workspace) uses up one of MaxFaults.  prepare keeps no state but a  *)
(* cache of notes for the page and is left out.                            *)
(***************************************************************************)
EXTENDS Integers, FiniteSets

CONSTANTS
    Confirms,       \* confirmations, each a request
    Urls,           \* canonical Job URLs
    Appends,        \* how many PATCHes the content of a draft may take
    MaxFaults,      \* bound: how often something interferes
    NoPage

VARIABLES
    confirms,       \* the confirmations: step, draft, answer
    pages,          \* the Applications in Notion
    journal,        \* the effect journal
    late,           \* POSTs given up that may still take effect
    api,            \* the process: down, reconciling, or up
    faults

vars == <<confirms, pages, journal, late, api, faults>>

ASSUME CaptureAssumption ==
    /\ NoPage \notin Confirms
    /\ "none" \notin Urls
    /\ Appends \subseteq Nat
    /\ MaxFaults \in Nat

NoConfirm == [pc |-> "none", url |-> "none", appends |-> 0, existing |-> NoPage,
              result |-> "none", page |-> NoPage]

NoNotionPage == [state |-> "none", readable |-> FALSE, appended |-> 0, late |-> FALSE]

NoEntry == [resolution |-> "none", named |-> FALSE]

Fault == faults < MaxFaults /\ faults' = faults + 1

NoFault == faults' = faults

-----------------------------------------------------------------------------
(* Notion and the journal                                                  *)

Of(u) == {c \in Confirms : confirms[c].url = u}

\* What find_application_by_job_url sees.
Live(u) == {p \in Of(u) : pages[p].state = "live"}

\* capture_is_complete: both headings, and under the second one 20
\* characters, which the first 80 blocks of any draft have.
IsComplete(p) == pages[p].readable

\* JsonEffectJournal.unresolved for a domain key
Unresolved(u) == {c \in Of(u) : journal[c].resolution = "active"}

Resolve(entries, resolution) ==
    [c \in Confirms |-> IF c \in entries
                        THEN [journal[c] EXCEPT !.resolution = resolution]
                        ELSE journal[c]]

\* A page as its POST leaves it.
Posted(p, isLate) ==
    pages' = [pages EXCEPT ![p] =
        [state |-> "live", readable |-> TRUE, appended |-> 0, late |-> isLate]]

\* A POST takes effect after its answer was given up.
Land(c) ==
    /\ c \in late
    /\ late' = late \ {c}
    /\ Posted(c, TRUE)
    /\ UNCHANGED <<confirms, journal, api, faults>>

\* The owner deletes a section of the page, or the page.
OwnerEdits(p) ==
    /\ pages[p].state = "live"
    /\ Fault
    /\ \/ pages' = [pages EXCEPT ![p].readable = FALSE]
       \/ pages' = [pages EXCEPT ![p].state = "deleted"]
    /\ UNCHANGED <<confirms, journal, late, api>>

-----------------------------------------------------------------------------
(* confirm                                                                 *)

Up == api.state = "up"

Pending(c) == confirms[c].pc \notin {"none", "answered"}

At(c, pc) == Up /\ confirms[c].pc = pc

Goto(c, pc) == confirms' = [confirms EXCEPT ![c].pc = pc]

\* A return or an exception ends the lock with the confirmation.
Answer(c, result, page) ==
    confirms' = [confirms EXCEPT ![c].pc = "answered", ![c].result = result, ![c].page = page]

Url(c) == confirms[c].url

Existing(c) == confirms[c].existing

\* Mutant: a refusal names the Application that was found.
RefuseWithPage(c, result) == Answer(c, result, Existing(c))

Refuse(c, result) == Answer(c, result, NoPage)

\* Mutant: the key of the lock tells confirmations apart, not Job URLs.
FreeForEach(u) == TRUE

\* ExecutionCoordinator.exclusive on capture:<url>
Free(u) == \A d \in Of(u) : ~Pending(d)

Confirm(c, u, n) ==
    /\ Up
    /\ confirms[c].pc = "none"
    /\ confirms' = [confirms EXCEPT ![c] =
          [NoConfirm EXCEPT !.url = u, !.appends = n,
                            !.pc = IF Free(u) THEN "finding" ELSE "answered",
                            !.result = IF Free(u) THEN "none" ELSE "conflict"]]
    /\ UNCHANGED <<pages, journal, late, api, faults>>

\* The entries nothing is left of, and the intent of this confirmation.
StartCreation(c) ==
    /\ journal' = [Resolve(Unresolved(Url(c)), "cleaned") EXCEPT
                      ![c] = [NoEntry EXCEPT !.resolution = "active"]]
    /\ Goto(c, "creating")

\* Readiness and the query by Job URL.
Find(c) ==
    /\ At(c, "finding")
    /\ \/ /\ Live(Url(c)) = {}
          /\ StartCreation(c)
          /\ NoFault
       \/ /\ \E p \in Confirms :
                /\ Live(Url(c)) = {p}
                /\ confirms' = [confirms EXCEPT ![c].pc = "inspecting", ![c].existing = p]
          /\ UNCHANGED journal
          /\ NoFault
       \/ /\ Cardinality(Live(Url(c))) > 1
          /\ Refuse(c, "conflict")
          /\ UNCHANGED journal
          /\ NoFault
       \/ /\ Refuse(c, "failed")
          /\ UNCHANGED journal
          /\ Fault
    /\ UNCHANGED <<pages, late, api>>

\* Mutant: a page of the Job URL is taken for the one an entry is about.
OwnedByUrl(p, entries) == entries # {}

\* An entry names the page as the one its confirmation made.
Owned(p, entries) == p \in entries /\ journal[p].named

\* Mutant: the entries of a page found complete stay unresolved.
ForgetsEntries(u) == journal

\* The entries of a page that is found complete.
FoundComplete(u) == Resolve(Unresolved(u), "completed")

Inspect(c) ==
    LET p == Existing(c)
    IN  /\ At(c, "inspecting")
        /\ \/ /\ IsComplete(p)
              /\ journal' = FoundComplete(Url(c))
              /\ Answer(c, "already_captured", p)
              /\ NoFault
           \/ /\ ~IsComplete(p)
              /\ journal' = journal
              /\ IF Owned(p, Unresolved(Url(c)))
                 THEN Goto(c, "archiving")
                 ELSE Refuse(c, "conflict")
              /\ NoFault
           \/ /\ Refuse(c, "failed")
              /\ journal' = journal
              /\ Fault
        /\ UNCHANGED <<pages, late, api>>

\* A page in Notion's trash; one its owner deleted stays as it is.
Archived(p) ==
    [pages EXCEPT ![p].state = IF @ = "live" THEN "archived" ELSE @]

Archive(c) ==
    /\ At(c, "archiving")
    /\ \/ pages' = Archived(Existing(c)) /\ Goto(c, "archived") /\ NoFault
       \/ pages' = pages /\ Refuse(c, "failed") /\ Fault
    /\ UNCHANGED <<journal, late, api>>

ArchiveAnswered(c) ==
    /\ At(c, "archived")
    /\ \/ StartCreation(c) /\ NoFault
       \/ Refuse(c, "failed") /\ journal' = journal /\ Fault
    /\ UNCHANGED <<pages, late, api>>

\* The POST takes effect, fails, or is given up.
Create(c) ==
    /\ At(c, "creating")
    /\ \/ Posted(c, FALSE) /\ Goto(c, "posted") /\ late' = late /\ NoFault
       \/ pages' = pages /\ Refuse(c, "failed") /\ late' = late /\ Fault
       \/ pages' = pages /\ Refuse(c, "failed") /\ late' = late \cup {c} /\ Fault
    /\ UNCHANGED <<journal, api>>

\* on_created records the page its answer names.
Created(c) ==
    /\ At(c, "posted")
    /\ \/ /\ journal' = [journal EXCEPT ![c].named = TRUE]
          /\ Goto(c, "appending")
          /\ NoFault
       \/ /\ journal' = journal
          /\ Refuse(c, "failed")
          /\ Fault
    /\ UNCHANGED <<pages, late, api>>

Append(c) ==
    /\ At(c, "appending")
    /\ pages[c].appended < confirms[c].appends
    /\ \/ pages' = [pages EXCEPT ![c].appended = @ + 1] /\ confirms' = confirms /\ NoFault
       \/ pages' = [pages EXCEPT ![c].appended = @ + 1] /\ Refuse(c, "failed") /\ Fault
       \/ pages' = pages /\ Refuse(c, "failed") /\ Fault
    /\ UNCHANGED <<journal, late, api>>

Finish(c) ==
    /\ At(c, "appending")
    /\ pages[c].appended = confirms[c].appends
    /\ journal' = [journal EXCEPT ![c].resolution = "completed"]
    /\ Answer(c, "created", c)
    /\ UNCHANGED <<pages, late, api, faults>>

-----------------------------------------------------------------------------
(* Crash and restart                                                       *)

\* Every request in progress ends without an answer; a POST on its way stays
\* on its way.
Crash ==
    /\ api.state # "down"
    /\ Fault
    /\ api' = [state |-> "down", entries |-> {}]
    /\ confirms' = [c \in Confirms |->
          IF Pending(c) THEN [confirms[c] EXCEPT !.pc = "answered", !.result = "failed"]
                        ELSE confirms[c]]
    /\ late' \in {late, late \cup {c \in Confirms : confirms[c].pc = "creating"}}
    /\ UNCHANGED <<pages, journal>>

Restart ==
    /\ api.state = "down"
    /\ api' = [state |-> "reconciling", entries |-> UNION {Unresolved(u) : u \in Urls}]
    /\ UNCHANGED <<confirms, pages, journal, late, faults>>

\* Mutant: an archive that fails ends the entry all the same.
CleanedAnyway(c) ==
    /\ journal' = Resolve({c}, "cleaned")
    /\ \/ pages' = Archived(c) /\ NoFault
       \/ pages' = pages /\ Fault

\* The archive request of reconcile; an exception leaves the entry as it is.
ReconciledByArchive(c) ==
    \/ pages' = Archived(c) /\ journal' = Resolve({c}, "cleaned") /\ NoFault
    \/ pages' \in {pages, Archived(c)} /\ journal' = journal /\ Fault

\* reconcile of one entry
ReconcileEntry(c) ==
    LET u == Url(c)
    IN  /\ api.state = "reconciling"
        /\ c \in api.entries
        /\ api' = [api EXCEPT !.entries = @ \ {c}]
        /\ \/ /\ Live(u) = {}
              /\ journal' = Resolve({c}, "cleaned")
              /\ pages' = pages
              /\ NoFault
           \/ \E p \in Confirms :
                 /\ Live(u) = {p}
                 /\ \/ /\ IsComplete(p)
                       /\ journal' = Resolve({c}, "completed")
                       /\ pages' = pages
                       /\ NoFault
                    \/ ~IsComplete(p) /\ Owned(p, {c}) /\ ReconciledByArchive(c)
                    \/ /\ ~IsComplete(p) /\ ~Owned(p, {c})
                       /\ UNCHANGED <<journal, pages>>
                       /\ NoFault
           \/ /\ Cardinality(Live(u)) > 1
              /\ UNCHANGED <<journal, pages>>
              /\ NoFault
           \/ /\ UNCHANGED <<journal, pages>>
              /\ Fault
        /\ UNCHANGED <<confirms, late>>

Serve ==
    /\ api.state = "reconciling"
    /\ api.entries = {}
    /\ api' = [api EXCEPT !.state = "up"]
    /\ UNCHANGED <<confirms, pages, journal, late, faults>>

-----------------------------------------------------------------------------

Init ==
    /\ confirms = [c \in Confirms |-> NoConfirm]
    /\ pages = [c \in Confirms |-> NoNotionPage]
    /\ journal = [c \in Confirms |-> NoEntry]
    /\ late = {}
    /\ api = [state |-> "up", entries |-> {}]
    /\ faults = 0

Next ==
    \/ \E c \in Confirms :
          \/ \E u \in Urls, n \in Appends : Confirm(c, u, n)
          \/ Find(c) \/ Inspect(c) \/ Archive(c) \/ ArchiveAnswered(c)
          \/ Create(c) \/ Created(c) \/ Append(c) \/ Finish(c)
          \/ ReconcileEntry(c)
          \/ Land(c) \/ OwnerEdits(c)
    \/ Crash \/ Restart \/ Serve

Spec == Init /\ [][Next]_vars

-----------------------------------------------------------------------------
(* Properties                                                              *)

(* Every variable holds a value the code could hold, and an answer has an    *)
(* Application exactly when it says that there is one.                       *)
TypeOK ==
    /\ confirms \in [Confirms ->
          [pc : {"none", "finding", "inspecting", "archiving", "archived", "creating",
                 "posted", "appending", "answered"},
           url : Urls \cup {"none"}, appends : Appends \cup {0},
           existing : Confirms \cup {NoPage},
           result : {"none", "created", "already_captured", "conflict", "failed"},
           page : Confirms \cup {NoPage}]]
    /\ \A c \in Confirms :
          confirms[c].page # NoPage <=> confirms[c].result \in {"created", "already_captured"}
    /\ pages \in [Confirms ->
          [state : {"none", "live", "archived", "deleted"}, readable : BOOLEAN,
           appended : Nat, late : BOOLEAN]]
    /\ journal \in [Confirms ->
          [resolution : {"none", "active", "completed", "cleaned"}, named : BOOLEAN]]
    /\ late \subseteq Confirms
    /\ api \in [state : {"down", "reconciling", "up"}, entries : SUBSET Confirms]
    /\ faults \in 0..MaxFaults

(* Whatever fails, crashes and is repeated, a Job URL has one Application,   *)
(* next to pages whose POST took effect only after it had been given up:     *)
(* the duplicate check cannot see those, and no other page escapes it.       *)
OnePageUnlessLate ==
    \A u \in Urls : Cardinality({p \in Live(u) : ~pages[p].late}) <= 1

(* An Application the operator was told of, as created or as already         *)
(* captured, is never archived by a later confirmation or a restart, not     *)
(* even after its owner has removed the sections that make it complete.      *)
ReportedIsKept ==
    \A c \in Confirms :
        confirms[c].page # NoPage => pages[confirms[c].page].state # "archived"

(* Only a page whose POST was answered to the confirmation that made it is   *)
(* ever archived: one that merely has the Job URL is left to its owner.      *)
ArchivedWasNamed ==
    \A p \in Confirms : pages[p].state = "archived" => journal[p].named

(* An entry that is resolved as cleaned left no page behind, but for one     *)
(* that took effect later.                                                   *)
CleanedIsGone ==
    \A c \in Confirms :
        journal[c].resolution = "cleaned" => pages[c].state # "live" \/ pages[c].late

=============================================================================
