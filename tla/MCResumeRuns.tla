----------------------------- MODULE MCResumeRuns -----------------------------
(* Bounded instance of the Resume Runs. *)
EXTENDS ResumeRuns, TLC

CONSTANTS r1, r2, a1, a2

TwoQueue == {<<a1, a2>>}

TwoStages == <<"requirements", "draft">>

SameFile == [a \in Applications |-> "Company-Role-User.pdf"]

SourceVersions == (1..MaxFaults + 1) \X SUBSET Runs

=============================================================================
