------------------------------ MODULE SpendPolicy ------------------------------
(***************************************************************************)
(* The arithmetic between a provider call's reservation and its settlement:*)
(* AnalysisSpendPolicy of features/applications/analysis_spend.py and the  *)
(* ProviderSpendPolicy of shared/provider_spend.py the Resume workflow     *)
(* uses, which compute the same.  A behaviour is one call: an approval, an *)
(* estimate for a request, a receipt for what the provider metered, and    *)
(* the settlement.  Endpoints, models and fingerprints, compared for       *)
(* equality only, are left out, and with them the receipt that is missing  *)
(* or names another model, which is refused before its counts are read.    *)
(* Of the request's text, its tokens and its bytes count.                  *)
(***************************************************************************)
EXTENDS Integers

CONSTANTS
    Unit,        \* TOKENS_PER_RATE_UNIT
    Rates,       \* micros per Unit tokens
    Tokens,      \* token and byte counts
    OutputBound, \* max_output_tokens, ANALYSIS_OUTPUT_TOKEN_BOUND
    Contexts,    \* context sizes (max_context_tokens)
    Overhead     \* protocol_overhead_tokens

VARIABLES approval, estimate, receipt, settlement

spendVars == <<approval, estimate, receipt, settlement>>

ASSUME SpendAssumption ==
    /\ Unit \in Nat \ {0}
    /\ Rates \subseteq Nat \ {0}
    /\ Tokens \subseteq Nat
    /\ OutputBound \in Nat \ {0}
    /\ Contexts \subseteq Nat
    /\ Overhead \in Nat \ {0}

None == -1      \* an optional count the provider did not report

\* Mutant: what is left over a whole unit is not charged.
FloorDivide(n) == n \div Unit

\* _ceiling_divide
CeilingDivide(n) == (n + Unit - 1) \div Unit

Larger(x, y) == IF x >= y THEN x ELSE y

\* The rate card entries _approved_model accepts.  ResumeRateCard checks less; the
\* entries of its card, which is under version control, satisfy the same.
Approvals ==
    {a \in [hit : Rates, miss : Rates, output : Rates, context : Contexts] :
        a.hit <= a.miss /\ a.context > OutputBound}

Receipts ==
    [input : Tokens, output : Tokens, hit : Tokens, miss : Tokens \cup {None},
     total : Tokens \cup {None}, reasoning : Tokens \cup {None}]

\* Mutant: the reservation trusts the cheaper rate of a warm cache.
WorstCaseCached(a, bound) ==
    CeilingDivide(bound * a.hit) + CeilingDivide(OutputBound * a.output)

\* worst_case_micros
WorstCase(a, bound) ==
    CeilingDivide(bound * a.miss) + CeilingDivide(OutputBound * a.output)

\* estimate: the larger count bounds the input; a request that does not fit
\* the context is refused (source_context_exceeded).
Estimate ==
    /\ estimate.state = "none"
    /\ \E tokens \in Tokens, bytes \in Tokens \ {0} :
          LET bound == Larger(tokens, bytes) + Overhead
          IN  estimate' = IF bound + OutputBound > approval.context
                            THEN [estimate EXCEPT !.state = "refused"]
                            ELSE [state |-> "made", tokens |-> tokens, bytes |-> bytes,
                                  bound |-> bound, worst |-> WorstCase(approval, bound)]
    /\ UNCHANGED <<approval, receipt, settlement>>

\* The counts a receipt may not report (settlement_evidence_malformed).
WellFormed(u) == u.input > 0 /\ u.output > 0 /\ u.hit <= u.input

\* The counts a receipt may not contradict (settlement_evidence_unreconcilable).
Reconciles(e, u) ==
    /\ u.input <= e.bound
    /\ u.output <= OutputBound
    /\ u.total # None => u.total = u.input + u.output
    /\ u.miss # None => u.hit + u.miss = u.input
    /\ u.reasoning # None => u.reasoning <= u.output

\* cost_numerator
Metered(a, u) == (u.input - u.hit) * a.miss + u.hit * a.hit + u.output * a.output

Refusal(reason) == [valid |-> FALSE, cost |-> 0, reason |-> reason]

\* settle
Settlement(a, e, u) ==
    IF ~WellFormed(u) THEN Refusal("malformed")
    ELSE IF ~Reconciles(e, u) THEN Refusal("unreconcilable")
    ELSE IF CeilingDivide(Metered(a, u)) > e.worst THEN Refusal("unreconcilable")
    ELSE [valid |-> TRUE, cost |-> CeilingDivide(Metered(a, u)), reason |-> "none"]

Settle ==
    /\ estimate.state = "made"
    /\ settlement.reason = "pending"
    /\ \E u \in Receipts :
          /\ receipt' = u
          /\ settlement' = Settlement(approval, estimate, u)
    /\ UNCHANGED <<approval, estimate>>

SpendInit ==
    /\ approval \in Approvals
    /\ estimate = [state |-> "none", tokens |-> 0, bytes |-> 0, bound |-> 0, worst |-> 0]
    /\ receipt = [input |-> 0, output |-> 0, hit |-> 0, miss |-> None, total |-> None,
                  reasoning |-> None]
    /\ settlement = Refusal("pending")

SpendNext == Estimate \/ Settle

SpendSpec == SpendInit /\ [][SpendNext]_spendVars

-----------------------------------------------------------------------------

\* The call was settled, or refused settlement.
Settled == settlement.reason # "pending"

\* A receipt that stays within the token bounds of the estimate always settles:
\* the final comparison with the reservation never leaves a metered call
\* indeterminate, however the roundings fall and whatever share was cached.
BoundedReceiptsSettle ==
    Settled /\ WellFormed(receipt) /\ Reconciles(estimate, receipt) => settlement.valid

\* A verified cost covers what was metered, exceeds it by less than a micro, and
\* fits the reservation.
CostCoversMetered ==
    settlement.valid =>
        /\ settlement.cost * Unit >= Metered(approval, receipt)
        /\ (settlement.cost - 1) * Unit < Metered(approval, receipt)
        /\ settlement.cost <= estimate.worst

=============================================================================
