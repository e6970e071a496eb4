--------------------------- MODULE SpendPolicyProofs ---------------------------
(***************************************************************************)
(* What the spend arithmetic guarantees for every unit, every approved     *)
(* rate and every token count.  Everything follows from what the rounded   *)
(* division is: the least number of micros that covers the amount.         *)
(***************************************************************************)
EXTENDS SpendPolicy, TLAPS

\* _ceiling_divide returns the least number of micros that covers n.
LEMMA CeilingCovers ==
    ASSUME NEW n \in Nat
    PROVE  /\ CeilingDivide(n) \in Nat
           /\ CeilingDivide(n) * Unit >= n
           /\ (CeilingDivide(n) - 1) * Unit < n
<1>1. Unit \in Nat \ {0}
  BY SpendAssumption
<1> DEFINE m == n + Unit - 1
           c == m \div Unit
<1>2. m \in Nat
  BY <1>1
<1>3. c \in Int /\ m = c * Unit + (m % Unit) /\ m % Unit \in 0..(Unit - 1)
  <2> HIDE DEF m
  <2>1. QED  BY <1>1, <1>2
<1>4. c * Unit <= m /\ m < c * Unit + Unit
  <2> HIDE DEF m, c
  <2>1. QED  BY <1>1, <1>2, <1>3
<1>5. c \in Nat
  <2> HIDE DEF m, c
  <2>1. c * Unit \in Int /\ Unit \in Int
    BY <1>1, <1>3
  <2>2. c < 0 => c * Unit + Unit <= 0
    BY <1>1, <1>3
  <2> DEFINE d == c * Unit
  <2> HIDE DEF d
  <2>3. d \in Int /\ m < d + Unit /\ (c < 0 => d + Unit <= 0)
    BY <1>4, <2>1, <2>2 DEF d
  <2>4. QED  BY <1>2, <1>3, <2>1, <2>3
<1>6. (c - 1) * Unit = c * Unit - Unit
  <2> HIDE DEF c
  <2>1. QED  BY <1>1, <1>5
<1>7. QED  BY <1>1, <1>4, <1>5, <1>6 DEF CeilingDivide

\* A whole number of micros that covers n is no less.
LEMMA CeilingIsLeast ==
    ASSUME NEW n \in Nat, NEW k \in Nat, k * Unit >= n
    PROVE  CeilingDivide(n) <= k
<1>1. Unit \in Nat \ {0}
  BY SpendAssumption
<1> DEFINE c == CeilingDivide(n)
<1>2. c \in Nat /\ (c - 1) * Unit < n
  BY CeilingCovers
<1> HIDE DEF c
<1>3. c > k => (c - 1) * Unit >= k * Unit
  BY <1>1, <1>2
<1> DEFINE below == (c - 1) * Unit
           enough == k * Unit
<1>4. below \in Int /\ enough \in Int
  BY <1>1, <1>2
<1>5. below < n /\ enough >= n /\ (c > k => below >= enough)
  BY <1>2, <1>3
<1> HIDE DEF below, enough
<1>6. ~(c > k)
  BY <1>4, <1>5
<1>7. c <= k
  BY <1>2, <1>6
<1>8. QED  BY <1>7 DEF c

\* Products of counts and rates grow with either factor.
LEMMA ProductGrows ==
    ASSUME NEW a \in Nat, NEW b \in Nat, NEW x \in Nat, NEW y \in Nat, a <= b, x <= y
    PROVE  a * x <= b * y
<1>1. a * x <= b * x
  OBVIOUS
<1>2. b * x <= b * y
  OBVIOUS
<1>3. QED  BY <1>1, <1>2

-----------------------------------------------------------------------------

\* The state of a call: the approval was accepted, and an estimate holds the
\* worst case of its own bound.
SpendInv ==
    /\ approval \in Approvals
    /\ estimate.state \in {"none", "refused", "made"}
    /\ estimate.state = "made" =>
          estimate.bound \in Nat /\ estimate.worst = WorstCase(approval, estimate.bound)
    /\ Settled => /\ estimate.state = "made"
                  /\ receipt \in Receipts
                  /\ settlement = Settlement(approval, estimate, receipt)
    /\ settlement.valid => Settled

\* What a receipt within the bounds metered is covered by the worst case.
LEMMA WorstCaseCovers ==
    ASSUME NEW a \in Approvals, NEW bound \in Nat, NEW u \in Receipts,
           u.input <= bound, u.output <= OutputBound, u.hit <= u.input
    PROVE  /\ Metered(a, u) \in Nat
           /\ CeilingDivide(Metered(a, u)) <= WorstCase(a, bound)
<1>1. /\ u.input \in Nat /\ u.output \in Nat /\ u.hit \in Nat
      /\ a.hit \in Nat /\ a.miss \in Nat /\ a.output \in Nat /\ a.hit <= a.miss
      /\ OutputBound \in Nat /\ Unit \in Nat
  BY SpendAssumption DEF Approvals, Receipts
<1> DEFINE cold == u.input - u.hit
           inward == cold * a.miss + u.hit * a.hit
           outward == u.output * a.output
           most == bound * a.miss
           mostOut == OutputBound * a.output
<1>2. cold \in Nat /\ cold + u.hit = u.input
  BY <1>1
<1>3. inward \in Nat /\ inward <= most
  <2> HIDE DEF cold
  <2>1. u.hit * a.hit <= u.hit * a.miss
    BY <1>1, ProductGrows
  <2>2. (cold + u.hit) * a.miss <= bound * a.miss
    BY <1>1, <1>2, ProductGrows
  <2>3. (cold + u.hit) * a.miss = cold * a.miss + u.hit * a.miss
    BY <1>1, <1>2
  <2>4. cold * a.miss \in Nat /\ u.hit * a.hit \in Nat /\ u.hit * a.miss \in Nat
        /\ bound * a.miss \in Nat
    BY <1>1, <1>2
  <2>5. QED  BY <2>1, <2>2, <2>3, <2>4
<1>4. outward \in Nat /\ outward <= mostOut /\ most \in Nat /\ mostOut \in Nat
  BY <1>1, ProductGrows
<1>5. Metered(a, u) = inward + outward
  BY DEF Metered
<1> HIDE DEF inward, outward, most, mostOut, cold
<1> DEFINE p == CeilingDivide(most)
           q == CeilingDivide(mostOut)
<1>6. p \in Nat /\ q \in Nat /\ p * Unit >= most /\ q * Unit >= mostOut
  BY <1>4, CeilingCovers
<1> HIDE DEF p, q
<1>7. (p + q) * Unit = p * Unit + q * Unit
  BY <1>1, <1>6
<1>8. p * Unit \in Nat /\ q * Unit \in Nat /\ p + q \in Nat
  BY <1>1, <1>6
<1>9. (p + q) * Unit >= inward + outward
  BY <1>3, <1>4, <1>6, <1>7, <1>8
<1>10. CeilingDivide(inward + outward) <= p + q
  BY <1>3, <1>4, <1>8, <1>9, CeilingIsLeast
<1>11. WorstCase(a, bound) = p + q
  BY DEF WorstCase, p, q, most, mostOut
<1>12. QED  BY <1>3, <1>4, <1>5, <1>10, <1>11

\* Every call is in such a state.
LEMMA SpendStates == SpendSpec => []SpendInv
<1>1. SpendInit => SpendInv
  BY DEF SpendInit, SpendInv, Settled, Refusal
<1>2. SpendInv /\ [SpendNext]_spendVars => SpendInv'
  <2> SUFFICES ASSUME SpendInv, [SpendNext]_spendVars PROVE SpendInv'
    OBVIOUS
  <2>1. CASE Estimate
    <3>1. PICK tokens \in Tokens, bytes \in Tokens \ {0} :
              estimate' = IF Larger(tokens, bytes) + Overhead + OutputBound > approval.context
                            THEN [estimate EXCEPT !.state = "refused"]
                            ELSE [state |-> "made", tokens |-> tokens, bytes |-> bytes,
                                  bound |-> Larger(tokens, bytes) + Overhead,
                                  worst |-> WorstCase(approval, Larger(tokens, bytes) + Overhead)]
      BY <2>1 DEF Estimate
    <3>2. Larger(tokens, bytes) + Overhead \in Nat
      BY SpendAssumption DEF Larger
    <3>3. UNCHANGED <<approval, receipt, settlement>> /\ ~Settled
      BY <2>1 DEF Estimate, SpendInv
    <3>4. approval' \in Approvals /\ ~Settled' /\ ~settlement'.valid
      BY <3>3 DEF SpendInv, Settled
    <3>5. CASE Larger(tokens, bytes) + Overhead + OutputBound > approval.context
      BY <3>1, <3>4, <3>5 DEF SpendInv
    <3>6. CASE ~(Larger(tokens, bytes) + Overhead + OutputBound > approval.context)
      BY <3>1, <3>2, <3>3, <3>4, <3>6 DEF SpendInv
    <3>7. QED  BY <3>5, <3>6
  <2>2. CASE Settle
    BY <2>2 DEF Settle, SpendInv, Settled, Settlement, Refusal
  <2>3. CASE UNCHANGED spendVars
    BY <2>3 DEF spendVars, SpendInv, Settled
  <2>4. QED  BY <2>1, <2>2, <2>3 DEF SpendNext
<1>3. QED  BY <1>1, <1>2, PTL DEF SpendSpec

\* The last test of settle() never refuses a receipt that stays within the
\* bounds the call was authorized for.
THEOREM BoundedReceiptsAlwaysSettle == SpendSpec => []BoundedReceiptsSettle
<1>1. SpendInv => BoundedReceiptsSettle
  <2> SUFFICES ASSUME SpendInv, Settled, WellFormed(receipt), Reconciles(estimate, receipt)
               PROVE  settlement.valid
    BY DEF BoundedReceiptsSettle
  <2>1. /\ Metered(approval, receipt) \in Nat
        /\ CeilingDivide(Metered(approval, receipt)) <= WorstCase(approval, estimate.bound)
    BY WorstCaseCovers DEF SpendInv, WellFormed, Reconciles
  <2>2. CeilingDivide(Metered(approval, receipt)) \in Nat
    BY <2>1, CeilingCovers
  <2>3. /\ estimate.bound \in Nat /\ estimate.worst = WorstCase(approval, estimate.bound)
        /\ approval.miss \in Nat /\ approval.output \in Nat /\ OutputBound \in Nat
    BY SpendAssumption DEF SpendInv, Approvals
  <2>4. estimate.bound * approval.miss \in Nat /\ OutputBound * approval.output \in Nat
    BY <2>3
  <2>5. /\ CeilingDivide(estimate.bound * approval.miss) \in Nat
        /\ CeilingDivide(OutputBound * approval.output) \in Nat
    BY <2>4, CeilingCovers
  <2>6. estimate.worst \in Nat
    BY <2>3, <2>5 DEF WorstCase
  <2>7. ~(CeilingDivide(Metered(approval, receipt)) > estimate.worst)
    BY <2>1, <2>2, <2>3, <2>6
  <2>8. QED  BY <2>7 DEF SpendInv, Settlement
<1>2. QED  BY <1>1, SpendStates, PTL

\* A verified cost covers what was metered, to the micro, within its
\* reservation.
THEOREM CostsCoverMetered == SpendSpec => []CostCoversMetered
<1>1. SpendInv => CostCoversMetered
  <2> SUFFICES ASSUME SpendInv, settlement.valid
               PROVE  /\ settlement.cost * Unit >= Metered(approval, receipt)
                      /\ (settlement.cost - 1) * Unit < Metered(approval, receipt)
                      /\ settlement.cost <= estimate.worst
    BY DEF CostCoversMetered
  <2>1. /\ settlement.cost = CeilingDivide(Metered(approval, receipt))
        /\ WellFormed(receipt) /\ Reconciles(estimate, receipt)
    BY DEF SpendInv, Settlement, Refusal
  <2>2. /\ Metered(approval, receipt) \in Nat
        /\ CeilingDivide(Metered(approval, receipt)) <= estimate.worst
    BY <2>1, WorstCaseCovers DEF SpendInv, WellFormed, Reconciles
  <2>3. QED  BY <2>1, <2>2, CeilingCovers
<1>2. QED  BY <1>1, SpendStates, PTL

=============================================================================
