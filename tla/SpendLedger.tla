----------------------------- MODULE SpendLedger -----------------------------
(***************************************************************************)
(* What Merida promises of paid provider work, whichever store keeps the   *)
(* account: a call is charged its worst case before it goes out, only if   *)
(* the account stays within the ceiling, and from then on its charge can   *)
(* only fall, until it is closed and final.                                *)
(***************************************************************************)
EXTENDS Integers, FiniteSetsExt

CONSTANTS
    Accounts,   \* runs, each with a ceiling of its own
    Holds,      \* the calls charged to them
    NoAccount,  \* a call that has not been reserved
    Ceiling

VARIABLES
    account,    \* the account a call is charged to
    charge,     \* what it counts for
    open        \* the calls whose charge may still fall

ledgerVars == <<account, charge, open>>

Total(n) == MapThenSumSet(LAMBDA h : charge[h], {h \in Holds : account[h] = n})

LedgerInit ==
    /\ account = [h \in Holds |-> NoAccount]
    /\ charge = [h \in Holds |-> 0]
    /\ open = {}

\* Reserve `amount` for one call, if the account can bear it.
Hold(h, n, amount) ==
    /\ account[h] = NoAccount
    /\ Total(n) + amount <= Ceiling
    /\ account' = [account EXCEPT ![h] = n]
    /\ charge' = [charge EXCEPT ![h] = amount]
    /\ open' = open \cup {h}

\* Learn what became of open calls: each is closed at no more than it held.
Resolve(S) ==
    /\ S \subseteq open
    /\ open' = open \ S
    /\ account' = account
    /\ charge' \in [Holds -> 0..Ceiling]
    /\ \A h \in S : charge'[h] <= charge[h]
    /\ \A h \in Holds \ S : charge'[h] = charge[h]

LedgerNext ==
    \/ \E h \in Holds, n \in Accounts, amount \in 1..Ceiling : Hold(h, n, amount)
    \/ \E S \in SUBSET open : S # {} /\ Resolve(S)

LedgerSpec == LedgerInit /\ [][LedgerNext]_ledgerVars

=============================================================================
