-------------------------- MODULE MCStellarInsure --------------------------
(***************************************************************************)
(* Small instances of StellarInsure for TLC, and what a comment of the     *)
(* repository says of it that the code does not do.                        *)
(***************************************************************************)
EXTENDS StellarInsure, TLC

CONSTANTS h1, h2, a1, a2, a3

OneHolder == {h1}
TwoHolders == {h1, h2}
OneAdmin == {a1}
ThreeAdmins == {a1, a2, a3}

MCAccounts == {h1, h2, Contract, PoolAddr}
MCProviders == {Contract, h2}

\* Deployed balances: the contract is given funds to pay first claims with,
\* as the repository's tests do.
MCSeed == [x \in MCAccounts |-> IF x = PoolAddr THEN 0 ELSE 2]
MCPoolSeed == [x \in MCAccounts |-> 1]

None == {}
One == {1}
OneTwo == {1, 2}
Two == {2}
TwoThree == {2, 3}

\* One kind of insurance; see the configurations for the price constants.
MCTypes == {"Flight"}
MCBaseRate == [t \in MCTypes |-> 5]

Ledger == INSTANCE CoverageLedger WITH
            Amount <- 0..10, ledger <- LedgerOf, paid_out <- total_payouts

\* The contract implements the coverage ledger: every entry point is a step
\* of it or leaves it alone.
ImplementsLedger == Ledger!LedgerSpec

-----------------------------------------------------------------------------
(* A statement the code contradicts.                                       *)

\* storage.rs on ClaimVotes: votes are `for a pending claim' and `cleared
\* once the claim reaches the required threshold', so that none outlive it.
VotesOnlyForPendingClaims ==
  \A p \in DOMAIN policies :
    policies[p].status # "ClaimPending" => votes[p] = NoVotes
=============================================================================
