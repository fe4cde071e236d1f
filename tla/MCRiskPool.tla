----------------------------- MODULE MCRiskPool -----------------------------
(***************************************************************************)
(* Small instances of RiskPool for TLC.                                    *)
(***************************************************************************)
EXTENDS RiskPool, TLC

CONSTANTS q1, q2, holder

MCProviders == {q1, q2}
MCHolders == {holder}
MCAccounts == {holder, PoolAddr}
MCSeed == [a \in MCAccounts |-> IF a = PoolAddr THEN 3 ELSE 0]
MCAmounts == {1, 2, 3}
MCRatios == {2, 5}

\* The two providers are interchangeable.
MCSymmetry == Permutations({q1, q2})
=============================================================================
