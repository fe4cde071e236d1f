------------------------ MODULE MCInsuranceWithPool ------------------------
(***************************************************************************)
(* Small instances of InsuranceWithPool for TLC.                           *)
(***************************************************************************)
EXTENDS InsuranceWithPool, TLC

CONSTANTS h1, q1, a1

OneHolder == {h1}
OneAdmin == {a1}

MCAccounts == {h1, Contract, PoolAddr}
MCProviders == {Contract, q1}
MCSeed == [x \in MCAccounts |-> 2]

None == {}
One == {1}
OneTwo == {1, 2}
Two == {2}
MCRatios == {5}

MCTypes == {"Flight"}
MCBaseRate == [t \in MCTypes |-> 5]
=============================================================================
