-------------------------- MODULE MCOracleTrigger --------------------------
(***************************************************************************)
(* Small instances of OracleTrigger for TLC.                               *)
(***************************************************************************)
EXTENDS OracleTrigger, TLC

CONSTANTS h1, a1, o1

OneHolder == {h1}
OneAdmin == {a1}
OneOracle == {o1}

MCAccounts == {h1, Contract, PoolAddr}
MCProviders == {Contract}
MCSeed == [x \in MCAccounts |-> IF x = PoolAddr THEN 0 ELSE 2]

None == {}
ZeroWindow == {0}
One == {1}
OneTwo == {1, 2}
ZeroToTwo == 0..2
Two == {2}

MCTypes == {"Flight"}
MCBaseRate == [t \in MCTypes |-> 5]

MCOracleTypes == {"Price", "Weather"}
=============================================================================
