----------------------------- MODULE MCFrontend -----------------------------
(***************************************************************************)
(* A small instance of Frontend for TLC.                                   *)
(***************************************************************************)
EXTENDS Frontend, TLC

CONSTANTS premium, payout, p1, p2, saved1, saved2

Transaction(type, status) == [transaction_type |-> type, status |-> status]
ThreeTransactions ==
  <<Transaction(premium, "failed"), Transaction(payout, "successful"),
    Transaction(premium, "failed")>>

MinOfPool == p1 :> 2 @@ p2 :> 1

BalanceOfPool == p1 :> 1 @@ p2 :> 2

TwoItems == <<saved1, saved2>>
=============================================================================
