------------------------------ MODULE PoolFlows ------------------------------
(***************************************************************************)
(* The dialogues that put money into a risk pool (components/deposit-      *)
(* flow.tsx) and take it out again (components/withdrawal-flow.tsx on the  *)
(* page app/treasury/treasury-page-client.tsx).                            *)
(*                                                                         *)
(* An amount is a natural number, or NotANumber for a text that is none.   *)
(***************************************************************************)
EXTENDS Integers

CONSTANTS
  Pools,
  NoPool,
  MinDeposit,       \* of each pool
  PoolBalance,      \* of each pool, as the treasury page knows it
  WalletBalances,   \* what the parent passes as walletBalance
  Amounts,          \* amounts that are typed
  MaxAbandoned      \* bound: withdrawals whose dialogue was closed

ASSUME PoolFlowsAssumption ==
  /\ NoPool \notin Pools /\ Amounts \subseteq Nat /\ WalletBalances \subseteq Nat
  /\ WalletBalances # {} /\ MaxAbandoned \in Nat
  /\ MinDeposit \in [Pools -> Nat] /\ PoolBalance \in [Pools -> Nat]

VARIABLES deposit, treasury

NotANumber == -1
Request == [pool : Pools, amount : Nat]

-----------------------------------------------------------------------------
(* Depositing.  asked: the arguments of onDeposit last called; requests:   *)
(* its promises.                                                           *)

DepositState ==
  [step : {"select", "amount", "confirm", "success"}, pool : Pools \cup {NoPool},
   amount : Nat \cup {NotANumber}, balance : WalletBalances, submitting : BOOLEAN,
   error : BOOLEAN, requests : Nat, asked : Request \cup {NoPool}]

DepositMounted ==
  [step |-> "select", pool |-> NoPool, amount |-> NotANumber,
   balance |-> CHOOSE b \in WalletBalances : TRUE,
   submitting |-> FALSE, error |-> FALSE, requests |-> 0, asked |-> NoPool]

AmountIsValid ==
  /\ deposit.amount > 0 /\ deposit.pool # NoPool
  /\ deposit.amount >= MinDeposit[deposit.pool] /\ deposit.amount <= deposit.balance

\* External: the parent renders the flow with another balance.
BalanceChanges ==
  \E b \in WalletBalances : deposit' = [deposit EXCEPT !.balance = b]

SelectPool(pool) ==
  deposit.step = "select" /\ deposit' = [deposit EXCEPT !.pool = pool]

NextFromSelect ==
  /\ deposit.step = "select" /\ deposit.pool # NoPool
  /\ deposit' = [deposit EXCEPT !.step = "amount"]

\* The input, and `Max'.
EnterAmount ==
  /\ deposit.step = "amount"
  /\ \E a \in Amounts \cup {NotANumber, deposit.balance} :
       deposit' = [deposit EXCEPT !.amount = a]

NextFromAmount ==
  /\ deposit.step = "amount" /\ AmountIsValid
  /\ deposit' = [deposit EXCEPT !.step = "confirm"]

\* Enabled while the deposit is being made.
BadDepositBack ==
  /\ deposit.step \in {"amount", "confirm"}
  /\ deposit' = [deposit EXCEPT
       !.step = IF @ = "amount" THEN "select" ELSE "amount", !.error = FALSE]

DepositBack ==
  /\ deposit.step \in {"amount", "confirm"} /\ ~deposit.submitting
  /\ deposit' = [deposit EXCEPT
       !.step = IF @ = "amount" THEN "select" ELSE "amount", !.error = FALSE]

\* Relies on the check made when leaving the step before.
BadConfirmDeposit ==
  /\ deposit.step = "confirm" /\ ~deposit.submitting
  /\ deposit' = [deposit EXCEPT !.submitting = TRUE, !.error = FALSE, !.requests = @ + 1,
       !.asked = [pool |-> deposit.pool, amount |-> deposit.amount]]

\* handleConfirmDeposit, up to the await.
ConfirmDeposit ==
  /\ deposit.step = "confirm" /\ ~deposit.submitting /\ AmountIsValid
  /\ deposit' = [deposit EXCEPT !.submitting = TRUE, !.error = FALSE, !.requests = @ + 1,
       !.asked = [pool |-> deposit.pool, amount |-> deposit.amount]]

\* Its promise settles.
DepositSettled ==
  /\ deposit.requests > 0
  /\ \/ deposit' = [deposit EXCEPT !.requests = @ - 1, !.submitting = FALSE,
                                   !.step = "success"]
     \/ deposit' = [deposit EXCEPT !.requests = @ - 1, !.submitting = FALSE,
                                   !.error = TRUE]

\* `Make Another Deposit'.
DepositReset ==
  /\ deposit.step = "success"
  /\ deposit' = [deposit EXCEPT !.step = "select", !.pool = NoPool,
                                !.amount = NotANumber, !.error = FALSE]

DepositNext ==
  \/ BalanceChanges
  \/ \E pool \in Pools : SelectPool(pool)
  \/ NextFromSelect
  \/ EnterAmount
  \/ NextFromAmount
  \/ DepositBack
  \/ ConfirmDeposit
  \/ DepositSettled
  \/ DepositReset

-----------------------------------------------------------------------------
(* Withdrawing.  flow: the state of the dialogue for the selected pool;    *)
(* abandoned: withdrawals asked for in dialogues that have been closed.    *)

TreasuryState ==
  [pool : Pools \cup {NoPool}, step : {"amount", "review", "processing", "success"},
   amount : Nat \cup {NotANumber}, submitting : BOOLEAN, error : BOOLEAN,
   requests : Nat, asked : Nat \cup {NotANumber}, abandoned : 0..MaxAbandoned]

TreasuryMounted ==
  [pool |-> NoPool, step |-> "amount", amount |-> NotANumber, submitting |-> FALSE,
   error |-> FALSE, requests |-> 0, asked |-> NotANumber, abandoned |-> 0]

Withdrawing == treasury.pool # NoPool
WithdrawalIsValid == treasury.amount > 0 /\ treasury.amount <= PoolBalance[treasury.pool]

OpenWithdrawal(pool) ==
  ~Withdrawing /\ treasury' = [treasury EXCEPT !.pool = pool]

EnterWithdrawal ==
  /\ Withdrawing /\ treasury.step = "amount"
  /\ \E a \in Amounts \cup {NotANumber, PoolBalance[treasury.pool]} :
       treasury' = [treasury EXCEPT !.amount = a]

ReviewWithdrawal ==
  /\ Withdrawing /\ treasury.step = "amount" /\ WithdrawalIsValid
  /\ treasury' = [treasury EXCEPT !.step = "review"]

WithdrawalBack ==
  /\ Withdrawing /\ treasury.step \in {"review", "processing"} /\ ~treasury.submitting
  /\ treasury' = [treasury EXCEPT !.step = "amount"]

\* handleConfirm, up to the await.
ConfirmWithdrawal ==
  /\ Withdrawing /\ treasury.step \in {"review", "processing"} /\ ~treasury.submitting
  /\ treasury' = [treasury EXCEPT !.step = "processing", !.submitting = TRUE,
       !.error = FALSE, !.requests = @ + 1, !.asked = treasury.amount]

\* The promise of onWithdraw settles.  (The page passes one that resolves
\* after 2 s; the dialogue is written for one that may reject.)
WithdrawalSettled ==
  /\ treasury.requests > 0
  /\ \/ treasury' = [treasury EXCEPT !.requests = @ - 1, !.submitting = FALSE,
                                     !.step = "success"]
     \/ treasury' = [treasury EXCEPT !.requests = @ - 1, !.submitting = FALSE,
                                     !.error = TRUE, !.step = "review"]

\* The cross, at any time, and `Finish': what was asked for goes on without
\* the dialogue.
CloseWithdrawal ==
  /\ Withdrawing /\ treasury.abandoned + treasury.requests <= MaxAbandoned
  /\ treasury' = [TreasuryMounted EXCEPT !.abandoned = treasury.abandoned + treasury.requests]

AbandonedSettled ==
  treasury.abandoned > 0 /\ treasury' = [treasury EXCEPT !.abandoned = @ - 1]

TreasuryNext ==
  \/ \E pool \in Pools : OpenWithdrawal(pool)
  \/ EnterWithdrawal
  \/ ReviewWithdrawal
  \/ WithdrawalBack
  \/ ConfirmWithdrawal
  \/ WithdrawalSettled
  \/ CloseWithdrawal
  \/ AbandonedSettled

-----------------------------------------------------------------------------
FlowsTypeOK == deposit \in DepositState /\ treasury \in TreasuryState

\* Nothing is deposited that the pool does not take or the wallet does not
\* hold, though the pool and the wallet's balance may change after the amount
\* was checked.
DepositsWithinBounds ==
  [][deposit'.requests > deposit.requests =>
       /\ deposit'.asked.amount >= MinDeposit[deposit'.asked.pool]
       /\ deposit'.asked.amount <= deposit.balance]_deposit

\* The confirmation is of the deposit that was made: neither its pool nor its
\* amount can be changed between the request and its answer.
DepositAsConfirmed ==
  /\ deposit.requests = IF deposit.submitting THEN 1 ELSE 0
  /\ deposit.requests > 0 \/ deposit.step = "success" =>
       deposit.asked = [pool |-> deposit.pool, amount |-> deposit.amount]

\* The same for a withdrawal, which moreover never exceeds the pool's balance
\* even when its dialogue was closed and opened again for another pool.
WithdrawalAsConfirmed ==
  /\ treasury.requests = IF treasury.submitting THEN 1 ELSE 0
  /\ treasury.requests > 0 \/ treasury.step = "success" =>
       treasury.asked = treasury.amount /\ WithdrawalIsValid

\* A withdrawal that is processed ends: in success, or back where it can be
\* confirmed again, unless the user closes the dialogue.
WithdrawalsConclude ==
  (Withdrawing /\ treasury.step = "processing")
    ~> (~Withdrawing \/ treasury.step \in {"review", "success"})
=============================================================================
