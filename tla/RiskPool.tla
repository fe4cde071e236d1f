------------------------------ MODULE RiskPool ------------------------------
(***************************************************************************)
(* The risk pool contract (smartcontract/src/risk_pool.rs with its part of *)
(* storage.rs).  Liquidity providers record contributions, premiums are    *)
(* shared out among them as yield, and payouts reduce the liquidity.       *)
(*                                                                         *)
(* An invocation of a Soroban contract is atomic and one that returns an   *)
(* error leaves no trace, so an entry point is one action and its early    *)
(* returns are the action's guard.  The effect of each entry point is an   *)
(* operator on the pool's state, because the insurance contract calls some *)
(* of them from inside its own invocations.                                *)
(*                                                                         *)
(* A definition named Bad... is a plausible slip in the definition that    *)
(* follows it.  The specification never uses it: put in that definition's  *)
(* place, it shows which property notices.                                 *)
(***************************************************************************)
EXTENDS Soroban, FiniteSets, FiniteSetsExt

CONSTANTS
  Providers,      \* addresses that may hold a provider position
  Accounts,       \* addresses that hold the premium token
  PoolAddr,       \* the pool's own token account
  Holders,        \* policyholders, to whom payouts go
  PoolHasToken,   \* whether PremiumToken is in the pool's storage; no entry
                  \* point of the pool writes that key
  Seed,           \* the token balances when the contracts are deployed
  PoolAmounts,    \* amounts the pool's callers pass (checking bound)
  BPS,            \* 10 000, the denominator of the reserve ratio
  Ratios,         \* reserve ratios the admin sets, in BPS
  MaxLiquidity,   \* checking bound on total_liquidity
  MaxYield        \* checking bound on total_yield_distributed

ASSUME PoolAssumption ==
  /\ PoolAddr \in Accounts
  /\ Holders \subseteq Accounts \ {PoolAddr}
  /\ PoolHasToken \in BOOLEAN
  /\ Seed \in [Accounts -> Nat]
  /\ PoolAmounts \subseteq Nat
  /\ BPS \in Nat \ {0}
  /\ Ratios \subseteq Nat
  /\ MaxLiquidity \in Nat
  /\ MaxYield \in Nat

VARIABLES
  pool,   \* the pool contract's storage
  token   \* the token contract's balances

poolVars == <<pool, token>>

-----------------------------------------------------------------------------
(* The pool's storage.  `positions' is the Provider(address) entries,      *)
(* `providers' the Providers list (its order is never observed), and       *)
(* `yield_claimed' the sum of the amounts in the events of claim_yield.    *)

Position == [contribution: Nat, accrued_yield: Nat]

IsPool(pl) ==
  /\ pl \in [positions: {pl.positions},
             providers: SUBSET Providers,
             total_liquidity: Nat,
             total_yield_distributed: Nat,
             reserve_ratio: 0..BPS,
             yield_claimed: Nat]
  /\ DOMAIN pl.positions \subseteq Providers
  /\ pl.positions \in [DOMAIN pl.positions -> Position]

EmptyPool ==
  [positions |-> [q \in {} |-> [contribution |-> 0, accrued_yield |-> 0]],
   providers |-> {},
   total_liquidity |-> 0,
   total_yield_distributed |-> 0,
   reserve_ratio |-> BPS \div 5,
   yield_claimed |-> 0]

PositionOf(pl, q) ==
  IF q \in DOMAIN pl.positions
  THEN pl.positions[q]
  ELSE [contribution |-> 0, accrued_yield |-> 0]

Reserve(pl) == (pl.total_liquidity * pl.reserve_ratio) \div BPS

\* Rounded up.
BadShare(pl, q, amt) ==
  (amt * pl.positions[q].contribution + pl.total_liquidity - 1)
    \div pl.total_liquidity

\* The floor share of amt that a contribution earns.
Share(pl, q, amt) ==
  (amt * pl.positions[q].contribution) \div pl.total_liquidity

CanDeposit(pl, q, amt) ==
  /\ amt > 0
  /\ Fits(PositionOf(pl, q).contribution + amt)
  /\ Fits(pl.total_liquidity + amt)

\* A second deposit overwrites the first.
BadDeposited(pl, q, amt) ==
  [pl EXCEPT
     !.positions = Put(@, q, [PositionOf(pl, q) EXCEPT !.contribution = amt]),
     !.providers = @ \cup {q},
     !.total_liquidity = @ + amt]

Deposited(pl, q, amt) ==
  [pl EXCEPT
     !.positions = Put(@, q, [PositionOf(pl, q) EXCEPT !.contribution = @ + amt]),
     !.providers = @ \cup {q},
     !.total_liquidity = @ + amt]

\* Checked against the provider's contribution only.
BadCanWithdraw(pl, q, amt) ==
  /\ amt > 0
  /\ q \in DOMAIN pl.positions
  /\ amt <= pl.positions[q].contribution

CanWithdraw(pl, q, amt) ==
  /\ amt > 0
  /\ q \in DOMAIN pl.positions
  /\ amt <= pl.positions[q].contribution
  /\ Fits(pl.total_liquidity * pl.reserve_ratio)
  /\ amt <= pl.total_liquidity - Reserve(pl)

\* A provider with nothing left, and no yield to claim, is removed.
Leaves(position) == position.contribution = 0 /\ position.accrued_yield = 0

BadUnregistered(providers, gone, q) == providers

Unregistered(providers, gone, q) ==
  IF gone THEN providers \ {q} ELSE providers

Withdrawn(pl, q, amt) ==
  LET left == [pl.positions[q] EXCEPT !.contribution = @ - amt]
      gone == Leaves(left)
  IN  [pl EXCEPT
         !.positions = IF gone
                       THEN [r \in DOMAIN @ \ {q} |-> @[r]]
                       ELSE [@ EXCEPT ![q] = left],
         !.providers = Unregistered(@, gone, q),
         !.total_liquidity = @ - amt]

CanDistribute(pl, amt) ==
  /\ amt > 0
  /\ pl.total_liquidity > 0
  /\ \A q \in pl.providers :
       /\ q \in DOMAIN pl.positions
       /\ Fits(amt * pl.positions[q].contribution)
       /\ Fits(pl.positions[q].accrued_yield + Share(pl, q, amt))
  /\ Fits(pl.total_yield_distributed + amt)

Credited(pl, q, amt) ==
  [pl.positions[q] EXCEPT !.accrued_yield = @ + Share(pl, q, amt)]

\* The total is forgotten.
BadDistributed(pl, amt) ==
  [pl EXCEPT
     !.positions =
       [q \in DOMAIN @ |->
          IF q \in pl.providers THEN Credited(pl, q, amt) ELSE @[q]]]

Distributed(pl, amt) ==
  [pl EXCEPT
     !.positions =
       [q \in DOMAIN @ |->
          IF q \in pl.providers THEN Credited(pl, q, amt) ELSE @[q]],
     !.total_yield_distributed = @ + amt]

\* Every provider's yield is reset, not only the claimer's.
BadYieldTaken(pl, q) ==
  [pl EXCEPT
     !.positions = [r \in DOMAIN @ |-> [@[r] EXCEPT !.accrued_yield = 0]],
     !.yield_claimed = @ + pl.positions[q].accrued_yield]

YieldTaken(pl, q) ==
  [pl EXCEPT
     !.positions = [@ EXCEPT ![q].accrued_yield = 0],
     !.yield_claimed = @ + pl.positions[q].accrued_yield]

CanFund(pl, balances, amt) ==
  /\ amt > 0
  /\ amt <= pl.total_liquidity
  /\ PoolHasToken
  /\ CanPay(balances, PoolAddr, amt)

Funded(pl, amt) == [pl EXCEPT !.total_liquidity = @ - amt]

-----------------------------------------------------------------------------
(* The entry points.                                                       *)

PoolInit ==
  /\ pool = EmptyPool
  /\ token = Seed

SetReserveRatio(ratio) ==
  /\ ratio <= BPS
  /\ pool' = [pool EXCEPT !.reserve_ratio = ratio]
  /\ UNCHANGED token

\* Recording liquidity moves no token.
AddLiquidity(q, amt) ==
  /\ CanDeposit(pool, q, amt)
  /\ pool.total_liquidity + amt <= MaxLiquidity   \* checking bound
  /\ pool' = Deposited(pool, q, amt)
  /\ UNCHANGED token

WithdrawLiquidity(q, amt) ==
  /\ CanWithdraw(pool, q, amt)
  /\ pool' = Withdrawn(pool, q, amt)
  /\ UNCHANGED token

DistributeYield(amt) ==
  /\ CanDistribute(pool, amt)
  /\ pool.total_yield_distributed + amt <= MaxYield   \* checking bound
  /\ pool' = Distributed(pool, amt)
  /\ UNCHANGED token

ClaimYield(q) ==
  /\ q \in DOMAIN pool.positions
  /\ pool.positions[q].accrued_yield > 0
  /\ pool' = YieldTaken(pool, q)
  /\ UNCHANGED token

FundPayout(to, amt) ==
  /\ CanFund(pool, token, amt)
  /\ pool' = Funded(pool, amt)
  /\ token' = Transferred(token, PoolAddr, to, amt)

PoolNext ==
  \/ \E ratio \in Ratios : SetReserveRatio(ratio)
  \/ \E q \in Providers, amt \in PoolAmounts : AddLiquidity(q, amt)
  \/ \E q \in Providers, amt \in PoolAmounts : WithdrawLiquidity(q, amt)
  \/ \E amt \in PoolAmounts : DistributeYield(amt)
  \/ \E q \in Providers : ClaimYield(q)
  \/ \E to \in Holders, amt \in PoolAmounts : FundPayout(to, amt)

PoolSpec == PoolInit /\ [][PoolNext]_poolVars

-----------------------------------------------------------------------------
(* Properties.                                                             *)

\* The pool's storage and the token balances keep their types: in
\* particular no sequence of deposits, withdrawals, distributions and
\* payouts drives the unchecked i128 subtractions of withdraw_liquidity and
\* fund_payout below zero.
PoolTypeOK ==
  /\ IsPool(pool)
  /\ token \in [Accounts -> Nat]

\* The Providers list and the Provider entries, which risk_pool.rs updates
\* by separate calls, never disagree; distribute_yield, which looks every
\* listed provider up, so never fails with ProviderNotFound and never skips
\* a provider who holds a position.
RegistryConsistent == pool.providers = DOMAIN pool.positions

\* What the providers have put in and not withdrawn, and the yield that they
\* have been credited and not claimed.
Contributed(pl) ==
  SumFunction([q \in DOMAIN pl.positions |-> pl.positions[q].contribution])
Owed(pl) ==
  SumFunction([q \in DOMAIN pl.positions |-> pl.positions[q].accrued_yield])

Contributions == Contributed(pool)
Accrued == Owed(pool)

\* The separately kept total_liquidity is the sum of the contributions less
\* what the pool has paid out.
LiquidityIsContributionsLessPayouts ==
  Contributions = pool.total_liquidity + (Seed[PoolAddr] - token[PoolAddr])

\* While the pool has paid nothing out, yield credited to providers or
\* already claimed by them never exceeds the yield distributed, whatever
\* the rounding and however deposits, withdrawals and claims interleave
\* with distributions.
YieldNotOverAllocated ==
  token[PoolAddr] = Seed[PoolAddr] =>
    Accrued + pool.yield_claimed <= pool.total_yield_distributed

\* One provider's deposits, withdrawals and claims leave every other
\* provider's position alone; only a distribution reaches several.
PositionsAreIndependent ==
  [][pool'.total_yield_distributed = pool.total_yield_distributed =>
       \A q, r \in Providers :
         PositionOf(pool', q) # PositionOf(pool, q) /\ q # r =>
           PositionOf(pool', r) = PositionOf(pool, r)]_poolVars

\* No withdrawal or payout ever forgets yield: a position that disappears
\* had none left to claim.
NoYieldForfeited ==
  [][\A q \in DOMAIN pool.positions \ DOMAIN pool'.positions :
       pool.positions[q].accrued_yield = 0]_poolVars

\* What a provider holds changes by the provider's own calls and by shares of
\* yield, and never by being forgotten.
ProvidersKeepTheirOwn == PositionsAreIndependent /\ NoYieldForfeited
=============================================================================
