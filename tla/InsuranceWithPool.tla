------------------------- MODULE InsuranceWithPool -------------------------
(***************************************************************************)
(* The insurance contract and the risk pool together: between two          *)
(* invocations of the insurance contract, which call the pool from inside, *)
(* liquidity providers and the pool's admin call the pool directly.        *)
(***************************************************************************)
EXTENDS StellarInsure

insuranceVars == <<now, paused, board, settings, policy_counter, policies,
                   claims, votes, totals>>

\* The insurance contract's own position is out of its reach: it has no entry
\* point that withdraws or claims.
PoolUsers == Providers \ {Contract}

DirectPoolNext ==
  /\ \/ \E ratio \in Ratios : SetReserveRatio(ratio)
     \/ \E q \in PoolUsers, amt \in PoolAmounts : AddLiquidity(q, amt)
     \/ \E q \in PoolUsers, amt \in PoolAmounts : WithdrawLiquidity(q, amt)
     \/ \E amt \in PoolAmounts : DistributeYield(amt)
     \/ \E q \in PoolUsers : ClaimYield(q)
     \/ \E to \in Holders, amt \in PoolAmounts : FundPayout(to, amt)
  /\ UNCHANGED insuranceVars

SystemNext ==
  \/ Next /\ pool'.total_yield_distributed <= MaxYield   \* checking bound
  \/ DirectPoolNext

SystemSpec == Init /\ [][SystemNext]_vars

-----------------------------------------------------------------------------
(* Properties.                                                             *)

\* Across both contracts the pool never pays more than the capital that was
\* recorded with it: contributions of providers less the liquidity that is left
\* is exactly what it paid out, and that is what left its account, net of the
\* premiums it was sent.  Those are the insurance contract's contribution, since
\* no other entry point records or removes any for it.
PremiumsAreContributions ==
  token[PoolAddr] + (Contributions - pool.total_liquidity)
    = Seed[PoolAddr] + PositionOf(pool, Contract).contribution

\* Every premium paid while a pool is linked is shared out as yield in the
\* same invocation: what the pool distributed is never less than the premiums
\* it holds of the insurance contract.
PremiumsAreShared ==
  PositionOf(pool, Contract).contribution <= pool.total_yield_distributed

\* As long as nothing was paid out, no interleaving of premiums, direct
\* distributions, deposits and withdrawals credits more yield than was
\* distributed.
SystemYieldNotOverAllocated ==
  Contributions = pool.total_liquidity =>
    Accrued + pool.yield_claimed <= pool.total_yield_distributed

\* Every premium that reaches the pool is shared out, and shared out once.
PremiumsSharedOnce == PremiumsAreShared /\ SystemYieldNotOverAllocated
=============================================================================
