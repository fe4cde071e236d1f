---------------------- MODULE InsuranceWithPoolProofs ----------------------
(***************************************************************************)
(* Theorems about the two contracts together.                              *)
(***************************************************************************)
EXTENDS InsuranceWithPool, StellarInsureProofs

\* Direct calls of the pool are steps of the pool alone.
LEMMA DirectIsPoolStep ==
  DirectPoolNext => PoolNext /\ UNCHANGED insuranceVars
BY DEF DirectPoolNext, PoolNext, PoolUsers

\* Both contracts' storage keeps its type when the pool is called directly.
LEMMA SystemTypeStep == TypeOK /\ [SystemNext]_vars => TypeOK'
<1> SUFFICES ASSUME TypeOK, [SystemNext]_vars PROVE TypeOK'
  OBVIOUS
<1>1. CASE [Next]_vars
  BY <1>1, TypeStep
<1>2. CASE DirectPoolNext
  <2>1. PoolTypeOK
    BY DEF TypeOK
  <2>2. PoolTypeOK' /\ UNCHANGED insuranceVars
    BY <1>2, <2>1, DirectIsPoolStep, PoolTypeStep
  <2> QED
    BY <2>2 DEF TypeOK, insuranceVars, board, settings, totals
<1> QED
  BY <1>1, <1>2 DEF SystemNext

\* However the pool's own users and the insurance contract's invocations
\* interleave, all storage keeps its type: what one contract takes from the
\* pool never drives what the other relies on below zero.
THEOREM SystemTypeCorrect == SystemSpec => []TypeOK
BY TypeInit, SystemTypeStep, PTL DEF SystemSpec

\* The calls that the insurance contract makes on the pool update both records
\* of who is a provider.
LEMMA InsuranceRegistryStep ==
  TypeOK /\ RegistryConsistent /\ [Next]_vars => RegistryConsistent'
<1> SUFFICES ASSUME TypeOK, RegistryConsistent, [Next]_vars
             PROVE  RegistryConsistent'
  OBVIOUS
<1> USE DEF RegistryConsistent
<1>1. CASE pool' = pool
  BY <1>1
<1>2. IsPool(pool)
  BY DEF TypeOK, PoolTypeOK
<1>3. ASSUME NEW p \in DOMAIN policies, PayPremium(p)
      PROVE  RegistryConsistent'
  <2> DEFINE amt == policies[p].premium
             deposited == Deposited(pool, Contract, amt)
  <2>1. amt \in Nat
    BY DEF TypeOK, Policy
  <2>2. /\ IsPool(deposited)
        /\ deposited.providers = DOMAIN deposited.positions
    <3> HIDE DEF amt
    <3>1. Contract \in Providers
      BY ContractAssumption
    <3>2. /\ IsPool(deposited)
          /\ DOMAIN deposited.positions = DOMAIN pool.positions \cup {Contract}
          /\ deposited.providers = pool.providers \cup {Contract}
      BY <1>2, <2>1, <3>1, DepositedType
    <3> QED
      BY <3>2
  <2>3. \/ pool' = pool
        \/ CanDistribute(deposited, amt) /\ pool' = Distributed(deposited, amt)
    BY <1>3 DEF PayPremium
  <2> HIDE DEF deposited, amt
  <2> QED
    BY <1>1, <2>1, <2>2, <2>3, DistributedType
<1>4. ASSUME NEW p \in DOMAIN claims, PayFromContract(p) \/ PayFromPool(p)
      PROVE  RegistryConsistent'
  <2>1. claims[p].claim_amount \in Nat
    BY DEF TypeOK, Claim
  <2>2. CASE PayFromContract(p)
    BY <1>1, <2>2 DEF PayFromContract
  <2>3. CASE PayFromPool(p)
    BY <1>2, <2>1, <2>3, FundedType DEF PayFromPool, FundPayout, CanFund
  <2> QED
    BY <1>4, <2>2, <2>3
<1>5. CASE DecisionNext
  <2>1. ASSUME NEW p \in DOMAIN policies, NEW approved \in BOOLEAN,
               ProcessClaim(p, approved)
        PROVE  RegistryConsistent'
    BY <1>1, <1>4, <2>1 DEF ProcessClaim, HasPendingClaim, Reject
  <2>2. ASSUME NEW p \in DOMAIN policies, NEW a \in AdminAddrs,
               NEW approve \in BOOLEAN, VoteClaim(p, a, approve)
        PROVE  RegistryConsistent'
    BY <1>1, <1>4, <2>2 DEF VoteClaim, HasPendingClaim, Reject
  <2> QED
    BY <1>5, <2>1, <2>2 DEF DecisionNext
<1>6. CASE HolderNext
  BY <1>1, <1>3, <1>6 DEF HolderNext, CreatePolicy, SubmitClaim, CancelPolicy,
     IncreaseCoverage, ExtendDuration, ChangeBeneficiary, RenewPolicy,
     CheckExpiration
<1>7. CASE AdminNext \/ Tick \/ UNCHANGED vars
  BY <1>1, <1>7 DEF AdminNext, AddAdmin, RemoveAdmin, SetThreshold, SetPaused,
     SetMaxPolicies, SetPremiumToken, SetRiskPool, Tick, vars
<1> QED
  BY <1>5, <1>6, <1>7 DEF Next

\* The list of providers and their entries agree also with the insurance
\* contract among the providers, whose premiums enter the pool from inside its
\* own invocations.
THEOREM SystemRegistryCorrect == SystemSpec => []RegistryConsistent
<1>1. Init => RegistryConsistent
  BY DEF Init, PoolInit, RegistryConsistent, EmptyPool
<1>2. TypeOK /\ RegistryConsistent /\ [SystemNext]_vars => RegistryConsistent'
  <2> SUFFICES ASSUME TypeOK, RegistryConsistent, [SystemNext]_vars
               PROVE  RegistryConsistent'
    OBVIOUS
  <2>1. CASE [Next]_vars
    BY <2>1, InsuranceRegistryStep
  <2>2. CASE DirectPoolNext
    BY <2>2, DirectIsPoolStep, RegistryStep DEF TypeOK
  <2> QED
    BY <2>1, <2>2 DEF SystemNext
<1> QED
  BY <1>1, <1>2, SystemTypeCorrect, PTL DEF SystemSpec

-----------------------------------------------------------------------------
(* The pool's books under both contracts.                                  *)

\* Besides what the properties say: there are finitely many positions, and the
\* liquidity is at most what was contributed.  A payout opens a gap between
\* the two that nothing closes, which is why the yield is bounded only while
\* they are equal.
SystemBooks ==
  /\ IsFiniteSet(DOMAIN pool.positions)
  /\ pool.total_liquidity <= Contributed(pool)
  /\ PremiumsAreContributions
  /\ PremiumsAreShared
  /\ SystemYieldNotOverAllocated

\* The invariant as a relation between the pool's storage and the balance of
\* its account.
Balanced(pl, held) ==
  /\ IsFiniteSet(DOMAIN pl.positions)
  /\ pl.total_liquidity <= Contributed(pl)
  /\ held + (Contributed(pl) - pl.total_liquidity)
       = Seed[PoolAddr] + PositionOf(pl, Contract).contribution
  /\ PositionOf(pl, Contract).contribution <= pl.total_yield_distributed
  /\ Contributed(pl) = pl.total_liquidity =>
       Owed(pl) + pl.yield_claimed <= pl.total_yield_distributed

\* The two ways of writing the invariant.
LEMMA BooksAreBalanced ==
  /\ SystemBooks <=> Balanced(pool, token[PoolAddr])
  /\ SystemBooks' <=> Balanced(pool', token'[PoolAddr])
BY DEF SystemBooks, Balanced, PremiumsAreContributions, PremiumsAreShared,
       SystemYieldNotOverAllocated, Contributions, Accrued, Contributed, Owed,
       PositionOf

\* What is read of a typed pool is numbers.
LEMMA BooksType ==
  ASSUME NEW pl, IsPool(pl), IsFiniteSet(DOMAIN pl.positions)
  PROVE  /\ Contributed(pl) \in Int /\ Owed(pl) \in Int
         /\ pl.total_liquidity \in Nat /\ pl.total_yield_distributed \in Nat
         /\ pl.yield_claimed \in Nat /\ Seed[PoolAddr] \in Nat
         /\ PositionOf(pl, Contract).contribution \in Nat
<1>1. PositionOf(pl, Contract) \in Position /\ Seed[PoolAddr] \in Nat
  BY PositionOfType, PoolAssumption
<1> QED
  BY <1>1, TotalsType, FieldsOf DEF Position

\* A deposit by another provider.
LEMMA DepositBalanced ==
  ASSUME NEW pl, IsPool(pl), NEW held \in Nat, Balanced(pl, held),
         NEW q \in PoolUsers, NEW amt \in Nat
  PROVE  Balanced(Deposited(pl, q, amt), held)
<1> DEFINE to == Deposited(pl, q, amt)
<1>1. q \in Providers /\ Contract # q
  BY DEF PoolUsers
<1>2. PositionOf(to, Contract) = PositionOf(pl, Contract)
  BY <1>1, DepositedApart
<1>3. /\ IsFiniteSet(DOMAIN to.positions)
      /\ Contributed(to) = Contributed(pl) + amt /\ Owed(to) = Owed(pl)
      /\ to.total_liquidity = pl.total_liquidity + amt
      /\ to.total_yield_distributed = pl.total_yield_distributed
      /\ to.yield_claimed = pl.yield_claimed
  BY <1>1, DepositedTotals DEF Balanced
<1> HIDE DEF to
<1> QED
  BY <1>2, <1>3, BooksType DEF Balanced, to

\* A withdrawal by another provider.
LEMMA WithdrawalBalanced ==
  ASSUME NEW pl, IsPool(pl), NEW held \in Nat, Balanced(pl, held),
         NEW q \in PoolUsers, NEW amt \in Nat, CanWithdraw(pl, q, amt)
  PROVE  Balanced(Withdrawn(pl, q, amt), held)
<1> DEFINE to == Withdrawn(pl, q, amt)
<1>1. q \in Providers /\ Contract # q /\ q \in DOMAIN pl.positions
  BY DEF PoolUsers, CanWithdraw
<1>2. PositionOf(to, Contract) = PositionOf(pl, Contract)
  BY <1>1, WithdrawnApart
<1>3. /\ IsFiniteSet(DOMAIN to.positions)
      /\ Contributed(to) = Contributed(pl) - amt /\ Owed(to) = Owed(pl)
      /\ to.total_liquidity = pl.total_liquidity - amt
      /\ to.total_yield_distributed = pl.total_yield_distributed
      /\ to.yield_claimed = pl.yield_claimed
  BY <1>1, WithdrawnTotals DEF Balanced
<1> HIDE DEF to
<1> QED
  BY <1>2, <1>3, BooksType DEF Balanced, to

\* A distribution, which credits the insurance contract among the others.
LEMMA DistributionBalanced ==
  ASSUME NEW pl, IsPool(pl), NEW held \in Nat, Balanced(pl, held),
         NEW amt \in Nat, CanDistribute(pl, amt)
  PROVE  Balanced(Distributed(pl, amt), held)
<1> DEFINE to == Distributed(pl, amt)
<1>1. /\ IsFiniteSet(DOMAIN to.positions)
      /\ Contributed(to) = Contributed(pl)
      /\ Contributed(pl) = pl.total_liquidity => Owed(to) <= Owed(pl) + amt
      /\ to.total_liquidity = pl.total_liquidity
      /\ to.total_yield_distributed = pl.total_yield_distributed + amt
      /\ to.yield_claimed = pl.yield_claimed
      /\ PositionOf(to, Contract).contribution = PositionOf(pl, Contract).contribution
  BY DistributedTotals DEF Balanced
<1>2. IsPool(to)
  BY DistributedType
<1> HIDE DEF to
<1>3. Owed(to) \in Int
  BY <1>1, <1>2, TotalsType
<1> QED
  BY <1>1, <1>3, BooksType DEF Balanced, to

\* A provider's yield claimed.
LEMMA YieldClaimBalanced ==
  ASSUME NEW pl, IsPool(pl), NEW held \in Nat, Balanced(pl, held),
         NEW q \in DOMAIN pl.positions, q # Contract
  PROVE  Balanced(YieldTaken(pl, q), held)
<1> DEFINE to == YieldTaken(pl, q)
<1>1. PositionOf(to, Contract) = PositionOf(pl, Contract)
  BY YieldTakenApart
<1>2. /\ IsFiniteSet(DOMAIN to.positions)
      /\ Contributed(to) = Contributed(pl)
      /\ Owed(to) + to.yield_claimed = Owed(pl) + pl.yield_claimed
      /\ to.total_liquidity = pl.total_liquidity
      /\ to.total_yield_distributed = pl.total_yield_distributed
  BY YieldTakenTotals DEF Balanced
<1> HIDE DEF to
<1> QED
  BY <1>1, <1>2, BooksType DEF Balanced, to

\* A payout out of the pool.
LEMMA PayoutBalanced ==
  ASSUME NEW pl, IsPool(pl), NEW held \in Nat, Balanced(pl, held),
         NEW amt \in Nat, amt > 0
  PROVE  Balanced(Funded(pl, amt), held - amt)
<1> DEFINE to == Funded(pl, amt)
<1>1. /\ to.positions = pl.positions
      /\ Contributed(to) = Contributed(pl) /\ Owed(to) = Owed(pl)
      /\ to.total_liquidity = pl.total_liquidity - amt
      /\ to.total_yield_distributed = pl.total_yield_distributed
      /\ to.yield_claimed = pl.yield_claimed
  BY FundedTotals
<1> HIDE DEF to
<1>2. PositionOf(to, Contract) = PositionOf(pl, Contract)
  BY <1>1 DEF PositionOf
<1> QED
  BY <1>1, <1>2, BooksType DEF Balanced, to

\* A premium: the contract's deposit and the distribution that follows it in
\* the same invocation, and the tokens that came with them.
LEMMA PremiumBalanced ==
  ASSUME NEW pl, IsPool(pl), NEW held \in Nat, Balanced(pl, held), NEW amt \in Nat,
         CanDistribute(Deposited(pl, Contract, amt), amt)
  PROVE  Balanced(Distributed(Deposited(pl, Contract, amt), amt), held + amt)
<1> DEFINE mid == Deposited(pl, Contract, amt)
           to == Distributed(mid, amt)
<1>1. /\ IsFiniteSet(DOMAIN mid.positions)
      /\ Contributed(mid) = Contributed(pl) + amt /\ Owed(mid) = Owed(pl)
      /\ mid.total_liquidity = pl.total_liquidity + amt
      /\ mid.total_yield_distributed = pl.total_yield_distributed
      /\ mid.yield_claimed = pl.yield_claimed
      /\ PositionOf(mid, Contract).contribution
           = PositionOf(pl, Contract).contribution + amt
  BY ContractAssumption, DepositedTotals DEF Balanced
<1>2. IsPool(mid) /\ CanDistribute(mid, amt)
  BY ContractAssumption, DepositedType
<1> HIDE DEF mid
<1>3. /\ IsFiniteSet(DOMAIN to.positions)
      /\ Contributed(to) = Contributed(mid)
      /\ Contributed(mid) = mid.total_liquidity => Owed(to) <= Owed(mid) + amt
      /\ to.total_liquidity = mid.total_liquidity
      /\ to.total_yield_distributed = mid.total_yield_distributed + amt
      /\ to.yield_claimed = mid.yield_claimed
      /\ PositionOf(to, Contract).contribution = PositionOf(mid, Contract).contribution
  BY <1>1, <1>2, DistributedTotals
<1>4. IsPool(to)
  BY <1>2, DistributedType
<1> HIDE DEF to
<1>5. Owed(to) \in Int
  BY <1>3, <1>4, TotalsType
<1> QED
  BY <1>1, <1>3, <1>5, BooksType DEF Balanced, to, mid

\* The pool called directly keeps the books.
LEMMA DirectBooks ==
  ASSUME TypeOK, SystemBooks, DirectPoolNext
  PROVE  SystemBooks'
<1> DEFINE held == token[PoolAddr]
<1>1. IsPool(pool) /\ held \in Nat /\ Balanced(pool, held)
  BY BooksAreBalanced, PoolAssumption DEF TypeOK, PoolTypeOK
<1>2. SUFFICES Balanced(pool', token'[PoolAddr])
  BY BooksAreBalanced
<1>3. ASSUME NEW ratio \in Ratios, SetReserveRatio(ratio)
      PROVE  Balanced(pool', token'[PoolAddr])
  <2>1. /\ pool'.positions = pool.positions
        /\ pool'.total_liquidity = pool.total_liquidity
        /\ pool'.total_yield_distributed = pool.total_yield_distributed
        /\ pool'.yield_claimed = pool.yield_claimed
        /\ token'[PoolAddr] = held
    BY <1>1, <1>3, FieldsOf DEF SetReserveRatio
  <2>2. /\ Contributed(pool') = Contributed(pool) /\ Owed(pool') = Owed(pool)
        /\ PositionOf(pool', Contract) = PositionOf(pool, Contract)
    BY <2>1 DEF Contributed, Owed, PositionOf
  <2> HIDE DEF held
  <2> QED
    BY <1>1, <2>1, <2>2 DEF Balanced
<1>4. ASSUME NEW q \in PoolUsers, NEW amt \in PoolAmounts, AddLiquidity(q, amt)
      PROVE  Balanced(pool', token'[PoolAddr])
  <2>1. amt \in Nat /\ pool' = Deposited(pool, q, amt) /\ token'[PoolAddr] = held
    BY <1>4, PoolAssumption DEF AddLiquidity
  <2> HIDE DEF held
  <2> QED
    BY <1>1, <2>1, DepositBalanced
<1>5. ASSUME NEW q \in PoolUsers, NEW amt \in PoolAmounts, WithdrawLiquidity(q, amt)
      PROVE  Balanced(pool', token'[PoolAddr])
  <2>1. /\ amt \in Nat /\ CanWithdraw(pool, q, amt) /\ pool' = Withdrawn(pool, q, amt)
        /\ token'[PoolAddr] = held
    BY <1>5, PoolAssumption DEF WithdrawLiquidity
  <2> HIDE DEF held
  <2> QED
    BY <1>1, <2>1, WithdrawalBalanced
<1>6. ASSUME NEW amt \in PoolAmounts, DistributeYield(amt)
      PROVE  Balanced(pool', token'[PoolAddr])
  <2>1. /\ amt \in Nat /\ CanDistribute(pool, amt) /\ pool' = Distributed(pool, amt)
        /\ token'[PoolAddr] = held
    BY <1>6, PoolAssumption DEF DistributeYield
  <2> HIDE DEF held
  <2> QED
    BY <1>1, <2>1, DistributionBalanced
<1>7. ASSUME NEW q \in PoolUsers, ClaimYield(q)
      PROVE  Balanced(pool', token'[PoolAddr])
  <2>1. /\ q \in DOMAIN pool.positions /\ q # Contract /\ pool' = YieldTaken(pool, q)
        /\ token'[PoolAddr] = held
    BY <1>7 DEF ClaimYield, PoolUsers
  <2> HIDE DEF held
  <2> QED
    BY <1>1, <2>1, YieldClaimBalanced
<1>8. ASSUME NEW to \in Holders, NEW amt \in PoolAmounts, FundPayout(to, amt)
      PROVE  Balanced(pool', token'[PoolAddr])
  <2>1. /\ amt \in Nat /\ amt > 0 /\ pool' = Funded(pool, amt)
        /\ token'[PoolAddr] = held - amt
    BY <1>8, PoolAssumption DEF FundPayout, CanFund, Transferred, TypeOK, PoolTypeOK
  <2> HIDE DEF held
  <2> QED
    BY <1>1, <2>1, PayoutBalanced
<1> QED
  BY <1>3, <1>4, <1>5, <1>6, <1>7, <1>8 DEF DirectPoolNext

\* A transfer between accounts other than the pool's leaves the pool's.
LEMMA PoolAccountApart ==
  ASSUME TypeOK, NEW from \in Accounts \ {PoolAddr}, NEW to \in Accounts \ {PoolAddr},
         NEW amt
  PROVE  Transferred(token, from, to, amt)[PoolAddr] = token[PoolAddr]
BY PoolAssumption DEF TypeOK, PoolTypeOK, Transferred

\* So do the calls of the insurance contract.
LEMMA InsuranceBooks ==
  ASSUME TypeOK, SystemBooks, [Next]_vars
  PROVE  SystemBooks'
<1> DEFINE held == token[PoolAddr]
<1>1. IsPool(pool) /\ held \in Nat /\ Balanced(pool, held)
  BY BooksAreBalanced, PoolAssumption DEF TypeOK, PoolTypeOK
<1>2. ASSUME Balanced(pool', token'[PoolAddr]) PROVE SystemBooks'
  BY <1>2, BooksAreBalanced
<1>3. CASE pool' = pool /\ token'[PoolAddr] = held
  BY <1>1, <1>2, <1>3
<1>4. Contract \in Accounts \ {PoolAddr} /\ PoolAddr \in Accounts
  BY PoolAssumption, ContractAssumption
<1>5. \A p \in DOMAIN policies : policies[p].policyholder \in Accounts \ {PoolAddr}
  BY PoolAssumption DEF TypeOK, Policy
<1>6. ASSUME NEW p \in DOMAIN policies, NEW amt, Collect(p, Contract, amt), pool' = pool
      PROVE  SystemBooks'
  <2>1. token' = Transferred(token, policies[p].policyholder, Contract, amt)
    BY <1>6 DEF Collect
  <2> QED
    BY <1>3, <1>4, <1>5, <1>6, <2>1, PoolAccountApart
<1>7. ASSUME NEW p \in DOMAIN policies, PayPremium(p) PROVE SystemBooks'
  <2> DEFINE amt == policies[p].premium
             payer == policies[p].policyholder
  <2>1. CASE ~risk_pool
    <3>1. Collect(p, Contract, amt) /\ pool' = pool
      BY <1>7, <2>1 DEF PayPremium
    <3> QED
      BY <1>6, <3>1
  <2>2. CASE risk_pool
    <3>1. /\ token' = Transferred(token, payer, PoolAddr, amt)
          /\ CanDistribute(Deposited(pool, Contract, amt), amt)
          /\ pool' = Distributed(Deposited(pool, Contract, amt), amt)
      BY <1>7, <2>2 DEF PayPremium, Collect
    <3>2. amt \in Nat /\ payer \in Accounts \ {PoolAddr}
      BY <1>5 DEF TypeOK, Policy
    <3> HIDE DEF amt, payer
    <3>3. token'[PoolAddr] = held + amt
      BY <1>4, <3>1, <3>2 DEF Transferred, TypeOK, PoolTypeOK
    <3> HIDE DEF held
    <3> QED
      BY <1>1, <1>2, <3>1, <3>2, <3>3, PremiumBalanced
  <2> QED
    BY <2>1, <2>2
<1>8. ASSUME NEW p \in DOMAIN claims, PayFromContract(p) PROVE SystemBooks'
  <2>1. /\ token' = Transferred(token, Contract, policies[p].policyholder,
                                claims[p].claim_amount)
        /\ pool' = pool /\ p \in DOMAIN policies
    BY <1>8 DEF PayFromContract, TypeOK
  <2> QED
    BY <1>3, <1>4, <1>5, <2>1, PoolAccountApart
<1>9. ASSUME NEW p \in DOMAIN claims, PayFromPool(p) PROVE SystemBooks'
  <2> DEFINE amt == claims[p].claim_amount
             payee == policies[p].policyholder
  <2>1. /\ amt \in Nat /\ p \in DOMAIN policies /\ payee \in Accounts \ {PoolAddr}
    BY <1>5 DEF TypeOK, Claim
  <2>2. /\ amt > 0 /\ pool' = Funded(pool, amt)
        /\ token' = Transferred(token, PoolAddr, payee, amt)
    BY <1>9 DEF PayFromPool, FundPayout, CanFund
  <2> HIDE DEF amt, payee
  <2>3. token'[PoolAddr] = held - amt
    BY <1>4, <2>1, <2>2 DEF Transferred, TypeOK, PoolTypeOK
  <2> HIDE DEF held
  <2> QED
    BY <1>1, <1>2, <2>1, <2>2, <2>3, PayoutBalanced
<1>10. CASE HolderNext
  <2>1. ASSUME NEW h \in Holders, NEW t \in PolicyTypes, NEW c \in Coverages,
               NEW d \in Durations, CreatePolicy(h, t, c, d)
        PROVE  SystemBooks'
    BY <1>3, <2>1 DEF CreatePolicy
  <2>2. ASSUME NEW p \in DOMAIN policies,
               \/ \E c \in Coverages : IncreaseCoverage(p, c)
               \/ \E d \in Durations : ExtendDuration(p, d)
               \/ \E d \in Durations : RenewPolicy(p, d)
        PROVE  SystemBooks'
    BY <1>6, <2>2 DEF IncreaseCoverage, ExtendDuration, RenewPolicy
  <2>3. ASSUME NEW p \in DOMAIN policies,
               \/ \E amt \in ClaimAmounts : SubmitClaim(p, amt)
               \/ CancelPolicy(p)
               \/ \E h \in Holders : ChangeBeneficiary(p, h)
               \/ CheckExpiration(p)
        PROVE  SystemBooks'
    BY <1>3, <2>3 DEF SubmitClaim, CancelPolicy, ChangeBeneficiary, CheckExpiration
  <2> QED
    BY <1>7, <1>10, <2>1, <2>2, <2>3 DEF HolderNext
<1>11. CASE DecisionNext
  <2>1. ASSUME NEW p \in DOMAIN policies, NEW approved \in BOOLEAN,
               ProcessClaim(p, approved)
        PROVE  SystemBooks'
    BY <1>3, <1>8, <1>9, <2>1 DEF ProcessClaim, HasPendingClaim, Reject
  <2>2. ASSUME NEW p \in DOMAIN policies, NEW a \in AdminAddrs,
               NEW approve \in BOOLEAN, VoteClaim(p, a, approve)
        PROVE  SystemBooks'
    BY <1>3, <1>8, <2>2 DEF VoteClaim, HasPendingClaim, Reject
  <2> QED
    BY <1>11, <2>1, <2>2 DEF DecisionNext
<1>12. CASE AdminNext \/ Tick \/ UNCHANGED vars
  BY <1>3, <1>12 DEF AdminNext, AddAdmin, RemoveAdmin, SetThreshold, SetPaused,
     SetMaxPolicies, SetPremiumToken, SetRiskPool, Tick, vars
<1> QED
  BY <1>10, <1>11, <1>12 DEF Next

\* The books balance from the deployment of the two contracts on.
LEMMA SystemBooksAlways == SystemSpec => []SystemBooks
<1>1. Init => SystemBooks
  <2> SUFFICES ASSUME Init PROVE Balanced(pool, token[PoolAddr])
    BY BooksAreBalanced
  <2>1. /\ pool = EmptyPool /\ token[PoolAddr] = Seed[PoolAddr]
        /\ Seed[PoolAddr] \in Nat
    BY PoolAssumption DEF Init, PoolInit
  <2>2. PositionOf(EmptyPool, Contract).contribution = 0
    BY EmptyTotals DEF PositionOf
  <2> QED
    BY <2>1, <2>2, EmptyTotals DEF Balanced
<1>2. TypeOK /\ SystemBooks /\ [SystemNext]_vars => SystemBooks'
  BY InsuranceBooks, DirectBooks DEF SystemNext
<1> QED
  BY <1>1, <1>2, SystemTypeCorrect, PTL DEF SystemSpec

\* Whatever the pool's users do between the invocations of the insurance
\* contract, what the pool's account gained is the premiums recorded as that
\* contract's contribution, and what it lost is the liquidity paid out.
THEOREM PremiumsRecorded == SystemSpec => []PremiumsAreContributions
BY SystemBooksAlways, PTL DEF SystemBooks

\* Every premium is distributed, and as long as nothing was paid out no mix of
\* premiums, distributions, deposits and withdrawals credits more yield than
\* was distributed.
THEOREM PremiumsShared == SystemSpec => []PremiumsSharedOnce
BY SystemBooksAlways, PTL DEF SystemBooks, PremiumsSharedOnce
=============================================================================
