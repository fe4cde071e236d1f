--------------------------- MODULE RiskPoolProofs ---------------------------
(***************************************************************************)
(* Theorems about the risk pool, for every set of providers, all amounts   *)
(* and all reserve ratios: its storage keeps its type, so no subtraction   *)
(* goes below zero, its two records of who is a provider agree, and the    *)
(* totals it keeps are those of its positions.                             *)
(***************************************************************************)
EXTENDS RiskPool, Arithmetic

\* A transfer the payer can afford keeps all balances natural numbers.
LEMMA TransferredType ==
  ASSUME NEW A, NEW balances \in [A -> Nat], NEW from \in A, NEW to \in A,
         NEW amt \in Nat, CanPay(balances, from, amt)
  PROVE  Transferred(balances, from, to, amt) \in [A -> Nat]
BY DEF CanPay, Transferred

\* Writing an entry of a map adds its key and nothing else.
LEMMA PutType ==
  ASSUME NEW S, NEW T, NEW f \in [S -> T], NEW k, NEW v \in T
  PROVE  Put(f, k, v) \in [S \cup {k} -> T]
BY DEF Put

\* add_liquidity reads an absent position as an empty one: both are typed.
LEMMA PositionOfType ==
  ASSUME NEW pl, IsPool(pl), NEW q
  PROVE  PositionOf(pl, q) \in Position
BY DEF IsPool, PositionOf, Position

\* Floor division of natural numbers stays in them.
LEMMA QuotientType == \A x \in Nat, z \in Nat \ {0} : x \div z \in Nat
OBVIOUS

\* The liquidity held back is a natural number.
LEMMA ReserveType ==
  ASSUME NEW pl, IsPool(pl)
  PROVE  Reserve(pl) \in Nat
<1>1. pl.total_liquidity \in Nat /\ pl.reserve_ratio \in Nat /\ BPS \in Nat \ {0}
  BY PoolAssumption DEF IsPool
<1>2. pl.total_liquidity * pl.reserve_ratio \in Nat
  BY <1>1
<1> QED
  BY <1>1, <1>2, QuotientType DEF Reserve

\* A storage record is a pool's when each of its fields is.
LEMMA PoolOfFields ==
  ASSUME NEW P, NEW R \in SUBSET Providers, NEW L \in Nat, NEW Y \in Nat,
         NEW ratio \in 0..BPS, NEW C \in Nat,
         DOMAIN P \subseteq Providers, P \in [DOMAIN P -> Position]
  PROVE  IsPool([positions |-> P, providers |-> R, total_liquidity |-> L,
                 total_yield_distributed |-> Y, reserve_ratio |-> ratio,
                 yield_claimed |-> C])
BY DEF IsPool

\* And conversely.
LEMMA FieldsOf ==
  ASSUME NEW pl, IsPool(pl)
  PROVE  /\ pl.providers \in SUBSET Providers
         /\ pl.total_liquidity \in Nat
         /\ pl.total_yield_distributed \in Nat
         /\ pl.reserve_ratio \in 0..BPS
         /\ pl.yield_claimed \in Nat
         /\ DOMAIN pl.positions \subseteq Providers
         /\ pl.positions \in [DOMAIN pl.positions -> Position]
         /\ pl = [positions |-> pl.positions, providers |-> pl.providers,
                  total_liquidity |-> pl.total_liquidity,
                  total_yield_distributed |-> pl.total_yield_distributed,
                  reserve_ratio |-> pl.reserve_ratio,
                  yield_claimed |-> pl.yield_claimed]
BY DEF IsPool

\* add_liquidity keeps the pool's type and registers the provider.
LEMMA DepositedType ==
  ASSUME NEW pl, IsPool(pl), NEW q \in Providers, NEW amt \in Nat
  PROVE  /\ IsPool(Deposited(pl, q, amt))
         /\ DOMAIN Deposited(pl, q, amt).positions = DOMAIN pl.positions \cup {q}
         /\ Deposited(pl, q, amt).providers = pl.providers \cup {q}
<1> DEFINE new == [PositionOf(pl, q) EXCEPT !.contribution = @ + amt]
           P == Put(pl.positions, q, new)
<1>1. new \in Position
  BY PositionOfType DEF Position
<1> HIDE DEF new
<1>2. P \in [DOMAIN pl.positions \cup {q} -> Position]
  BY <1>1, PutType, FieldsOf
<1>3. Deposited(pl, q, amt) =
        [pl EXCEPT !.positions = P, !.providers = pl.providers \cup {q},
                   !.total_liquidity = pl.total_liquidity + amt]
  BY FieldsOf DEF Deposited, new
<1> HIDE DEF P
<1>4. Deposited(pl, q, amt) =
        [positions |-> P, providers |-> pl.providers \cup {q},
         total_liquidity |-> pl.total_liquidity + amt,
         total_yield_distributed |-> pl.total_yield_distributed,
         reserve_ratio |-> pl.reserve_ratio,
         yield_claimed |-> pl.yield_claimed]
  BY <1>3, FieldsOf
<1>5. DOMAIN P = DOMAIN pl.positions \cup {q}
  BY <1>2
<1>6. /\ pl.providers \cup {q} \in SUBSET Providers
      /\ DOMAIN P \subseteq Providers
      /\ P \in [DOMAIN P -> Position]
      /\ pl.total_liquidity + amt \in Nat
  BY <1>2, <1>5, FieldsOf
<1> QED
  BY <1>4, <1>5, <1>6, FieldsOf, PoolOfFields

\* withdraw_liquidity keeps the pool's type: the withdrawal is covered both
\* by the provider's contribution and by the liquidity, so neither goes
\* below zero; and a provider leaves the list with its entry.
LEMMA WithdrawnType ==
  ASSUME NEW pl, IsPool(pl), NEW q \in Providers, NEW amt \in Nat,
         CanWithdraw(pl, q, amt)
  PROVE  /\ IsPool(Withdrawn(pl, q, amt))
         /\ pl.providers = DOMAIN pl.positions =>
              Withdrawn(pl, q, amt).providers
                = DOMAIN Withdrawn(pl, q, amt).positions
<1> DEFINE left == [pl.positions[q] EXCEPT !.contribution = @ - amt]
           gone == Leaves(left)
           P == IF gone
                THEN [r \in DOMAIN pl.positions \ {q} |-> pl.positions[r]]
                ELSE [pl.positions EXCEPT ![q] = left]
           R == Unregistered(pl.providers, gone, q)
<1>1. q \in DOMAIN pl.positions /\ amt <= pl.positions[q].contribution
  BY DEF CanWithdraw
<1>2. left \in Position
  BY <1>1, FieldsOf DEF Position
<1>3. amt <= pl.total_liquidity
  BY FieldsOf, ReserveType DEF CanWithdraw
<1>4. Withdrawn(pl, q, amt) =
        [pl EXCEPT !.positions = P, !.providers = R,
                   !.total_liquidity = pl.total_liquidity - amt]
  BY FieldsOf DEF Withdrawn
<1> HIDE DEF left, gone
<1>5. /\ DOMAIN P = IF gone THEN DOMAIN pl.positions \ {q} ELSE DOMAIN pl.positions
      /\ P \in [DOMAIN P -> Position]
  BY <1>1, <1>2, FieldsOf
<1>6. pl.providers = DOMAIN pl.positions => R = DOMAIN P
  BY <1>5 DEF Unregistered
<1>7. R \in SUBSET Providers /\ DOMAIN P \subseteq Providers
  BY <1>5, FieldsOf DEF Unregistered
<1> HIDE DEF P, R
<1>8. Withdrawn(pl, q, amt) =
        [positions |-> P, providers |-> R,
         total_liquidity |-> pl.total_liquidity - amt,
         total_yield_distributed |-> pl.total_yield_distributed,
         reserve_ratio |-> pl.reserve_ratio,
         yield_claimed |-> pl.yield_claimed]
  BY <1>4, FieldsOf
<1>9. pl.total_liquidity - amt \in Nat
  BY <1>3, FieldsOf
<1> QED
  BY <1>5, <1>6, <1>7, <1>8, <1>9, FieldsOf, PoolOfFields

\* A share of a distribution is a natural number.
LEMMA ShareType ==
  ASSUME NEW pl, IsPool(pl), NEW q \in DOMAIN pl.positions, NEW amt \in Nat,
         pl.total_liquidity > 0
  PROVE  Share(pl, q, amt) \in Nat
<1>1. pl.positions[q].contribution \in Nat /\ pl.total_liquidity \in Nat \ {0}
  BY DEF IsPool, Position
<1> QED
  BY <1>1, QuotientType DEF Share

\* distribute_yield keeps the pool's type and the registrations.
LEMMA DistributedType ==
  ASSUME NEW pl, IsPool(pl), NEW amt \in Nat, CanDistribute(pl, amt)
  PROVE  /\ IsPool(Distributed(pl, amt))
         /\ DOMAIN Distributed(pl, amt).positions = DOMAIN pl.positions
         /\ Distributed(pl, amt).providers = pl.providers
<1> DEFINE P == [q \in DOMAIN pl.positions |->
                   IF q \in pl.providers
                   THEN Credited(pl, q, amt) ELSE pl.positions[q]]
<1>1. pl.total_liquidity > 0
  BY DEF CanDistribute
<1>2. P \in [DOMAIN pl.positions -> Position]
  BY <1>1, ShareType, FieldsOf DEF Position, Credited
<1>3. Distributed(pl, amt) =
        [pl EXCEPT !.positions = P,
                   !.total_yield_distributed = pl.total_yield_distributed + amt]
  BY FieldsOf DEF Distributed
<1> HIDE DEF P
<1>4. Distributed(pl, amt) =
        [positions |-> P, providers |-> pl.providers,
         total_liquidity |-> pl.total_liquidity,
         total_yield_distributed |-> pl.total_yield_distributed + amt,
         reserve_ratio |-> pl.reserve_ratio,
         yield_claimed |-> pl.yield_claimed]
  BY <1>3, FieldsOf
<1>5. DOMAIN P = DOMAIN pl.positions
  BY <1>2
<1>6. pl.total_yield_distributed + amt \in Nat
  BY FieldsOf
<1> QED
  BY <1>2, <1>4, <1>5, <1>6, FieldsOf, PoolOfFields

\* claim_yield keeps the pool's type and the registrations.
LEMMA YieldTakenType ==
  ASSUME NEW pl, IsPool(pl), NEW q \in DOMAIN pl.positions
  PROVE  /\ IsPool(YieldTaken(pl, q))
         /\ DOMAIN YieldTaken(pl, q).positions = DOMAIN pl.positions
         /\ YieldTaken(pl, q).providers = pl.providers
<1> DEFINE P == [pl.positions EXCEPT ![q].accrued_yield = 0]
           Y == pl.yield_claimed + pl.positions[q].accrued_yield
<1>1. P \in [DOMAIN pl.positions -> Position]
  BY FieldsOf DEF Position
<1>2. pl.positions[q].accrued_yield \in Nat
  BY FieldsOf DEF Position
<1>3. YieldTaken(pl, q) = [pl EXCEPT !.positions = P, !.yield_claimed = Y]
  BY FieldsOf DEF YieldTaken
<1> HIDE DEF P, Y
<1>4. YieldTaken(pl, q) =
        [positions |-> P, providers |-> pl.providers,
         total_liquidity |-> pl.total_liquidity,
         total_yield_distributed |-> pl.total_yield_distributed,
         reserve_ratio |-> pl.reserve_ratio,
         yield_claimed |-> Y]
  <2>1. pl = [positions |-> pl.positions, providers |-> pl.providers,
              total_liquidity |-> pl.total_liquidity,
              total_yield_distributed |-> pl.total_yield_distributed,
              reserve_ratio |-> pl.reserve_ratio,
              yield_claimed |-> pl.yield_claimed]
    BY FieldsOf
  <2> QED
    BY <1>3, <2>1
<1>5. DOMAIN P = DOMAIN pl.positions
  BY <1>1
<1>6. Y \in Nat
  BY <1>2, FieldsOf DEF Y
<1> QED
  BY <1>1, <1>4, <1>5, <1>6, FieldsOf, PoolOfFields

\* fund_payout keeps the pool's type: the payout fits the liquidity.
LEMMA FundedType ==
  ASSUME NEW pl, IsPool(pl), NEW amt \in Nat, amt <= pl.total_liquidity
  PROVE  /\ IsPool(Funded(pl, amt))
         /\ Funded(pl, amt).positions = pl.positions
         /\ Funded(pl, amt).providers = pl.providers
BY DEF IsPool, Funded

-----------------------------------------------------------------------------

\* The deployed pool is typed.
LEMMA PoolInitType == PoolInit => PoolTypeOK
<1>1. BPS \div 5 \in 0..BPS
  BY PoolAssumption
<1>2. EmptyPool.positions \in [DOMAIN EmptyPool.positions -> Position]
  BY DEF EmptyPool
<1> QED
  BY <1>1, <1>2, PoolAssumption DEF PoolInit, PoolTypeOK, EmptyPool, IsPool

\* Every entry point of the pool keeps its storage and the balances typed.
LEMMA PoolTypeStep == PoolTypeOK /\ [PoolNext]_poolVars => PoolTypeOK'
<1> SUFFICES ASSUME PoolTypeOK, [PoolNext]_poolVars PROVE PoolTypeOK'
  OBVIOUS
<1> USE DEF PoolTypeOK
<1>1. ASSUME NEW ratio \in Ratios, SetReserveRatio(ratio) PROVE PoolTypeOK'
  <2>1. ratio \in 0..BPS
    BY <1>1, PoolAssumption DEF SetReserveRatio
  <2> QED
    BY <1>1, <2>1 DEF SetReserveRatio, IsPool
<1>2. ASSUME NEW q \in Providers, NEW amt \in PoolAmounts, AddLiquidity(q, amt)
      PROVE  PoolTypeOK'
  BY <1>2, PoolAssumption, DepositedType DEF AddLiquidity
<1>3. ASSUME NEW q \in Providers, NEW amt \in PoolAmounts,
             WithdrawLiquidity(q, amt)
      PROVE  PoolTypeOK'
  BY <1>3, PoolAssumption, WithdrawnType DEF WithdrawLiquidity
<1>4. ASSUME NEW amt \in PoolAmounts, DistributeYield(amt) PROVE PoolTypeOK'
  BY <1>4, PoolAssumption, DistributedType DEF DistributeYield
<1>5. ASSUME NEW q \in Providers, ClaimYield(q) PROVE PoolTypeOK'
  BY <1>5, YieldTakenType DEF ClaimYield
<1>6. ASSUME NEW to \in Holders, NEW amt \in PoolAmounts, FundPayout(to, amt)
      PROVE  PoolTypeOK'
  BY <1>6, PoolAssumption, FundedType, TransferredType DEF FundPayout, CanFund
<1>7. CASE UNCHANGED poolVars
  BY <1>7 DEF poolVars
<1> QED
  BY <1>1, <1>2, <1>3, <1>4, <1>5, <1>6, <1>7 DEF PoolNext

\* The pool's storage and the balances keep their types under the pool's
\* own entry points.
THEOREM PoolTypeCorrect == PoolSpec => []PoolTypeOK
BY PoolInitType, PoolTypeStep, PTL DEF PoolSpec

\* Every entry point of the pool updates both records of who is a provider.
LEMMA RegistryStep ==
  PoolTypeOK /\ RegistryConsistent /\ [PoolNext]_poolVars => RegistryConsistent'
<1> SUFFICES ASSUME PoolTypeOK, RegistryConsistent, [PoolNext]_poolVars
             PROVE  RegistryConsistent'
  OBVIOUS
<1> USE DEF PoolTypeOK, RegistryConsistent
<1>1. ASSUME NEW ratio \in Ratios, SetReserveRatio(ratio)
      PROVE  RegistryConsistent'
  BY <1>1, FieldsOf DEF SetReserveRatio
<1>2. ASSUME NEW q \in Providers, NEW amt \in PoolAmounts, AddLiquidity(q, amt)
      PROVE  RegistryConsistent'
  <2>1. amt \in Nat /\ IsPool(pool)
    BY PoolAssumption
  <2>2. pool' = Deposited(pool, q, amt)
    BY <1>2 DEF AddLiquidity
  <2>3. /\ DOMAIN pool'.positions = DOMAIN pool.positions \cup {q}
        /\ pool'.providers = pool.providers \cup {q}
    BY <2>1, <2>2, DepositedType
  <2> QED
    BY <2>3
<1>3. ASSUME NEW q \in Providers, NEW amt \in PoolAmounts,
             WithdrawLiquidity(q, amt)
      PROVE  RegistryConsistent'
  BY <1>3, PoolAssumption, WithdrawnType DEF WithdrawLiquidity
<1>4. ASSUME NEW amt \in PoolAmounts, DistributeYield(amt)
      PROVE  RegistryConsistent'
  BY <1>4, PoolAssumption, DistributedType DEF DistributeYield
<1>5. ASSUME NEW q \in Providers, ClaimYield(q) PROVE RegistryConsistent'
  BY <1>5, YieldTakenType DEF ClaimYield
<1>6. ASSUME NEW to \in Holders, NEW amt \in PoolAmounts, FundPayout(to, amt)
      PROVE  RegistryConsistent'
  BY <1>6, PoolAssumption, FundedType DEF FundPayout, CanFund
<1>7. CASE UNCHANGED poolVars
  BY <1>7 DEF poolVars
<1> QED
  BY <1>1, <1>2, <1>3, <1>4, <1>5, <1>6, <1>7 DEF PoolNext

\* The two records of who is a provider agree under the pool's own entry
\* points, so that distribute_yield never misses a provider.
THEOREM RegistryCorrect == PoolSpec => []RegistryConsistent
<1>1. PoolInit => RegistryConsistent
  BY DEF PoolInit, RegistryConsistent, EmptyPool
<1> QED
  BY <1>1, RegistryStep, PoolTypeCorrect, PTL DEF PoolSpec

-----------------------------------------------------------------------------
(* What a provider holds.                                                  *)

\* Changing the position of one provider leaves how any other's is read.
LEMMA DepositedApart ==
  ASSUME NEW pl, IsPool(pl), NEW q, NEW amt, NEW r, r # q
  PROVE  /\ PositionOf(Deposited(pl, q, amt), r) = PositionOf(pl, r)
         /\ DOMAIN pl.positions \subseteq DOMAIN Deposited(pl, q, amt).positions
<1>1. Deposited(pl, q, amt).positions
        = Put(pl.positions, q, [PositionOf(pl, q) EXCEPT !.contribution = @ + amt])
  BY FieldsOf DEF Deposited
<1> QED
  BY <1>1 DEF PositionOf, Put

\* A withdrawal too, and a position that goes with it has no yield left.
LEMMA WithdrawnApart ==
  ASSUME NEW pl, IsPool(pl), NEW q \in DOMAIN pl.positions, NEW amt \in Nat, NEW r
  PROVE  /\ r # q => PositionOf(Withdrawn(pl, q, amt), r) = PositionOf(pl, r)
         /\ r \in DOMAIN pl.positions \ DOMAIN Withdrawn(pl, q, amt).positions
              => pl.positions[r].accrued_yield = 0
<1> DEFINE left == [pl.positions[q] EXCEPT !.contribution = @ - amt]
           gone == Leaves(left)
<1>1. Withdrawn(pl, q, amt).positions
        = IF gone THEN [x \in DOMAIN pl.positions \ {q} |-> pl.positions[x]]
                  ELSE [pl.positions EXCEPT ![q] = left]
  BY FieldsOf DEF Withdrawn
<1>2. gone => pl.positions[q].accrued_yield = 0
  BY FieldsOf DEF Leaves, Position
<1> HIDE DEF gone, left
<1> QED
  BY <1>1, <1>2, FieldsOf DEF PositionOf

\* Claiming yield too.
LEMMA YieldTakenApart ==
  ASSUME NEW pl, IsPool(pl), NEW q \in DOMAIN pl.positions, NEW r, r # q
  PROVE  PositionOf(YieldTaken(pl, q), r) = PositionOf(pl, r)
<1>1. YieldTaken(pl, q).positions = [pl.positions EXCEPT ![q].accrued_yield = 0]
  BY FieldsOf DEF YieldTaken
<1> QED
  BY <1>1, FieldsOf DEF PositionOf

\* A step of the pool that shares out no yield is about at most one provider,
\* and one that removes a position removes no yield with it.
LEMMA ApartStep ==
  ASSUME PoolTypeOK, PoolNext
  PROVE  /\ pool'.total_yield_distributed = pool.total_yield_distributed =>
              \E q : \A r : r # q => PositionOf(pool', r) = PositionOf(pool, r)
         /\ \A r \in DOMAIN pool.positions \ DOMAIN pool'.positions :
              pool.positions[r].accrued_yield = 0
<1> DEFINE Apart == \E q : \A r : r # q => PositionOf(pool', r) = PositionOf(pool, r)
           Kept == \A r \in DOMAIN pool.positions \ DOMAIN pool'.positions :
                     pool.positions[r].accrued_yield = 0
<1>0. IsPool(pool)
  BY DEF PoolTypeOK
<1>1. ASSUME NEW ratio \in Ratios, SetReserveRatio(ratio) PROVE Apart /\ Kept
  <2>1. pool'.positions = pool.positions
    BY <1>0, <1>1, FieldsOf DEF SetReserveRatio
  <2> QED
    BY <2>1 DEF PositionOf
<1>2. ASSUME NEW q \in Providers, NEW amt \in PoolAmounts, AddLiquidity(q, amt)
      PROVE  Apart /\ Kept
  <2>1. amt \in Nat /\ pool' = Deposited(pool, q, amt)
    BY <1>2, PoolAssumption DEF AddLiquidity
  <2>2. DOMAIN pool.positions \subseteq DOMAIN pool'.positions
    BY <1>0, <2>1, DepositedType
  <2> QED
    BY <1>0, <2>1, <2>2, DepositedApart
<1>3. ASSUME NEW q \in Providers, NEW amt \in PoolAmounts, WithdrawLiquidity(q, amt)
      PROVE  Apart /\ Kept
  <2>1. /\ amt \in Nat /\ q \in DOMAIN pool.positions
        /\ pool' = Withdrawn(pool, q, amt)
    BY <1>3, PoolAssumption DEF WithdrawLiquidity, CanWithdraw
  <2> QED
    BY <1>0, <2>1, WithdrawnApart
<1>4. ASSUME NEW amt \in PoolAmounts, DistributeYield(amt)
      PROVE  pool'.total_yield_distributed # pool.total_yield_distributed /\ Kept
  <2>1. /\ amt \in Nat /\ amt > 0 /\ CanDistribute(pool, amt)
        /\ pool' = Distributed(pool, amt)
    BY <1>4, PoolAssumption DEF DistributeYield, CanDistribute
  <2>2. pool'.total_yield_distributed = pool.total_yield_distributed + amt
    BY <1>0, <2>1, FieldsOf DEF Distributed
  <2>3. DOMAIN pool'.positions = DOMAIN pool.positions
    BY <1>0, <2>1, DistributedType
  <2> QED
    BY <1>0, <2>1, <2>2, <2>3, FieldsOf
<1>5. ASSUME NEW q \in Providers, ClaimYield(q) PROVE Apart /\ Kept
  <2>1. q \in DOMAIN pool.positions /\ pool' = YieldTaken(pool, q)
    BY <1>5 DEF ClaimYield
  <2>2. DOMAIN pool'.positions = DOMAIN pool.positions
    BY <1>0, <2>1, YieldTakenType
  <2> QED
    BY <1>0, <2>1, <2>2, YieldTakenApart
<1>6. ASSUME NEW to \in Holders, NEW amt \in PoolAmounts, FundPayout(to, amt)
      PROVE  Apart /\ Kept
  <2>1. pool'.positions = pool.positions
    BY <1>0, <1>6, PoolAssumption, FundedType DEF FundPayout, CanFund
  <2> QED
    BY <2>1 DEF PositionOf
<1> QED
  BY <1>1, <1>2, <1>3, <1>4, <1>5, <1>6 DEF PoolNext

\* No provider's call changes what another holds, and no position is dropped
\* with yield in it, for any number of providers.
THEOREM ProvidersCorrect == PoolSpec => ProvidersKeepTheirOwn
<1> DEFINE Independent ==
      pool'.total_yield_distributed = pool.total_yield_distributed =>
        \A q, r \in Providers :
          PositionOf(pool', q) # PositionOf(pool, q) /\ q # r =>
            PositionOf(pool', r) = PositionOf(pool, r)
    Unforfeited ==
      \A q \in DOMAIN pool.positions \ DOMAIN pool'.positions :
        pool.positions[q].accrued_yield = 0
<1>1. PoolTypeOK /\ [PoolNext]_poolVars => [Independent]_poolVars /\ [Unforfeited]_poolVars
  BY ApartStep
<1> QED
  BY <1>1, PoolTypeCorrect, PTL DEF PoolSpec, ProvidersKeepTheirOwn,
     PositionsAreIndependent, NoYieldForfeited

-----------------------------------------------------------------------------
(* What the positions add up to.                                           *)

\* What every provider has put in, and what each is owed.
ContributionIn(pl) == [q \in DOMAIN pl.positions |-> pl.positions[q].contribution]
YieldIn(pl) == [q \in DOMAIN pl.positions |-> pl.positions[q].accrued_yield]

\* The totals are their sums.
LEMMA TotalsIs ==
  ASSUME NEW pl
  PROVE  /\ Contributed(pl) = SumFunction(ContributionIn(pl))
         /\ Owed(pl) = SumFunction(YieldIn(pl))
BY DEF Contributed, Owed, ContributionIn, YieldIn

\* The totals of a typed pool are integers; they depend on the positions only.
LEMMA TotalsType ==
  ASSUME NEW pl, IsPool(pl), IsFiniteSet(DOMAIN pl.positions)
  PROVE  Contributed(pl) \in Int /\ Owed(pl) \in Int
<1>1. \A q \in DOMAIN pl.positions : pl.positions[q] \in Position
  BY FieldsOf
<1>2. /\ \A q \in DOMAIN ContributionIn(pl) : ContributionIn(pl)[q] \in Int
      /\ \A q \in DOMAIN YieldIn(pl) : YieldIn(pl)[q] \in Int
      /\ DOMAIN ContributionIn(pl) = DOMAIN pl.positions
      /\ DOMAIN YieldIn(pl) = DOMAIN pl.positions
  BY <1>1 DEF Position, ContributionIn, YieldIn
<1> QED
  BY <1>2, SumInt, TotalsIs DEF SumFunction

\* When one position changes, so do the totals, by as much.
LEMMA OnePositionChanged ==
  ASSUME NEW pl, IsPool(pl), IsFiniteSet(DOMAIN pl.positions),
         NEW to, IsPool(to), NEW q,
         DOMAIN to.positions \cup {q} = DOMAIN pl.positions \cup {q},
         \A r : r # q => PositionOf(to, r) = PositionOf(pl, r)
  PROVE  /\ IsFiniteSet(DOMAIN to.positions)
         /\ Contributed(to) = Contributed(pl) - PositionOf(pl, q).contribution
                                + PositionOf(to, q).contribution
         /\ Owed(to) = Owed(pl) - PositionOf(pl, q).accrued_yield
                                + PositionOf(to, q).accrued_yield
<1>1. /\ \A r \in DOMAIN pl.positions : pl.positions[r] \in Position
      /\ \A r \in DOMAIN to.positions : to.positions[r] \in Position
  BY FieldsOf
<1>2. \A r \in DOMAIN pl.positions \ {q} : to.positions[r] = pl.positions[r]
  BY DEF PositionOf
<1> DEFINE f == ContributionIn(pl)
           g == ContributionIn(to)
           a == YieldIn(pl)
           b == YieldIn(to)
<1>3. /\ DOMAIN f = DOMAIN pl.positions /\ DOMAIN a = DOMAIN pl.positions
      /\ DOMAIN g = DOMAIN to.positions /\ DOMAIN b = DOMAIN to.positions
      /\ \A r \in DOMAIN f : f[r] \in Int
      /\ \A r \in DOMAIN a : a[r] \in Int
      /\ \A r \in DOMAIN f \ {q} : g[r] = f[r]
      /\ \A r \in DOMAIN a \ {q} : b[r] = a[r]
  BY <1>1, <1>2 DEF Position, ContributionIn, YieldIn
<1>4. /\ ValueAt(f, q) = PositionOf(pl, q).contribution
      /\ ValueAt(g, q) = PositionOf(to, q).contribution
      /\ ValueAt(a, q) = PositionOf(pl, q).accrued_yield
      /\ ValueAt(b, q) = PositionOf(to, q).accrued_yield
  BY DEF ValueAt, PositionOf, ContributionIn, YieldIn
<1>5. ValueAt(g, q) \in Int /\ ValueAt(b, q) \in Int
  BY <1>4, PositionOfType DEF Position
<1> HIDE DEF f, g, a, b
<1>6. /\ IsFiniteSet(DOMAIN g)
      /\ SumFunction(g) = SumFunction(f) - ValueAt(f, q) + ValueAt(g, q)
  BY <1>3, <1>5, SumWritten
<1>7. SumFunction(b) = SumFunction(a) - ValueAt(a, q) + ValueAt(b, q)
  BY <1>3, <1>5, SumWritten
<1> QED
  BY <1>3, <1>4, <1>6, <1>7, TotalsIs DEF f, g, a, b

\* add_liquidity adds the amount to what was contributed.
LEMMA DepositedTotals ==
  ASSUME NEW pl, IsPool(pl), IsFiniteSet(DOMAIN pl.positions),
         NEW q \in Providers, NEW amt \in Nat
  PROVE  LET to == Deposited(pl, q, amt)
         IN  /\ IsFiniteSet(DOMAIN to.positions)
             /\ Contributed(to) = Contributed(pl) + amt
             /\ Owed(to) = Owed(pl)
             /\ to.total_liquidity = pl.total_liquidity + amt
             /\ to.total_yield_distributed = pl.total_yield_distributed
             /\ to.yield_claimed = pl.yield_claimed
             /\ PositionOf(to, q).contribution = PositionOf(pl, q).contribution + amt
<1> DEFINE to == Deposited(pl, q, amt)
           old == PositionOf(pl, q)
<1>1. old \in Position
  BY PositionOfType
<1>2. to.positions = Put(pl.positions, q, [old EXCEPT !.contribution = @ + amt])
  BY FieldsOf DEF Deposited
<1>3. PositionOf(to, q) = [old EXCEPT !.contribution = @ + amt]
  BY <1>2 DEF PositionOf, Put
<1>4. /\ to.total_liquidity = pl.total_liquidity + amt
      /\ to.total_yield_distributed = pl.total_yield_distributed
      /\ to.yield_claimed = pl.yield_claimed
  BY FieldsOf DEF Deposited
<1>5. /\ IsPool(to) /\ DOMAIN to.positions \cup {q} = DOMAIN pl.positions \cup {q}
      /\ \A r : r # q => PositionOf(to, r) = PositionOf(pl, r)
  BY DepositedType, DepositedApart
<1>6. Contributed(pl) \in Int /\ Owed(pl) \in Int
  BY TotalsType
<1> HIDE DEF to, old
<1>7. /\ IsFiniteSet(DOMAIN to.positions)
      /\ Contributed(to) = Contributed(pl) - old.contribution
                             + PositionOf(to, q).contribution
      /\ Owed(to) = Owed(pl) - old.accrued_yield + PositionOf(to, q).accrued_yield
  BY <1>5, OnePositionChanged DEF old
<1>8. /\ PositionOf(to, q).contribution = old.contribution + amt
      /\ PositionOf(to, q).accrued_yield = old.accrued_yield
      /\ old.contribution \in Nat /\ old.accrued_yield \in Nat
  BY <1>1, <1>3 DEF Position
<1> QED
  BY <1>4, <1>6, <1>7, <1>8 DEF to, old

\* withdraw_liquidity takes it out again, also when the position goes.
LEMMA WithdrawnTotals ==
  ASSUME NEW pl, IsPool(pl), IsFiniteSet(DOMAIN pl.positions),
         NEW q \in Providers, NEW amt \in Nat, CanWithdraw(pl, q, amt)
  PROVE  LET to == Withdrawn(pl, q, amt)
         IN  /\ IsFiniteSet(DOMAIN to.positions)
             /\ Contributed(to) = Contributed(pl) - amt
             /\ Owed(to) = Owed(pl)
             /\ to.total_liquidity = pl.total_liquidity - amt
             /\ to.total_yield_distributed = pl.total_yield_distributed
             /\ to.yield_claimed = pl.yield_claimed
<1> DEFINE to == Withdrawn(pl, q, amt)
           old == pl.positions[q]
           left == [old EXCEPT !.contribution = @ - amt]
           gone == Leaves(left)
<1>1. q \in DOMAIN pl.positions /\ old \in Position /\ amt <= old.contribution
  BY FieldsOf DEF CanWithdraw
<1>2. to.positions = IF gone
                     THEN [x \in DOMAIN pl.positions \ {q} |-> pl.positions[x]]
                     ELSE [pl.positions EXCEPT ![q] = left]
  BY FieldsOf DEF Withdrawn
<1>3. left = [contribution |-> old.contribution - amt,
              accrued_yield |-> old.accrued_yield]
  BY <1>1 DEF Position
<1> HIDE DEF left
<1>4. /\ PositionOf(to, q).contribution = old.contribution - amt
      /\ PositionOf(to, q).accrued_yield = old.accrued_yield
  <2> HIDE DEF to, old
  <2>1. CASE gone
    BY <1>1, <1>2, <1>3, <2>1 DEF PositionOf, Leaves
  <2>2. CASE ~ gone
    BY <1>1, <1>2, <1>3, <2>2 DEF PositionOf
  <2> QED
    BY <2>1, <2>2
<1>5. /\ to.total_liquidity = pl.total_liquidity - amt
      /\ to.total_yield_distributed = pl.total_yield_distributed
      /\ to.yield_claimed = pl.yield_claimed
  BY FieldsOf DEF Withdrawn
<1>6. DOMAIN to.positions \cup {q} = DOMAIN pl.positions \cup {q}
  <2> HIDE DEF gone, to
  <2> QED
    BY <1>2
<1>7. IsPool(to) /\ \A r : r # q => PositionOf(to, r) = PositionOf(pl, r)
  BY <1>1, WithdrawnType, WithdrawnApart
<1>8. Contributed(pl) \in Int /\ Owed(pl) \in Int
  BY TotalsType
<1>9. PositionOf(pl, q) = old /\ old.contribution \in Nat /\ old.accrued_yield \in Nat
  BY <1>1 DEF PositionOf, Position
<1> HIDE DEF to, old
<1>10. /\ IsFiniteSet(DOMAIN to.positions)
       /\ Contributed(to) = Contributed(pl) - old.contribution
                              + PositionOf(to, q).contribution
       /\ Owed(to) = Owed(pl) - old.accrued_yield + PositionOf(to, q).accrued_yield
  BY <1>6, <1>7, <1>9, OnePositionChanged
<1> QED
  BY <1>4, <1>5, <1>8, <1>9, <1>10 DEF to

\* claim_yield moves what is owed to one provider to what was claimed.
LEMMA YieldTakenTotals ==
  ASSUME NEW pl, IsPool(pl), IsFiniteSet(DOMAIN pl.positions),
         NEW q \in DOMAIN pl.positions
  PROVE  LET to == YieldTaken(pl, q)
         IN  /\ IsFiniteSet(DOMAIN to.positions)
             /\ Contributed(to) = Contributed(pl)
             /\ Owed(to) + to.yield_claimed = Owed(pl) + pl.yield_claimed
             /\ to.total_liquidity = pl.total_liquidity
             /\ to.total_yield_distributed = pl.total_yield_distributed
<1> DEFINE to == YieldTaken(pl, q)
           old == pl.positions[q]
<1>1. old \in Position /\ PositionOf(pl, q) = old
  BY FieldsOf DEF PositionOf
<1>2. /\ to.positions = [pl.positions EXCEPT ![q].accrued_yield = 0]
      /\ to.total_liquidity = pl.total_liquidity
      /\ to.total_yield_distributed = pl.total_yield_distributed
      /\ to.yield_claimed = pl.yield_claimed + old.accrued_yield
  BY FieldsOf DEF YieldTaken
<1>3. PositionOf(to, q) = [old EXCEPT !.accrued_yield = 0]
  <2> HIDE DEF to
  <2> QED
    BY <1>2, FieldsOf DEF PositionOf
<1>4. /\ IsPool(to) /\ DOMAIN to.positions = DOMAIN pl.positions
      /\ \A r : r # q => PositionOf(to, r) = PositionOf(pl, r)
  BY YieldTakenType, YieldTakenApart
<1>5. Contributed(pl) \in Int /\ Owed(pl) \in Int /\ pl.yield_claimed \in Nat
  BY TotalsType, FieldsOf
<1> HIDE DEF to, old
<1>6. /\ IsFiniteSet(DOMAIN to.positions)
      /\ Contributed(to) = Contributed(pl) - old.contribution
                             + PositionOf(to, q).contribution
      /\ Owed(to) = Owed(pl) - old.accrued_yield + PositionOf(to, q).accrued_yield
  BY <1>1, <1>4, OnePositionChanged
<1>7. /\ PositionOf(to, q).contribution = old.contribution
      /\ PositionOf(to, q).accrued_yield = 0
      /\ old.contribution \in Nat /\ old.accrued_yield \in Nat
  BY <1>1, <1>3 DEF Position
<1> QED
  BY <1>2, <1>5, <1>6, <1>7 DEF to

\* distribute_yield leaves the contributions and, when the liquidity is
\* what was contributed, credits no more than the amount: each provider's
\* share is rounded down.
LEMMA DistributedTotals ==
  ASSUME NEW pl, IsPool(pl), IsFiniteSet(DOMAIN pl.positions),
         NEW amt \in Nat, CanDistribute(pl, amt)
  PROVE  LET to == Distributed(pl, amt)
         IN  /\ IsFiniteSet(DOMAIN to.positions)
             /\ Contributed(to) = Contributed(pl)
             /\ Contributed(pl) = pl.total_liquidity => Owed(to) <= Owed(pl) + amt
             /\ to.total_liquidity = pl.total_liquidity
             /\ to.total_yield_distributed = pl.total_yield_distributed + amt
             /\ to.yield_claimed = pl.yield_claimed
             /\ \A q : PositionOf(to, q).contribution = PositionOf(pl, q).contribution
<1> DEFINE to == Distributed(pl, amt)
           D == DOMAIN pl.positions
<1>1. /\ pl.total_liquidity \in Nat \ {0}
      /\ \A q \in D : pl.positions[q] \in Position
  BY FieldsOf DEF CanDistribute
<1>2. /\ to.positions = [q \in D |-> IF q \in pl.providers
                                     THEN Credited(pl, q, amt) ELSE pl.positions[q]]
      /\ to.total_liquidity = pl.total_liquidity
      /\ to.total_yield_distributed = pl.total_yield_distributed + amt
      /\ to.yield_claimed = pl.yield_claimed
  BY FieldsOf DEF Distributed
<1>3. DOMAIN to.positions = D
  BY DistributedType
<1>4. \A q \in D : Share(pl, q, amt) \in Nat
  BY <1>1, ShareType
<1>5. ASSUME NEW q \in D
      PROVE  /\ to.positions[q].contribution = pl.positions[q].contribution
             /\ to.positions[q].accrued_yield <= pl.positions[q].accrued_yield + Share(pl, q, amt)
             /\ to.positions[q].accrued_yield \in Int
  <2> HIDE DEF to
  <2> QED
    BY <1>1, <1>2, <1>4 DEF Credited, Position
<1> HIDE DEF to
<1>6. Contributed(to) = Contributed(pl)
  <2>1. ContributionIn(to) = ContributionIn(pl)
    BY <1>3, <1>5 DEF ContributionIn
  <2> QED
    BY <2>1, TotalsIs
<1>7. ASSUME Contributed(pl) = pl.total_liquidity PROVE Owed(to) <= Owed(pl) + amt
  <2> DEFINE L == pl.total_liquidity
             c == ContributionIn(pl)
             y == YieldIn(pl)
             s == [q \in D |-> Share(pl, q, amt)]
             u == [q \in D |-> y[q] + s[q]]
             z == YieldIn(to)
  <2>1. /\ \A q \in D : /\ c[q] \in Nat /\ y[q] \in Nat /\ s[q] \in Nat
                        /\ u[q] = y[q] + s[q] /\ z[q] \in Int /\ z[q] <= u[q]
        /\ DOMAIN c = D /\ DOMAIN y = D /\ DOMAIN z = D
    BY <1>1, <1>3, <1>4, <1>5 DEF ContributionIn, YieldIn, Position
  <2>2. ASSUME NEW q \in D PROVE L * s[q] <= amt * c[q]
    <3>1. s[q] = (amt * c[q]) \div L
      BY DEF Share, ContributionIn
    <3>2. c[q] \in Nat /\ s[q] \in Nat /\ L \in Nat \ {0}
      BY <1>1, <2>1
    <3> HIDE DEF L, s, c
    <3>3. amt * c[q] \in Nat
      BY <3>2
    <3>4. s[q] * L <= amt * c[q]
      BY <3>1, <3>2, <3>3, DivisionBounds
    <3>5. s[q] * L = L * s[q]
      BY <3>2
    <3> QED
      BY <3>4, <3>5
  <2>3. L \in Nat \ {0} /\ SumFunctionOnSet(c, D) = L
    BY <1>1, <1>7, <2>1, TotalsIs DEF SumFunction
  <2>4. /\ Owed(pl) = SumFunctionOnSet(y, D)
        /\ Owed(to) = SumFunctionOnSet(z, D)
    BY <2>1, TotalsIs DEF SumFunction
  <2> HIDE DEF L, c, y, s, u, z, D
  <2>5. \A q \in D : s[q] \in Int /\ c[q] \in Int /\ L * s[q] <= amt * c[q]
    BY <2>1, <2>2
  <2>6. L * SumFunctionOnSet(s, D) <= amt * SumFunctionOnSet(c, D)
    BY <2>3, <2>5, SumScaled DEF D
  <2>7. SumFunctionOnSet(s, D) \in Int /\ SumFunctionOnSet(y, D) \in Int
    BY <2>1, SumInt DEF D
  <2>8. SumFunctionOnSet(s, D) <= amt
    <3>1. \A i \in Int : L * i <= amt * L => i <= amt
      <4> SUFFICES ASSUME NEW i \in Int, L * i <= amt * L, amt + 1 <= i PROVE FALSE
        BY <2>3
      <4>1. PICK e \in Nat : i = amt + 1 + e
        <5>1. i - (amt + 1) \in Nat /\ i = amt + 1 + (i - (amt + 1))
          OBVIOUS
        <5> QED
          BY <5>1
      <4>2. L * i = amt * L + L + L * e /\ L * e \in Nat /\ amt * L \in Nat
        BY <2>3, <4>1
      <4> QED
        BY <2>3, <4>2
    <3> QED
      BY <2>3, <2>6, <2>7, <3>1
  <2>9. SumFunctionOnSet(u, D) = SumFunctionOnSet(y, D) + SumFunctionOnSet(s, D)
    <3>1. \A q \in D : y[q] \in Int /\ s[q] \in Int /\ u[q] = y[q] + s[q]
      BY <2>1
    <3> QED
      BY <3>1, SumAdded DEF D
  <2>10. SumFunctionOnSet(z, D) <= SumFunctionOnSet(u, D)
    <3>1. \A q \in D : z[q] \in Int /\ u[q] \in Int /\ z[q] <= u[q]
      BY <2>1
    <3> QED
      BY <3>1, SumOrdered DEF D
  <2>11. SumFunctionOnSet(z, D) \in Int
    BY <2>1, SumInt DEF D
  <2> QED
    BY <2>4, <2>7, <2>8, <2>9, <2>10, <2>11
<1>8. \A q : PositionOf(to, q).contribution = PositionOf(pl, q).contribution
  BY <1>3, <1>5 DEF PositionOf
<1> QED
  BY <1>2, <1>3, <1>6, <1>7, <1>8 DEF to

\* fund_payout takes from the liquidity only.
LEMMA FundedTotals ==
  ASSUME NEW pl, IsPool(pl), NEW amt \in Nat
  PROVE  LET to == Funded(pl, amt)
         IN  /\ to.positions = pl.positions
             /\ Contributed(to) = Contributed(pl)
             /\ Owed(to) = Owed(pl)
             /\ to.total_liquidity = pl.total_liquidity - amt
             /\ to.total_yield_distributed = pl.total_yield_distributed
             /\ to.yield_claimed = pl.yield_claimed
<1> DEFINE to == Funded(pl, amt)
<1>1. /\ to.positions = pl.positions
      /\ to.total_liquidity = pl.total_liquidity - amt
      /\ to.total_yield_distributed = pl.total_yield_distributed
      /\ to.yield_claimed = pl.yield_claimed
  BY FieldsOf DEF Funded
<1> HIDE DEF to
<1>2. Contributed(to) = Contributed(pl) /\ Owed(to) = Owed(pl)
  BY <1>1 DEF Contributed, Owed
<1> QED
  BY <1>1, <1>2 DEF to

\* A pool with no position has nothing contributed and owes nothing.
LEMMA EmptyTotals ==
  /\ EmptyPool.positions = [q \in {} |-> [contribution |-> 0, accrued_yield |-> 0]]
  /\ IsFiniteSet(DOMAIN EmptyPool.positions)
  /\ Contributed(EmptyPool) = 0 /\ Owed(EmptyPool) = 0
  /\ EmptyPool.total_liquidity = 0 /\ EmptyPool.total_yield_distributed = 0
  /\ EmptyPool.yield_claimed = 0
<1>1. /\ DOMAIN EmptyPool.positions = {}
      /\ EmptyPool.total_liquidity = 0 /\ EmptyPool.total_yield_distributed = 0
      /\ EmptyPool.yield_claimed = 0
      /\ EmptyPool.positions = [q \in {} |-> [contribution |-> 0, accrued_yield |-> 0]]
  BY DEF EmptyPool
<1>2. DOMAIN ContributionIn(EmptyPool) = {} /\ DOMAIN YieldIn(EmptyPool) = {}
  BY <1>1 DEF ContributionIn, YieldIn
<1> QED
  BY <1>1, <1>2, TotalsIs, SumEmpty, FS_EmptySet DEF SumFunction

\* The inductive invariant of the pool's books: besides what the two
\* properties say, there are finitely many positions, and the pool's
\* account holds no more than it was deployed with, since only a payout
\* moves tokens.
PoolBooks ==
  /\ IsFiniteSet(DOMAIN pool.positions)
  /\ token[PoolAddr] <= Seed[PoolAddr]
  /\ LiquidityIsContributionsLessPayouts
  /\ YieldNotOverAllocated

\* Every entry point of the pool keeps the books.
LEMMA BooksStep == PoolTypeOK /\ PoolBooks /\ [PoolNext]_poolVars => PoolBooks'
<1> SUFFICES ASSUME PoolTypeOK, PoolBooks, [PoolNext]_poolVars PROVE PoolBooks'
  OBVIOUS
<1> DEFINE L == pool.total_liquidity
           Y == pool.total_yield_distributed
           C == pool.yield_claimed
           S == Seed[PoolAddr]
           T == token[PoolAddr]
<1>1. /\ IsPool(pool) /\ IsFiniteSet(DOMAIN pool.positions)
      /\ L \in Nat /\ Y \in Nat /\ C \in Nat /\ S \in Nat /\ T \in Nat
      /\ Contributed(pool) \in Int /\ Owed(pool) \in Int
  BY FieldsOf, TotalsType, PoolAssumption DEF PoolTypeOK, PoolBooks
<1>2. /\ T <= S
      /\ Contributed(pool) = L + (S - T)
      /\ T = S => Owed(pool) + C <= Y
  BY DEF PoolBooks, LiquidityIsContributionsLessPayouts, Contributions,
     YieldNotOverAllocated, Accrued
<1>3. SUFFICES /\ IsFiniteSet(DOMAIN pool'.positions)
               /\ token'[PoolAddr] <= S
               /\ Contributed(pool') = pool'.total_liquidity + (S - token'[PoolAddr])
               /\ token'[PoolAddr] = S =>
                    Owed(pool') + pool'.yield_claimed <= pool'.total_yield_distributed
  BY DEF PoolBooks, LiquidityIsContributionsLessPayouts, Contributions,
     YieldNotOverAllocated, Accrued, Contributed, Owed
<1> HIDE DEF L, Y, C, S, T
<1> DEFINE Kept == /\ IsFiniteSet(DOMAIN pool'.positions)
                   /\ token'[PoolAddr] <= S
                   /\ Contributed(pool') = pool'.total_liquidity + (S - token'[PoolAddr])
                   /\ token'[PoolAddr] = S =>
                        Owed(pool') + pool'.yield_claimed <= pool'.total_yield_distributed
<1>4. CASE token' = token /\ pool'.positions = pool.positions
           /\ pool'.total_liquidity = L /\ pool'.total_yield_distributed = Y
           /\ pool'.yield_claimed = C
  <2>1. Contributed(pool') = Contributed(pool) /\ Owed(pool') = Owed(pool)
    BY <1>4 DEF Contributed, Owed
  <2> QED
    BY <1>1, <1>2, <1>4, <2>1 DEF T
<1>5. ASSUME NEW ratio \in Ratios, SetReserveRatio(ratio) PROVE Kept
  BY <1>1, <1>4, <1>5, FieldsOf DEF SetReserveRatio, L, Y, C
<1>6. ASSUME NEW q \in Providers, NEW amt \in PoolAmounts, AddLiquidity(q, amt)
      PROVE  Kept
  <2>1. amt \in Nat /\ pool' = Deposited(pool, q, amt) /\ token'[PoolAddr] = T
    BY <1>6, PoolAssumption DEF AddLiquidity, T
  <2>2. /\ IsFiniteSet(DOMAIN pool'.positions)
        /\ Contributed(pool') = Contributed(pool) + amt /\ Owed(pool') = Owed(pool)
        /\ pool'.total_liquidity = L + amt
        /\ pool'.total_yield_distributed = Y /\ pool'.yield_claimed = C
    BY <1>1, <2>1, DepositedTotals DEF L, Y, C
  <2> QED
    BY <1>1, <1>2, <2>1, <2>2
<1>7. ASSUME NEW q \in Providers, NEW amt \in PoolAmounts, WithdrawLiquidity(q, amt)
      PROVE  Kept
  <2>1. /\ amt \in Nat /\ CanWithdraw(pool, q, amt) /\ pool' = Withdrawn(pool, q, amt)
        /\ token'[PoolAddr] = T
    BY <1>7, PoolAssumption DEF WithdrawLiquidity, T
  <2>2. /\ IsFiniteSet(DOMAIN pool'.positions)
        /\ Contributed(pool') = Contributed(pool) - amt /\ Owed(pool') = Owed(pool)
        /\ pool'.total_liquidity = L - amt
        /\ pool'.total_yield_distributed = Y /\ pool'.yield_claimed = C
    BY <1>1, <2>1, WithdrawnTotals DEF L, Y, C
  <2> QED
    BY <1>1, <1>2, <2>1, <2>2
<1>8. ASSUME NEW amt \in PoolAmounts, DistributeYield(amt) PROVE Kept
  <2>1. /\ amt \in Nat /\ CanDistribute(pool, amt) /\ pool' = Distributed(pool, amt)
        /\ token'[PoolAddr] = T
    BY <1>8, PoolAssumption DEF DistributeYield, T
  <2>2. /\ IsFiniteSet(DOMAIN pool'.positions)
        /\ Contributed(pool') = Contributed(pool)
        /\ Contributed(pool) = L => Owed(pool') <= Owed(pool) + amt
        /\ pool'.total_liquidity = L
        /\ pool'.total_yield_distributed = Y + amt /\ pool'.yield_claimed = C
    BY <1>1, <2>1, DistributedTotals DEF L, Y, C
  <2>3. IsPool(pool')
    BY <1>1, <2>1, DistributedType
  <2>4. Owed(pool') \in Int
    BY <2>2, <2>3, TotalsType
  <2> QED
    BY <1>1, <1>2, <2>1, <2>2, <2>4
<1>9. ASSUME NEW q \in Providers, ClaimYield(q) PROVE Kept
  <2>1. /\ q \in DOMAIN pool.positions /\ pool' = YieldTaken(pool, q)
        /\ token'[PoolAddr] = T
    BY <1>9 DEF ClaimYield, T
  <2>2. /\ IsFiniteSet(DOMAIN pool'.positions)
        /\ Contributed(pool') = Contributed(pool)
        /\ Owed(pool') + pool'.yield_claimed = Owed(pool) + C
        /\ pool'.total_liquidity = L /\ pool'.total_yield_distributed = Y
    BY <1>1, <2>1, YieldTakenTotals DEF L, Y, C
  <2> QED
    BY <1>1, <1>2, <2>1, <2>2
<1>10. ASSUME NEW to \in Holders, NEW amt \in PoolAmounts, FundPayout(to, amt)
       PROVE  Kept
  <2>1. /\ amt \in Nat /\ amt > 0 /\ pool' = Funded(pool, amt)
        /\ token'[PoolAddr] = T - amt
    BY <1>10, PoolAssumption DEF FundPayout, CanFund, Transferred, T, PoolTypeOK
  <2>2. /\ pool'.positions = pool.positions
        /\ Contributed(pool') = Contributed(pool)
        /\ pool'.total_liquidity = L - amt
    BY <1>1, <2>1, FundedTotals DEF L
  <2> QED
    BY <1>1, <1>2, <2>1, <2>2
<1>11. CASE UNCHANGED poolVars
  BY <1>4, <1>11 DEF poolVars, L, Y, C
<1> QED
  BY <1>5, <1>6, <1>7, <1>8, <1>9, <1>10, <1>11 DEF PoolNext

\* The books balance from the pool's deployment on.
LEMMA BooksAlways == PoolSpec => []PoolBooks
<1>1. PoolInit => PoolBooks
  <2> SUFFICES ASSUME PoolInit PROVE PoolBooks
    OBVIOUS
  <2>1. pool = EmptyPool /\ token[PoolAddr] = Seed[PoolAddr] /\ Seed[PoolAddr] \in Nat
    BY PoolAssumption DEF PoolInit
  <2> QED
    BY <2>1, EmptyTotals DEF PoolBooks, LiquidityIsContributionsLessPayouts,
       Contributions, YieldNotOverAllocated, Accrued
<1> QED
  BY <1>1, BooksStep, PoolTypeCorrect, PTL DEF PoolSpec

\* However many providers deposit and withdraw, the liquidity kept in one
\* number is the sum of their contributions less what was paid out.
THEOREM LiquidityCorrect == PoolSpec => []LiquidityIsContributionsLessPayouts
BY BooksAlways, PTL DEF PoolBooks

\* Whatever the contributions, no distribution rounds its shares up to more
\* than it distributes: as long as nothing was paid out, the yield owed and
\* claimed stays within what was distributed.
THEOREM YieldCorrect == PoolSpec => []YieldNotOverAllocated
BY BooksAlways, PTL DEF PoolBooks
=============================================================================
