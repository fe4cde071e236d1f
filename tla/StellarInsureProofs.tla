------------------------ MODULE StellarInsureProofs ------------------------
(***************************************************************************)
(* Theorems about the insurance contract, for every set of policyholders,  *)
(* admins and accounts, all amounts, durations and caps, any number of     *)
(* policies and every table of rates.                                      *)
(***************************************************************************)
EXTENDS StellarInsure, RiskPoolProofs

-----------------------------------------------------------------------------
(* Types.                                                                  *)

\* A product of natural numbers, divided, is one.
LEMMA ProductQuotientType ==
  \A x, y \in Nat, z \in Nat \ {0} : (x * y) \div z \in Nat
<1>1. \A x, y \in Nat : x * y \in Nat
  OBVIOUS
<1> QED
  BY <1>1, QuotientType

\* calculate_premium returns an amount, for any inputs it accepts.
LEMMA PremiumType ==
  ASSUME NEW type \in PolicyTypes, NEW coverage \in Nat, NEW duration \in Nat
  PROVE  CalculatePremium(type, coverage, duration) \in Nat
<1>1. AnnualBase(type, coverage) \in Nat
  BY ProductQuotientType, PremiumAssumption DEF AnnualBase
<1>2. DurationAdjusted(type, coverage, duration) \in Nat
  BY <1>1, ProductQuotientType, PremiumAssumption DEF DurationAdjusted
<1>3. CoverageFactor(coverage) \in Nat
  BY PremiumAssumption DEF CoverageFactor
<1>4. BPS_DENOM + CoverageFactor(coverage) \in Nat /\ BPS_DENOM \in Nat \ {0}
  BY <1>3, PremiumAssumption
<1>5. RawPremium(type, coverage, duration) \in Nat
  BY <1>2, <1>4, ProductQuotientType DEF RawPremium
<1> QED
  BY <1>5, PremiumAssumption DEF CalculatePremium

\* The edits that entry points make to a stored policy keep its type.
LEMMA PolicyEdits ==
  ASSUME NEW r \in Policy, NEW s \in PolicyStatus, NEW m \in Nat,
         NEW n \in Nat
  PROVE  /\ [r EXCEPT !.status = s] \in Policy
         /\ \A h \in Holders : [r EXCEPT !.beneficiary = h] \in Policy
         /\ [r EXCEPT !.coverage_amount = n] \in Policy
         /\ [r EXCEPT !.end_time = n] \in Policy
         /\ [r EXCEPT !.claim_amount = n, !.status = s] \in Policy
         /\ [r EXCEPT !.status = s, !.claim_amount = n] \in Policy
         /\ [r EXCEPT !.premium = m, !.end_time = n, !.status = s] \in Policy
         /\ [r EXCEPT !.total_claimed = m, !.status = s, !.claim_amount = n]
              \in Policy
BY DEF Policy

\* Collecting a premium keeps the balances and the total typed.
LEMMA CollectType ==
  ASSUME TypeOK, NEW p \in DOMAIN policies, NEW dest \in Accounts,
         NEW amt \in Nat, Collect(p, dest, amt)
  PROVE  token' \in [Accounts -> Nat] /\ total_premium' \in Nat
<1>1. policies[p].policyholder \in Accounts
  BY PoolAssumption DEF TypeOK, Policy
<1>2. token \in [Accounts -> Nat] /\ total_premium \in Nat
  BY DEF TypeOK, PoolTypeOK
<1>3. /\ CanPay(token, policies[p].policyholder, amt)
      /\ token' = Transferred(token, policies[p].policyholder, dest, amt)
      /\ total_premium' = total_premium + amt
  BY DEF Collect
<1> QED
  BY <1>1, <1>2, <1>3, TransferredType

\* Both ways of paying a claim keep the pool and the balances typed.
LEMMA PaymentType ==
  ASSUME TypeOK, NEW p \in DOMAIN claims,
         PayFromContract(p) \/ PayFromPool(p)
  PROVE  PoolTypeOK'
<1>1. /\ policies[p].policyholder \in Accounts
      /\ claims[p].claim_amount \in Nat
      /\ Contract \in Accounts
  BY PoolAssumption, ContractAssumption DEF TypeOK, Policy, Claim
<1>2. CASE PayFromContract(p)
  BY <1>1, <1>2, TransferredType DEF PayFromContract, TypeOK, PoolTypeOK
<1>3. CASE PayFromPool(p)
  BY <1>1, <1>3, TransferredType, FundedType, PoolAssumption
     DEF PayFromPool, FundPayout, CanFund, TypeOK, PoolTypeOK
<1> QED
  BY <1>2, <1>3

\* Approving or rejecting a claim keeps policies, claims and totals typed.
LEMMA ApproveType ==
  ASSUME TypeOK, NEW p \in DOMAIN claims, Approve(p)
  PROVE  /\ policies' \in [0 .. policy_counter - 1 -> Policy]
         /\ claims' \in [DOMAIN claims -> Claim]
         /\ total_payouts' \in Nat /\ total_premium' \in Nat
<1>1. p \in DOMAIN policies /\ claims[p] \in Claim
  BY DEF TypeOK
<1>2. Approved(p) \in Policy
  <2>1. policies[p] \in Policy
    BY <1>1 DEF TypeOK
  <2>2. policies[p].total_claimed + claims[p].claim_amount \in Nat
    BY <1>1, <2>1 DEF Policy, Claim
  <2> QED
    BY <2>1, <2>2, PolicyEdits DEF PolicyStatus, Approved
<1>3. [claims[p] EXCEPT !.approved = TRUE] \in Claim
  BY <1>1 DEF Claim
<1> QED
  BY <1>1, <1>2, <1>3 DEF Approve, TypeOK, Claim

\* Rejecting a claim keeps the policies typed and touches no other storage.
LEMMA RejectType ==
  ASSUME TypeOK, NEW p \in DOMAIN claims, Reject(p)
  PROVE  /\ policies' \in [0 .. policy_counter - 1 -> Policy]
         /\ UNCHANGED <<claims, total_premium, total_payouts, pool, token>>
<1>1. Rejected(p) \in Policy
  <2>1. policies[p] \in Policy
    BY DEF TypeOK
  <2> QED
    BY <2>1, PolicyEdits DEF PolicyStatus, Rejected
<1> QED
  BY <1>1 DEF Reject, TypeOK, totals

\* A sold policy is stored under the next identifier, with a Policy's type.
LEMMA CreateType ==
  ASSUME TypeOK, NEW h \in Holders, NEW t \in PolicyTypes,
         NEW c \in Nat, NEW d \in Nat, CreatePolicy(h, t, c, d)
  PROVE  TypeOK'
<1> DEFINE new == [policyholder |-> h, beneficiary |-> h, policy_type |-> t,
                   coverage_amount |-> c,
                   premium |-> CalculatePremium(t, c, d),
                   end_time |-> now + d, status |-> "Active",
                   claim_amount |-> 0, total_claimed |-> 0]
<1>1. CalculatePremium(t, c, d) \in Nat
  BY PremiumType
<1>2. new \in Policy
  BY <1>1 DEF Policy, PolicyStatus, TypeOK
<1>3. /\ policies' = Put(policies, policy_counter, new)
      /\ votes' = Put(votes, policy_counter, NoVotes)
      /\ policy_counter' = policy_counter + 1
  BY DEF CreatePolicy
<1> HIDE DEF new
<1>4. (0 .. policy_counter - 1) \cup {policy_counter} = 0 .. policy_counter' - 1
  BY <1>3 DEF TypeOK
<1>5. policies' \in [0 .. policy_counter' - 1 -> Policy]
  BY <1>2, <1>3, <1>4, PutType DEF TypeOK
<1>6. votes' \in [0 .. policy_counter' - 1 -> ClaimVotes]
  BY <1>3, <1>4, PutType DEF TypeOK, ClaimVotes, NoVotes
<1>7. DOMAIN claims \subseteq DOMAIN policies'
  BY <1>4, <1>5 DEF TypeOK
<1>8. policy_counter' \in Nat
  BY <1>3 DEF TypeOK
<1>9. UNCHANGED <<now, paused, board, settings, claims, totals, pool, token>>
  BY DEF CreatePolicy
<1> QED
  BY <1>5, <1>6, <1>7, <1>8, <1>9
     DEF TypeOK, PoolTypeOK, board, settings, totals

\* An edit of one policy keeps the policies' type.
LEMMA EditType ==
  ASSUME TypeOK, NEW p \in DOMAIN policies, NEW r \in Policy,
         policies' = [policies EXCEPT ![p] = r]
  PROVE  policies' \in [0 .. policy_counter - 1 -> Policy]
BY DEF TypeOK

\* The entry points that a policyholder calls keep all types.
LEMMA HolderType ==
  ASSUME TypeOK, HolderNext
  PROVE  TypeOK'
<1>0. /\ Contract \in Accounts /\ PoolAddr \in Accounts /\ Contract \in Providers
      /\ Coverages \subseteq Nat /\ Durations \subseteq Nat
      /\ ClaimAmounts \subseteq Nat
  BY PoolAssumption, ContractAssumption
<1>1. ASSUME NEW h \in Holders, NEW t \in PolicyTypes, NEW c \in Coverages,
             NEW d \in Durations, CreatePolicy(h, t, c, d)
      PROVE  TypeOK'
  BY <1>0, <1>1, CreateType
<1>2. ASSUME NEW p \in DOMAIN policies,
             \/ PayPremium(p)
             \/ \E amt \in ClaimAmounts : SubmitClaim(p, amt)
             \/ CancelPolicy(p)
             \/ \E c \in Coverages : IncreaseCoverage(p, c)
             \/ \E d \in Durations : ExtendDuration(p, d)
             \/ \E h \in Holders : ChangeBeneficiary(p, h)
             \/ \E d \in Durations : RenewPolicy(p, d)
             \/ CheckExpiration(p)
      PROVE  TypeOK'
  <2> DEFINE pol == policies[p]
  <2>0. /\ pol \in Policy
        /\ pol.policy_type \in PolicyTypes /\ pol.coverage_amount \in Nat
        /\ pol.premium \in Nat /\ pol.end_time \in Nat
        /\ now \in Nat
    BY DEF TypeOK, Policy
  <2>1. CASE PayPremium(p)
    <3> DEFINE dest == IF risk_pool THEN PoolAddr ELSE Contract
               deposited == Deposited(pool, Contract, pol.premium)
    <3>1. token' \in [Accounts -> Nat] /\ total_premium' \in Nat
      <4>1. Collect(p, dest, pol.premium) /\ dest \in Accounts
        BY <1>0, <2>1 DEF PayPremium
      <4> HIDE DEF dest
      <4> QED
        BY <2>0, <4>1, CollectType
    <3>2. IsPool(pool')
      <4>1. IsPool(pool) /\ IsPool(deposited)
        BY <1>0, <2>0, DepositedType DEF TypeOK, PoolTypeOK
      <4>2. \/ pool' = pool
            \/ /\ CanDistribute(deposited, pol.premium)
               /\ pool' = Distributed(deposited, pol.premium)
        BY <2>1 DEF PayPremium
      <4> HIDE DEF deposited
      <4> QED
        BY <2>0, <4>1, <4>2, DistributedType
    <3>3. UNCHANGED <<now, paused, board, settings, policy_counter, policies,
                      claims, votes, total_payouts>>
      BY <2>1 DEF PayPremium
    <3> QED
      BY <3>1, <3>2, <3>3 DEF TypeOK, PoolTypeOK, board, settings
  <2>2. ASSUME NEW amt \in ClaimAmounts, SubmitClaim(p, amt) PROVE TypeOK'
    <3>1. policies' = [policies EXCEPT ![p] =
                         [pol EXCEPT !.claim_amount = amt,
                                     !.status = "ClaimPending"]]
      BY <2>2 DEF SubmitClaim
    <3>2. policies' \in [0 .. policy_counter - 1 -> Policy]
      BY <1>0, <2>0, <3>1, PolicyEdits, EditType DEF PolicyStatus
    <3>3. [claim_amount |-> amt, timestamp |-> now, approved |-> FALSE] \in Claim
      BY <1>0, <2>0 DEF Claim
    <3>4. claims' \in [DOMAIN claims \cup {p} -> Claim]
      BY <2>2, <3>3, PutType DEF SubmitClaim, TypeOK
    <3>5. /\ DOMAIN claims' \subseteq DOMAIN policies'
          /\ claims' \in [DOMAIN claims' -> Claim]
      BY <3>2, <3>4 DEF TypeOK
    <3>6. UNCHANGED <<now, paused, board, settings, policy_counter, votes,
                      totals, pool, token>>
      BY <2>2 DEF SubmitClaim
    <3> QED
      BY <3>2, <3>5, <3>6 DEF TypeOK, PoolTypeOK, board, settings, totals
  <2>3. CASE CancelPolicy(p) \/ CheckExpiration(p)
    <3>1. PICK s \in PolicyStatus :
            policies' = [policies EXCEPT ![p] = [pol EXCEPT !.status = s]]
      BY <2>3 DEF CancelPolicy, CheckExpiration, PolicyStatus
    <3>2. policies' \in [0 .. policy_counter - 1 -> Policy]
      BY <2>0, <3>1, PolicyEdits, EditType
    <3>3. UNCHANGED <<now, paused, board, settings, policy_counter, claims,
                      votes, totals, pool, token>>
      BY <2>3 DEF CancelPolicy, CheckExpiration
    <3> QED
      BY <3>2, <3>3 DEF TypeOK, PoolTypeOK, board, settings, totals
  <2>4. ASSUME NEW c \in Coverages, IncreaseCoverage(p, c) PROVE TypeOK'
    <3> DEFINE delta == c - pol.coverage_amount
               remaining == pol.end_time - now
               price == CalculatePremium(pol.policy_type, delta, remaining)
    <3>1. price \in Nat
      <4>1. c \in Nat /\ c > pol.coverage_amount /\ now < pol.end_time
        BY <1>0, <2>4 DEF IncreaseCoverage
      <4>2. delta \in Nat /\ remaining \in Nat
        BY <2>0, <4>1
      <4> QED
        BY <2>0, <4>2, PremiumType
    <3>2. Collect(p, Contract, price)
      BY <2>4 DEF IncreaseCoverage
    <3> HIDE DEF price
    <3>3. token' \in [Accounts -> Nat] /\ total_premium' \in Nat
      BY <1>0, <3>1, <3>2, CollectType
    <3>4. policies' = [policies EXCEPT ![p] = [pol EXCEPT !.coverage_amount = c]]
      BY <2>4 DEF IncreaseCoverage
    <3>5. policies' \in [0 .. policy_counter - 1 -> Policy]
      <4>1. [pol EXCEPT !.coverage_amount = c] \in Policy
        BY <1>0, <2>0, PolicyEdits DEF PolicyStatus
      <4> QED
        BY <3>4, <4>1, EditType
    <3>6. UNCHANGED <<now, paused, board, settings, policy_counter, claims,
                      votes, total_payouts, pool>>
      BY <2>4 DEF IncreaseCoverage
    <3> QED
      BY <3>3, <3>5, <3>6 DEF TypeOK, PoolTypeOK, board, settings
  <2>5. ASSUME NEW d \in Durations, ExtendDuration(p, d) PROVE TypeOK'
    <3> DEFINE price == CalculatePremium(pol.policy_type, pol.coverage_amount, d)
    <3>1. price \in Nat
      BY <1>0, <2>0, PremiumType
    <3>2. Collect(p, Contract, price)
      BY <2>5 DEF ExtendDuration
    <3> HIDE DEF price
    <3>3. token' \in [Accounts -> Nat] /\ total_premium' \in Nat
      BY <1>0, <3>1, <3>2, CollectType
    <3>4. policies' = [policies EXCEPT ![p] =
                         [pol EXCEPT !.end_time = pol.end_time + d]]
      BY <2>5 DEF ExtendDuration
    <3>5. policies' \in [0 .. policy_counter - 1 -> Policy]
      <4>1. pol.end_time + d \in Nat
        BY <1>0, <2>0
      <4>2. [pol EXCEPT !.end_time = pol.end_time + d] \in Policy
        BY <2>0, <4>1, PolicyEdits DEF PolicyStatus
      <4> QED
        BY <3>4, <4>2, EditType
    <3>6. UNCHANGED <<now, paused, board, settings, policy_counter, claims,
                      votes, total_payouts, pool>>
      BY <2>5 DEF ExtendDuration
    <3> QED
      BY <3>3, <3>5, <3>6 DEF TypeOK, PoolTypeOK, board, settings
  <2>6. ASSUME NEW h \in Holders, ChangeBeneficiary(p, h) PROVE TypeOK'
    <3>1. policies' = [policies EXCEPT ![p] = [pol EXCEPT !.beneficiary = h]]
      BY <2>6 DEF ChangeBeneficiary
    <3>2. policies' \in [0 .. policy_counter - 1 -> Policy]
      <4>1. [pol EXCEPT !.beneficiary = h] \in Policy
        BY <2>0, PolicyEdits DEF PolicyStatus
      <4> QED
        BY <3>1, <4>1, EditType
    <3>3. UNCHANGED <<now, paused, board, settings, policy_counter, claims,
                      votes, totals, pool, token>>
      BY <2>6 DEF ChangeBeneficiary
    <3> QED
      BY <3>2, <3>3 DEF TypeOK, PoolTypeOK, board, settings, totals
  <2>7. ASSUME NEW d \in Durations, RenewPolicy(p, d) PROVE TypeOK'
    <3> DEFINE base == IF IsExpired(p) THEN now ELSE pol.end_time
               price == CalculatePremium(pol.policy_type, pol.coverage_amount, d)
    <3>1. price \in Nat /\ base + d \in Nat
      BY <1>0, <2>0, PremiumType
    <3>2. Collect(p, Contract, price)
      BY <2>7 DEF RenewPolicy
    <3>3. policies' = [policies EXCEPT ![p] =
                         [pol EXCEPT !.premium = price, !.end_time = base + d,
                                     !.status = "Active"]]
      BY <2>7 DEF RenewPolicy
    <3> HIDE DEF price, base
    <3>4. token' \in [Accounts -> Nat] /\ total_premium' \in Nat
      BY <1>0, <3>1, <3>2, CollectType
    <3>5. policies' \in [0 .. policy_counter - 1 -> Policy]
      <4>1. [pol EXCEPT !.premium = price, !.end_time = base + d,
                        !.status = "Active"] \in Policy
        BY <2>0, <3>1, PolicyEdits DEF PolicyStatus
      <4> QED
        BY <3>3, <4>1, EditType
    <3>6. UNCHANGED <<now, paused, board, settings, policy_counter, claims,
                      votes, total_payouts, pool>>
      BY <2>7 DEF RenewPolicy
    <3> QED
      BY <3>4, <3>5, <3>6 DEF TypeOK, PoolTypeOK, board, settings
  <2> QED
    BY <1>2, <2>1, <2>2, <2>3, <2>4, <2>5, <2>6, <2>7
<1> QED
  BY <1>1, <1>2 DEF HolderNext

\* The two ways of deciding a claim keep all types.
LEMMA DecisionType ==
  ASSUME TypeOK, DecisionNext
  PROVE  TypeOK'
<1>1. ASSUME NEW p \in DOMAIN policies, NEW approved \in BOOLEAN,
             ProcessClaim(p, approved)
      PROVE  TypeOK'
  <2>1. p \in DOMAIN claims
    BY <1>1 DEF ProcessClaim, HasPendingClaim
  <2>2. UNCHANGED <<now, paused, board, settings, policy_counter, votes>>
    BY <1>1 DEF ProcessClaim
  <2>3. CASE approved
    <3>1. Approve(p) /\ (PayFromContract(p) \/ PayFromPool(p))
      BY <1>1, <2>3 DEF ProcessClaim
    <3>2. PoolTypeOK'
      BY <2>1, <3>1, PaymentType
    <3> QED
      BY <2>1, <2>2, <3>1, <3>2, ApproveType DEF TypeOK, board, settings
  <2>4. CASE ~approved
    <3>1. Reject(p)
      BY <1>1, <2>4 DEF ProcessClaim
    <3> QED
      BY <2>1, <2>2, <3>1, RejectType DEF TypeOK, PoolTypeOK, board, settings
  <2> QED
    BY <2>3, <2>4
<1>2. ASSUME NEW p \in DOMAIN policies, NEW a \in AdminAddrs,
             NEW approve \in BOOLEAN, VoteClaim(p, a, approve)
      PROVE  TypeOK'
  <2> DEFINE ballots == IF approve
                        THEN [votes[p] EXCEPT !.approvals = @ \cup {a}]
                        ELSE [votes[p] EXCEPT !.rejections = @ \cup {a}]
  <2>1. p \in DOMAIN claims
    BY <1>2 DEF VoteClaim, HasPendingClaim
  <2>2. UNCHANGED <<now, paused, board, settings, policy_counter>>
    BY <1>2 DEF VoteClaim
  <2>3. ballots \in ClaimVotes /\ NoVotes \in ClaimVotes
    <3>1. votes[p] \in ClaimVotes
      BY DEF TypeOK
    <3> QED
      BY <3>1 DEF ClaimVotes, NoVotes
  <2>4. \/ Approve(p) /\ PayFromContract(p) /\ votes' = [votes EXCEPT ![p] = NoVotes]
        \/ Reject(p) /\ votes' = [votes EXCEPT ![p] = NoVotes]
        \/ /\ votes' = [votes EXCEPT ![p] = ballots]
           /\ UNCHANGED <<policies, claims, totals, pool, token>>
    BY <1>2 DEF VoteClaim
  <2> HIDE DEF ballots
  <2>5. votes' \in [0 .. policy_counter - 1 -> ClaimVotes]
    BY <2>3, <2>4 DEF TypeOK
  <2>6. CASE Approve(p) /\ PayFromContract(p)
    BY <2>1, <2>2, <2>5, <2>6, PaymentType, ApproveType DEF TypeOK, board, settings
  <2>7. CASE Reject(p)
    BY <2>1, <2>2, <2>5, <2>7, RejectType DEF TypeOK, PoolTypeOK, board, settings
  <2>8. CASE UNCHANGED <<policies, claims, totals, pool, token>>
    BY <2>2, <2>5, <2>8 DEF TypeOK, PoolTypeOK, board, settings, totals
  <2> QED
    BY <2>4, <2>6, <2>7, <2>8
<1> QED
  BY <1>1, <1>2 DEF DecisionNext

\* The administration entry points, and time, keep all types.
LEMMA AdminType ==
  ASSUME TypeOK, AdminNext \/ Tick
  PROVE  TypeOK'
<1> USE DEF TypeOK, PoolTypeOK, board, settings, totals
<1>1. ASSUME NEW c \in AdminAddrs, NEW a \in AdminAddrs, AddAdmin(c, a)
      PROVE  TypeOK'
  BY <1>1 DEF AddAdmin
<1>2. ASSUME NEW c \in AdminAddrs, NEW a \in AdminAddrs, RemoveAdmin(c, a)
      PROVE  TypeOK'
  <2>1. IsFiniteSet(admins)
    BY ContractAssumption, FS_Subset
  <2>2. Cardinality(admins \ {a}) \in Nat
    BY <2>1, FS_CardinalityType, FS_RemoveElement
  <2> QED
    BY <1>2, <2>2 DEF RemoveAdmin, ThresholdFor
<1>3. ASSUME NEW c \in AdminAddrs, NEW t \in 0..Cardinality(AdminAddrs),
             SetThreshold(c, t)
      PROVE  TypeOK'
  BY <1>3 DEF SetThreshold
<1>4. ASSUME NEW value \in BOOLEAN, SetPaused(value) PROVE TypeOK'
  BY <1>4 DEF SetPaused
<1>5. ASSUME NEW cap \in PolicyCaps, SetMaxPolicies(cap) PROVE TypeOK'
  BY <1>5, ContractAssumption DEF SetMaxPolicies
<1>6. ASSUME SetPremiumToken \/ SetRiskPool PROVE TypeOK'
  BY <1>6 DEF SetPremiumToken, SetRiskPool
<1>7. ASSUME Tick PROVE TypeOK'
  BY <1>7 DEF Tick
<1> QED
  BY <1>1, <1>2, <1>3, <1>4, <1>5, <1>6, <1>7 DEF AdminNext

\* Every entry point of the contract keeps all types: the three groups above
\* put together.
LEMMA TypeStep == TypeOK /\ [Next]_vars => TypeOK'
<1> SUFFICES ASSUME TypeOK, [Next]_vars PROVE TypeOK'
  OBVIOUS
<1>1. CASE Next
  BY <1>1, HolderType, DecisionType, AdminType DEF Next
<1>2. CASE UNCHANGED vars
  BY <1>2 DEF vars, TypeOK, PoolTypeOK, board, settings, totals
<1> QED
  BY <1>1, <1>2

\* The storage that init of both contracts writes is typed.
LEMMA TypeInit == Init => TypeOK
<1> SUFFICES ASSUME Init PROVE TypeOK
  OBVIOUS
<1>1. PoolTypeOK
  BY PoolInitType DEF Init
<1>2. 0 .. policy_counter - 1 = {}
  BY DEF Init
<1>3. /\ policies \in [0 .. policy_counter - 1 -> Policy]
      /\ votes \in [0 .. policy_counter - 1 -> ClaimVotes]
      /\ claims \in [DOMAIN claims -> Claim]
      /\ DOMAIN claims \subseteq DOMAIN policies
  BY <1>2 DEF Init
<1> QED
  BY <1>1, <1>3, ContractAssumption DEF Init, TypeOK

\* Whatever holders, admins and the clock do, in any order and with any
\* amounts, every entry keeps its type: no balance, liquidity, total or
\* coverage is ever driven below zero by a payout or a withdrawal.
THEOREM TypeCorrect == Spec => []TypeOK
BY TypeInit, TypeStep, PTL DEF Spec

-----------------------------------------------------------------------------
(* The board of admins.                                                    *)

\* No change of the board, and no other entry point, puts the threshold out
\* of the admins' reach.
LEMMA ThresholdStep == TypeOK /\ ThresholdAttainable /\ [Next]_vars => ThresholdAttainable'
<1> SUFFICES ASSUME TypeOK, ThresholdAttainable, [Next]_vars
             PROVE  ThresholdAttainable'
  OBVIOUS
<1> USE DEF ThresholdAttainable
<1>1. IsFiniteSet(admins) /\ Cardinality(admins) \in Nat
  BY ContractAssumption, FS_Subset, FS_CardinalityType DEF TypeOK
<1>2. CASE UNCHANGED board
  BY <1>2 DEF board
<1>3. ASSUME NEW c \in AdminAddrs, NEW a \in AdminAddrs, AddAdmin(c, a)
      PROVE  ThresholdAttainable'
  <2>1. Cardinality(admins \cup {a}) >= Cardinality(admins)
        /\ Cardinality(admins \cup {a}) \in Nat
    <3>1. Cardinality(admins \cup {a}) =
            IF a \in admins THEN Cardinality(admins) ELSE Cardinality(admins) + 1
      BY <1>1, FS_AddElement
    <3> QED
      BY <1>1, <3>1
  <2> QED
    BY <1>1, <1>3, <2>1 DEF AddAdmin
<1>4. ASSUME NEW c \in AdminAddrs, NEW a \in AdminAddrs, RemoveAdmin(c, a)
      PROVE  ThresholdAttainable'
  <2>1. /\ Cardinality(admins \ {a}) \in Nat
        /\ Cardinality(admins \ {a}) >= Cardinality(admins) - 1
    <3>1. Cardinality(admins \ {a}) =
            IF a \in admins THEN Cardinality(admins) - 1 ELSE Cardinality(admins)
      BY <1>1, FS_RemoveElement
    <3>2. Cardinality(admins \ {a}) \in Nat
      BY <1>1, FS_RemoveElement, FS_CardinalityType
    <3> QED
      BY <1>1, <3>1, <3>2
  <2>2. Cardinality(admins) > 1
    BY <1>4 DEF RemoveAdmin
  <2> QED
    BY <1>1, <1>4, <2>1, <2>2 DEF RemoveAdmin, ThresholdFor
<1>5. ASSUME NEW c \in AdminAddrs, NEW t \in 0..Cardinality(AdminAddrs),
             SetThreshold(c, t)
      PROVE  ThresholdAttainable'
  <2>1. t \in Int
    OBVIOUS
  <2> QED
    BY <1>1, <1>5, <2>1 DEF SetThreshold
<1>6. CASE HolderNext
  BY <1>2, <1>6 DEF HolderNext, CreatePolicy, PayPremium, SubmitClaim, CancelPolicy,
     IncreaseCoverage, ExtendDuration, ChangeBeneficiary, RenewPolicy, CheckExpiration
<1>7. CASE DecisionNext
  BY <1>2, <1>7 DEF DecisionNext, ProcessClaim, VoteClaim
<1>8. CASE AdminNext
  BY <1>2, <1>3, <1>4, <1>5, <1>8 DEF AdminNext, SetPaused, SetMaxPolicies,
     SetPremiumToken, SetRiskPool
<1>9. CASE Tick \/ UNCHANGED vars
  BY <1>2, <1>9 DEF Tick, vars
<1> QED
  BY <1>6, <1>7, <1>8, <1>9 DEF Next

\* The approvals that a claim needs can be met by the admins there are, for
\* every board and through every sequence of changes to it.
THEOREM ThresholdCorrect == Spec => []ThresholdAttainable
<1>1. Init => ThresholdAttainable
  <2>1. Cardinality({Founder}) = 1
    BY FS_Singleton
  <2> QED
    BY <2>1 DEF Init, ThresholdAttainable
<1> QED
  BY <1>1, ThresholdStep, TypeCorrect, PTL DEF Spec

-----------------------------------------------------------------------------
(* The treasury.                                                           *)

Held == token[Contract] + token[PoolAddr]

\* A premium ends up with the contract or the pool, whole.
LEMMA CollectHeld ==
  ASSUME TypeOK, NEW p \in DOMAIN policies, NEW dest \in {Contract, PoolAddr},
         NEW amt \in Nat, Collect(p, dest, amt), UNCHANGED total_payouts,
         TreasuryReconciles
  PROVE  TreasuryReconciles'
<1> DEFINE payer == policies[p].policyholder
<1>1. /\ payer \in Accounts \ {Contract, PoolAddr}
      /\ Contract \in Accounts /\ PoolAddr \in Accounts /\ Contract # PoolAddr
  BY PoolAssumption, ContractAssumption DEF TypeOK, Policy
<1>2. token \in [Accounts -> Nat] /\ total_premium \in Nat /\ total_payouts \in Nat
  BY DEF TypeOK, PoolTypeOK
<1>3. /\ token' = [token EXCEPT ![payer] = @ - amt, ![dest] = @ + amt]
      /\ total_premium' = total_premium + amt
  BY DEF Collect, Transferred
<1> HIDE DEF payer
<1>4. Held' = Held + amt
  BY <1>1, <1>2, <1>3 DEF Held
<1>5. Seed[Contract] \in Nat /\ Seed[PoolAddr] \in Nat
  BY <1>1, PoolAssumption
<1>6. Held \in Nat
  BY <1>1, <1>2 DEF Held
<1> QED
  BY <1>2, <1>3, <1>4, <1>5, <1>6 DEF TreasuryReconciles, Held

\* A payout leaves the contract or the pool, whole.
LEMMA PaymentHeld ==
  ASSUME TypeOK, NEW p \in DOMAIN claims,
         total_payouts' = total_payouts + claims[p].claim_amount,
         total_premium' = total_premium,
         PayFromContract(p) \/ PayFromPool(p), TreasuryReconciles
  PROVE  TreasuryReconciles'
<1> DEFINE payee == policies[p].policyholder
           amt == claims[p].claim_amount
<1>1. /\ payee \in Accounts \ {Contract, PoolAddr}
      /\ Contract \in Accounts /\ PoolAddr \in Accounts /\ Contract # PoolAddr
      /\ amt \in Nat
  <2>1. policies[p] \in Policy /\ claims[p] \in Claim
    BY DEF TypeOK
  <2>2. payee \in Holders /\ amt \in Nat
    BY <2>1 DEF Policy, Claim
  <2> QED
    BY <2>2, PoolAssumption, ContractAssumption
<1>2. token \in [Accounts -> Nat] /\ total_premium \in Nat /\ total_payouts \in Nat
  BY DEF TypeOK, PoolTypeOK
<1>3. PICK payer \in {Contract, PoolAddr} :
        token' = [token EXCEPT ![payer] = @ - amt, ![payee] = @ + amt]
  BY DEF PayFromContract, PayFromPool, FundPayout, Transferred
<1>4. total_payouts' = total_payouts + amt /\ total_premium' = total_premium
  OBVIOUS
<1> HIDE DEF payee, amt
<1>5. Held' = Held - amt
  BY <1>1, <1>2, <1>3 DEF Held
<1>6. Seed[Contract] \in Nat /\ Seed[PoolAddr] \in Nat
  BY <1>1, PoolAssumption
<1>7. Held \in Nat
  BY <1>1, <1>2 DEF Held
<1> QED
  BY <1>1, <1>2, <1>4, <1>5, <1>6, <1>7 DEF TreasuryReconciles, Held

\* Every paid entry point of policyholders collects some premium, for the
\* contract or the pool.
LEMMA PremiumCollected ==
  ASSUME TypeOK, NEW p \in DOMAIN policies,
         \/ PayPremium(p)
         \/ \E c \in Coverages : IncreaseCoverage(p, c)
         \/ \E d \in Durations : ExtendDuration(p, d)
         \/ \E d \in Durations : RenewPolicy(p, d)
  PROVE  \E dest \in {Contract, PoolAddr}, amt \in Nat :
           Collect(p, dest, amt) /\ UNCHANGED total_payouts
<1> DEFINE pol == policies[p]
<1>1. /\ pol.policy_type \in PolicyTypes /\ pol.coverage_amount \in Nat
      /\ pol.premium \in Nat /\ pol.end_time \in Nat /\ now \in Nat
  BY DEF TypeOK, Policy
<1>2. CASE PayPremium(p)
  BY <1>1, <1>2 DEF PayPremium
<1>3. ASSUME NEW c \in Coverages, IncreaseCoverage(p, c)
      PROVE  \E dest \in {Contract, PoolAddr}, amt \in Nat :
               Collect(p, dest, amt) /\ UNCHANGED total_payouts
  <2>1. /\ c \in Nat /\ c > pol.coverage_amount /\ now < pol.end_time
        /\ UNCHANGED total_payouts
        /\ Collect(p, Contract, CalculatePremium(pol.policy_type,
                     c - pol.coverage_amount, pol.end_time - now))
    BY <1>3, ContractAssumption DEF IncreaseCoverage
  <2>2. c - pol.coverage_amount \in Nat /\ pol.end_time - now \in Nat
    BY <1>1, <2>1
  <2>3. CalculatePremium(pol.policy_type, c - pol.coverage_amount,
                         pol.end_time - now) \in Nat
    BY <1>1, <2>2, PremiumType
  <2> QED
    BY <2>1, <2>3
<1>4. ASSUME NEW d \in Durations, ExtendDuration(p, d) \/ RenewPolicy(p, d)
      PROVE  \E dest \in {Contract, PoolAddr}, amt \in Nat :
               Collect(p, dest, amt) /\ UNCHANGED total_payouts
  <2>1. CalculatePremium(pol.policy_type, pol.coverage_amount, d) \in Nat
    BY <1>1, PremiumType, ContractAssumption
  <2> QED
    BY <1>4, <2>1 DEF ExtendDuration, RenewPolicy
<1> QED
  BY <1>2, <1>3, <1>4

\* Each of the entry points that move tokens changes the totals to match.
LEMMA TreasuryStep == TypeOK /\ TreasuryReconciles /\ [Next]_vars => TreasuryReconciles'
<1> SUFFICES ASSUME TypeOK, TreasuryReconciles, [Next]_vars
             PROVE  TreasuryReconciles'
  OBVIOUS
<1>1. CASE UNCHANGED <<token, totals>>
  BY <1>1 DEF TreasuryReconciles, totals
<1>2. CASE HolderNext
  <2>1. ASSUME NEW h \in Holders, NEW t \in PolicyTypes, NEW c \in Coverages,
               NEW d \in Durations, CreatePolicy(h, t, c, d)
        PROVE  TreasuryReconciles'
    BY <1>1, <2>1 DEF CreatePolicy
  <2>2. ASSUME NEW p \in DOMAIN policies,
               \/ PayPremium(p)
               \/ \E c \in Coverages : IncreaseCoverage(p, c)
               \/ \E d \in Durations : ExtendDuration(p, d)
               \/ \E d \in Durations : RenewPolicy(p, d)
        PROVE  TreasuryReconciles'
    BY <2>2, PremiumCollected, CollectHeld
  <2>3. ASSUME NEW p \in DOMAIN policies,
               \/ \E amt \in ClaimAmounts : SubmitClaim(p, amt)
               \/ CancelPolicy(p)
               \/ \E h \in Holders : ChangeBeneficiary(p, h)
               \/ CheckExpiration(p)
        PROVE  TreasuryReconciles'
    BY <1>1, <2>3 DEF SubmitClaim, CancelPolicy, ChangeBeneficiary, CheckExpiration
  <2> QED
    BY <1>2, <2>1, <2>2, <2>3 DEF HolderNext
<1>3. CASE DecisionNext
  <2>1. \/ \E p \in DOMAIN claims : Approve(p) /\ (PayFromContract(p) \/ PayFromPool(p))
        \/ UNCHANGED <<token, totals>>
    <3>1. ASSUME NEW p \in DOMAIN policies, NEW approved \in BOOLEAN,
                 ProcessClaim(p, approved)
          PROVE  <2>1!1 \/ <2>1!2
      BY <3>1 DEF ProcessClaim, HasPendingClaim, Reject
    <3>2. ASSUME NEW p \in DOMAIN policies, NEW a \in AdminAddrs,
                 NEW approve \in BOOLEAN, VoteClaim(p, a, approve)
          PROVE  <2>1!1 \/ <2>1!2
      BY <3>2 DEF VoteClaim, HasPendingClaim, Reject
    <3> QED
      BY <1>3, <3>1, <3>2 DEF DecisionNext
  <2> QED
    BY <1>1, <2>1, PaymentHeld DEF Approve
<1>4. CASE AdminNext \/ Tick \/ UNCHANGED vars
  BY <1>1, <1>4 DEF AdminNext, AddAdmin, RemoveAdmin, SetThreshold, SetPaused,
     SetMaxPolicies, SetPremiumToken, SetRiskPool, Tick, vars
<1> QED
  BY <1>2, <1>3, <1>4 DEF Next

\* get_treasury_stats tells the truth whatever is paid, through every
\* payment path, by any number of policyholders.
THEOREM TreasuryCorrect == Spec => []TreasuryReconciles
<1>1. Init => TreasuryReconciles
  <2>1. Seed[Contract] \in Nat /\ Seed[PoolAddr] \in Nat
    BY PoolAssumption, ContractAssumption
  <2> QED
    BY <2>1 DEF Init, PoolInit, TreasuryReconciles
<1> QED
  BY <1>1, TreasuryStep, TypeCorrect, PTL DEF Spec

-----------------------------------------------------------------------------
(* The life of a policy.  None of the four invariants is inductive alone:  *)
(* that a payout keeps within the coverage needs the record it reads to be *)
(* the amount the policy opened, and that a policy whose coverage is used  *)
(* up stays closed needs the payout to have been within the coverage.      *)

Sound(p) ==
  /\ policies[p].total_claimed + policies[p].claim_amount
       <= policies[p].coverage_amount
  /\ IF policies[p].status = "ClaimPending"
     THEN /\ HasPendingClaim(p)
          /\ claims[p].claim_amount = policies[p].claim_amount
          /\ policies[p].claim_amount > 0
          /\ ~claims[p].approved
     ELSE policies[p].claim_amount = 0
  /\ policies[p].status = "ClaimApproved"
       <=> policies[p].total_claimed = policies[p].coverage_amount
  /\ policies[p].status = "ClaimPending" =>
       claims[p].timestamp <= policies[p].end_time
  /\ policies[p].status = "Expired" => IsExpired(p)

LifecycleInv == \A p \in DOMAIN policies : Sound(p)

\* The named conjuncts of the invariant, regrouped policy by policy, which
\* is how an entry point disturbs them: it writes one policy.
LEMMA LifecycleInvIs ==
  LifecycleInv <=> /\ CoverageRespected /\ OpenClaimMatchesRecord
                   /\ ApprovedMeansExhausted /\ ClaimsFiledInTerm
BY DEF LifecycleInv, Sound, CoverageRespected, OpenClaimMatchesRecord,
       ApprovedMeansExhausted, ClaimsFiledInTerm

\* An entry point that edits one policy and at most its claim has only that
\* policy to account for.
LEMMA OthersSound ==
  ASSUME TypeOK, LifecycleInv, NEW p \in DOMAIN policies, NEW r,
         policies' = [policies EXCEPT ![p] = r], UNCHANGED now,
         \/ UNCHANGED claims
         \/ \E c : claims' = Put(claims, p, c)
         \/ \E c : claims' = [claims EXCEPT ![p] = c],
         Sound(p)'
  PROVE  LifecycleInv'
<1> SUFFICES ASSUME NEW q \in DOMAIN policies, q # p PROVE Sound(q)'
  BY DEF LifecycleInv
<1>1. policies'[q] = policies[q]
  OBVIOUS
<1>2. q \in DOMAIN claims => q \in DOMAIN claims' /\ claims'[q] = claims[q]
  <2>1. claims = [x \in DOMAIN claims |-> claims[x]]
    BY DEF TypeOK
  <2> QED
    BY <2>1 DEF Put
<1>3. Sound(q)
  BY DEF LifecycleInv
<1> QED
  BY <1>1, <1>2, <1>3 DEF Sound, HasPendingClaim, IsExpired

\* A sold policy is sound, and selling it disturbs no other.
LEMMA CreateSound ==
  ASSUME TypeOK, LifecycleInv, NEW h \in Holders, NEW t \in PolicyTypes,
         NEW c \in Coverages, NEW d \in Durations, CreatePolicy(h, t, c, d)
  PROVE  LifecycleInv'
<1>1. c \in Nat /\ c > 0
  BY ContractAssumption DEF CreatePolicy, CanPrice
<1>2. policy_counter \notin DOMAIN policies
  BY DEF TypeOK
<1>3. PICK new : /\ policies' = Put(policies, policy_counter, new)
                 /\ new.status = "Active" /\ new.coverage_amount = c
                 /\ new.claim_amount = 0 /\ new.total_claimed = 0
  BY DEF CreatePolicy
<1>4. UNCHANGED <<now, claims>>
  BY DEF CreatePolicy
<1>5. PICK k : k = policy_counter
  OBVIOUS
<1>6. /\ DOMAIN policies' = DOMAIN policies \cup {k}
      /\ policies'[k] = new
      /\ \A q \in DOMAIN policies : policies'[q] = policies[q]
  BY <1>2, <1>3, <1>5 DEF Put
<1>7. Sound(k)'
  BY <1>1, <1>3, <1>6 DEF Sound
<1>8. \A q \in DOMAIN policies : Sound(q)'
  BY <1>4, <1>6 DEF Sound, HasPendingClaim, IsExpired, LifecycleInv
<1> QED
  BY <1>6, <1>7, <1>8 DEF LifecycleInv

\* Every entry point that a policyholder calls leaves the policy it writes
\* sound, and the others as they were.
LEMMA HolderSound ==
  ASSUME TypeOK, LifecycleInv, HolderNext
  PROVE  LifecycleInv'
<1>1. CASE UNCHANGED <<now, policies, claims>>
  BY <1>1 DEF LifecycleInv, Sound, HasPendingClaim, IsExpired
<1>2. ASSUME NEW p \in DOMAIN policies,
             \/ PayPremium(p)
             \/ \E amt \in ClaimAmounts : SubmitClaim(p, amt)
             \/ CancelPolicy(p)
             \/ \E c \in Coverages : IncreaseCoverage(p, c)
             \/ \E d \in Durations : ExtendDuration(p, d)
             \/ \E h \in Holders : ChangeBeneficiary(p, h)
             \/ \E d \in Durations : RenewPolicy(p, d)
             \/ CheckExpiration(p)
      PROVE  LifecycleInv'
  <2> DEFINE pol == policies[p]
  <2>0. /\ Sound(p) /\ p \in DOMAIN policies'
        /\ pol \in Policy
        /\ pol.coverage_amount \in Nat /\ pol.total_claimed \in Nat
        /\ pol.claim_amount \in Nat
    <3>1. pol \in Policy
      BY DEF TypeOK
    <3>2. DOMAIN policies' = DOMAIN policies
      BY <1>2 DEF PayPremium, SubmitClaim, CancelPolicy, IncreaseCoverage,
         ExtendDuration, ChangeBeneficiary, RenewPolicy, CheckExpiration
    <3> QED
      BY <3>1, <3>2 DEF LifecycleInv, Policy
  <2>1. ASSUME NEW r, policies' = [policies EXCEPT ![p] = r],
               UNCHANGED <<now, claims>>, Sound(p)'
        PROVE  LifecycleInv'
    BY <2>1, OthersSound
  <2>2. ASSUME NEW amt \in ClaimAmounts, SubmitClaim(p, amt) PROVE LifecycleInv'
    <3> DEFINE r == [pol EXCEPT !.claim_amount = amt, !.status = "ClaimPending"]
               c == [claim_amount |-> amt, timestamp |-> now, approved |-> FALSE]
    <3>1. /\ policies' = [policies EXCEPT ![p] = r]
          /\ claims' = Put(claims, p, c) /\ UNCHANGED now
          /\ pol.status = "Active" /\ ~IsExpired(p)
          /\ amt <= pol.coverage_amount - pol.total_claimed
          /\ amt > 0 /\ amt \in Nat
      BY <2>2, ContractAssumption DEF SubmitClaim, StatusOf, RemainingCoverage
    <3>2. /\ r.status = "ClaimPending" /\ r.claim_amount = amt
          /\ r.coverage_amount = pol.coverage_amount
          /\ r.total_claimed = pol.total_claimed /\ r.end_time = pol.end_time
      BY <2>0 DEF Policy
    <3>3. pol.end_time \in Nat /\ now \in Nat
      BY <2>0 DEF TypeOK, Policy
    <3>4. policies'[p] = r /\ p \in DOMAIN claims' /\ claims'[p] = c
      BY <3>1 DEF Put
    <3> HIDE DEF r
    <3>5. Sound(p)'
      BY <2>0, <3>1, <3>2, <3>3, <3>4 DEF Sound, HasPendingClaim, IsExpired
    <3> QED
      BY <3>1, <3>5, OthersSound
  <2>3. CASE CancelPolicy(p)
    <3>1. /\ policies' = [policies EXCEPT ![p] = [pol EXCEPT !.status = "Cancelled"]]
          /\ pol.status = "Active" /\ UNCHANGED <<now, claims>>
      BY <2>3 DEF CancelPolicy, StatusOf
    <3>2. policies'[p] = [pol EXCEPT !.status = "Cancelled"]
      BY <3>1
    <3>3. Sound(p)'
      BY <2>0, <3>1, <3>2 DEF Sound, Policy
    <3> QED
      BY <2>1, <3>1, <3>3
  <2>4. CASE CheckExpiration(p)
    <3>1. /\ policies' = [policies EXCEPT ![p] = [pol EXCEPT !.status = "Expired"]]
          /\ pol.status = "Active" /\ IsExpired(p) /\ UNCHANGED <<now, claims>>
      BY <2>4 DEF CheckExpiration
    <3>2. policies'[p] = [pol EXCEPT !.status = "Expired"]
      BY <3>1
    <3>3. Sound(p)'
      BY <2>0, <3>1, <3>2 DEF Sound, Policy, IsExpired
    <3> QED
      BY <2>1, <3>1, <3>3
  <2>5. ASSUME NEW c \in Coverages, IncreaseCoverage(p, c) PROVE LifecycleInv'
    <3>1. /\ policies' = [policies EXCEPT ![p] = [pol EXCEPT !.coverage_amount = c]]
          /\ pol.status = "Active" /\ UNCHANGED <<now, claims>>
          /\ c > pol.coverage_amount /\ c \in Nat
      BY <2>5, ContractAssumption DEF IncreaseCoverage, StatusOf
    <3>2. policies'[p] = [pol EXCEPT !.coverage_amount = c]
      BY <3>1
    <3>3. Sound(p)'
      BY <2>0, <3>1, <3>2 DEF Sound, Policy
    <3> QED
      BY <2>1, <3>1, <3>3
  <2>6. ASSUME NEW d \in Durations, ExtendDuration(p, d) PROVE LifecycleInv'
    <3>1. /\ policies' = [policies EXCEPT ![p] =
                            [pol EXCEPT !.end_time = pol.end_time + d]]
          /\ pol.status = "Active" /\ UNCHANGED <<now, claims>>
      BY <2>6 DEF ExtendDuration, StatusOf
    <3>2. policies'[p] = [pol EXCEPT !.end_time = pol.end_time + d]
      BY <3>1
    <3>3. Sound(p)'
      BY <2>0, <3>1, <3>2 DEF Sound, Policy
    <3> QED
      BY <2>1, <3>1, <3>3
  <2>7. ASSUME NEW h \in Holders, ChangeBeneficiary(p, h) PROVE LifecycleInv'
    <3>1. /\ policies' = [policies EXCEPT ![p] = [pol EXCEPT !.beneficiary = h]]
          /\ pol.status = "Active" /\ UNCHANGED <<now, claims>>
      BY <2>7 DEF ChangeBeneficiary, StatusOf
    <3>2. policies'[p] = [pol EXCEPT !.beneficiary = h]
      BY <3>1
    <3>3. Sound(p)'
      BY <2>0, <3>1, <3>2 DEF Sound, Policy
    <3> QED
      BY <2>1, <3>1, <3>3
  <2>8. ASSUME NEW d \in Durations, RenewPolicy(p, d) PROVE LifecycleInv'
    <3>1. PICK m, n :
            policies' = [policies EXCEPT ![p] =
              [pol EXCEPT !.premium = m, !.end_time = n, !.status = "Active"]]
      BY <2>8 DEF RenewPolicy
    <3>2. pol.status \in {"Active", "Expired"} /\ UNCHANGED <<now, claims>>
      BY <2>8 DEF RenewPolicy, Renewable, StatusOf
    <3>3. policies'[p] =
            [pol EXCEPT !.premium = m, !.end_time = n, !.status = "Active"]
      BY <3>1
    <3>4. Sound(p)'
      BY <2>0, <3>2, <3>3 DEF Sound, Policy
    <3> QED
      BY <2>1, <3>1, <3>2, <3>4
  <2> QED
    BY <1>1, <1>2, <2>2, <2>3, <2>4, <2>5, <2>6, <2>7, <2>8 DEF PayPremium
<1> QED
  BY <1>2, CreateSound DEF HolderNext

\* A decision settles the claim it read, whichever way it goes.
LEMMA DecisionSound ==
  ASSUME TypeOK, LifecycleInv, DecisionNext
  PROVE  LifecycleInv'
<1>1. CASE UNCHANGED <<now, policies, claims>>
  BY <1>1 DEF LifecycleInv, Sound, HasPendingClaim, IsExpired
<1>2. ASSUME NEW p \in DOMAIN policies, HasPendingClaim(p),
             Approve(p) \/ Reject(p), UNCHANGED now
      PROVE  LifecycleInv'
  <2> DEFINE pol == policies[p]
  <2>1. /\ Sound(p) /\ p \in DOMAIN claims /\ pol.status = "ClaimPending"
        /\ pol \in Policy /\ claims[p] \in Claim
    BY <1>2 DEF LifecycleInv, HasPendingClaim, TypeOK
  <2>2. /\ pol.coverage_amount \in Nat /\ pol.total_claimed \in Nat
        /\ pol.claim_amount \in Nat /\ pol.claim_amount > 0
        /\ claims[p].claim_amount = pol.claim_amount
        /\ pol.total_claimed + pol.claim_amount <= pol.coverage_amount
        /\ pol.total_claimed # pol.coverage_amount
    BY <2>1 DEF Policy, Sound
  <2>3. CASE Approve(p)
    <3>1. /\ policies' = [policies EXCEPT ![p] = Approved(p)]
          /\ claims' = [claims EXCEPT ![p] = [claims[p] EXCEPT !.approved = TRUE]]
      BY <2>3 DEF Approve
    <3>2. policies'[p] = Approved(p)
      BY <3>1
    <3>3. /\ Approved(p).claim_amount = 0
          /\ Approved(p).coverage_amount = pol.coverage_amount
          /\ Approved(p).total_claimed = pol.total_claimed + pol.claim_amount
          /\ Approved(p).status =
               IF pol.total_claimed + pol.claim_amount >= pol.coverage_amount
               THEN "ClaimApproved" ELSE "Active"
      BY <2>1, <2>2 DEF Approved, Policy
    <3>4. Sound(p)'
      BY <2>2, <3>2, <3>3 DEF Sound
    <3> QED
      BY <1>2, <3>1, <3>4, OthersSound
  <2>4. CASE Reject(p)
    <3>1. policies' = [policies EXCEPT ![p] = Rejected(p)] /\ UNCHANGED claims
      BY <2>4 DEF Reject
    <3>2. policies'[p] = Rejected(p)
      BY <3>1
    <3>3. /\ Rejected(p).claim_amount = 0 /\ Rejected(p).status = "Active"
          /\ Rejected(p).coverage_amount = pol.coverage_amount
          /\ Rejected(p).total_claimed = pol.total_claimed
      BY <2>1 DEF Rejected, Policy
    <3>4. Sound(p)'
      BY <2>2, <3>2, <3>3 DEF Sound
    <3> QED
      BY <1>2, <3>1, <3>4, OthersSound
  <2> QED
    BY <1>2, <2>3, <2>4
<1>3. ASSUME NEW p \in DOMAIN policies, NEW approved \in BOOLEAN,
             ProcessClaim(p, approved)
      PROVE  LifecycleInv'
  BY <1>2, <1>3 DEF ProcessClaim
<1>4. ASSUME NEW p \in DOMAIN policies, NEW a \in AdminAddrs,
             NEW approve \in BOOLEAN, VoteClaim(p, a, approve)
      PROVE  LifecycleInv'
  <2>1. /\ HasPendingClaim(p) /\ UNCHANGED now
        /\ Approve(p) \/ Reject(p) \/ UNCHANGED <<policies, claims>>
    BY <1>4 DEF VoteClaim
  <2> QED
    BY <1>1, <1>2, <2>1
<1> QED
  BY <1>3, <1>4 DEF DecisionNext

\* The invariant is inductive: who decides, sells, prices or pauses does not
\* matter, and neither does the passing of time.
LEMMA LifecycleStep == TypeOK /\ LifecycleInv /\ [Next]_vars => LifecycleInv'
<1> SUFFICES ASSUME TypeOK, LifecycleInv, [Next]_vars PROVE LifecycleInv'
  OBVIOUS
<1>1. CASE UNCHANGED <<now, policies, claims>>
  BY <1>1 DEF LifecycleInv, Sound, HasPendingClaim, IsExpired
<1>2. CASE Tick
  <2> SUFFICES ASSUME NEW p \in DOMAIN policies PROVE Sound(p)'
    BY <1>2 DEF LifecycleInv, Tick
  <2>1. policies[p].end_time \in Nat /\ now \in Nat
    BY DEF TypeOK, Policy
  <2>2. IsExpired(p) => IsExpired(p)'
    BY <1>2, <2>1 DEF Tick, IsExpired
  <2> QED
    BY <1>2, <2>2 DEF LifecycleInv, Sound, HasPendingClaim, Tick
<1>3. CASE AdminNext \/ UNCHANGED vars
  BY <1>1, <1>3 DEF AdminNext, AddAdmin, RemoveAdmin, SetThreshold, SetPaused,
     SetMaxPolicies, SetPremiumToken, SetRiskPool, vars
<1> QED
  BY <1>2, <1>3, HolderSound, DecisionSound DEF Next

\* Every reachable state satisfies it.
LEMMA LifecycleAlways == Spec => []LifecycleInv
<1>1. Init => LifecycleInv
  BY DEF Init, LifecycleInv
<1> QED
  BY <1>1, LifecycleStep, TypeCorrect, PTL DEF Spec

\* However claims, votes, decisions, coverage increases, renewals and the
\* clock interleave: no policy is paid more than its coverage, the claim
\* record a payout reads is the amount the policy opened, a policy closes
\* exactly when its coverage is used up, and pending claims were filed in
\* term.
THEOREM LifecycleCorrect ==
  Spec => [](LifecycleSound /\ OpenClaimMatchesRecord)
BY LifecycleAlways, LifecycleInvIs, PTL DEF LifecycleSound

\* In particular the claim record that a payout reads is the amount that the
\* policy has open, through every way a claim is filed, decided and filed again.
THEOREM RecordCorrect == Spec => []OpenClaimMatchesRecord
BY LifecycleAlways, LifecycleInvIs, PTL

-----------------------------------------------------------------------------
(* What stops, stops.                                                      *)

\* Selling a policy adds one entry and leaves the others alone.
LEMMA SoldApart ==
  ASSUME TypeOK, NEW h \in Holders, NEW t \in PolicyTypes, NEW c \in Coverages,
         NEW d \in Durations, CreatePolicy(h, t, c, d), NEW p \in DOMAIN policies
  PROVE  policies'[p] = policies[p] /\ votes'[p] = votes[p] /\ UNCHANGED token
<1>1. p # policy_counter /\ p \in DOMAIN votes
  BY DEF TypeOK
<1> QED
  BY <1>1 DEF CreatePolicy, Put

\* What a policyholder's entry point other than a sale does needs a contract
\* that is not paused, and a policy that is not at its end; expiry can be stored
\* at any time.
LEMMA HolderChange ==
  ASSUME TypeOK, HolderNext, NEW p \in DOMAIN policies, policies'[p] # policies[p]
  PROVE  \/ policies[p].status = "Active" /\ policies'[p].status = "Expired"
         \/ ~paused /\ policies[p].status \in {"Active", "Expired"}
<1>1. ASSUME NEW q \in DOMAIN policies, CheckExpiration(q)
      PROVE  policies[p].status = "Active" /\ policies'[p].status = "Expired"
  <2>1. /\ policies' = [policies EXCEPT ![q].status = "Expired"]
        /\ policies[q].status = "Active"
    BY <1>1 DEF CheckExpiration
  <2>2. p = q
    BY <2>1
  <2>3. policies[p] \in Policy
    BY DEF TypeOK
  <2> QED
    BY <2>1, <2>2, <2>3 DEF Policy
<1>2. ASSUME NEW q \in DOMAIN policies,
             \/ PayPremium(q)
             \/ \E amt \in ClaimAmounts : SubmitClaim(q, amt)
             \/ CancelPolicy(q)
             \/ \E c \in Coverages : IncreaseCoverage(q, c)
             \/ \E d \in Durations : ExtendDuration(q, d)
             \/ \E h \in Holders : ChangeBeneficiary(q, h)
             \/ \E d \in Durations : RenewPolicy(q, d)
      PROVE  ~paused /\ policies[p].status \in {"Active", "Expired"}
  <2>1. ~paused /\ StatusOf(q) \in {"Active", "Expired"}
    BY <1>2 DEF PayPremium, SubmitClaim, CancelPolicy, IncreaseCoverage,
       ExtendDuration, ChangeBeneficiary, RenewPolicy, Renewable
  <2>2. p = q
    BY <1>2 DEF PayPremium, SubmitClaim, CancelPolicy, IncreaseCoverage,
       ExtendDuration, ChangeBeneficiary, RenewPolicy
  <2> QED
    BY <2>1, <2>2 DEF StatusOf
<1> QED
  BY <1>1, <1>2, SoldApart DEF HolderNext

\* A decision writes the policy it decides on.
LEMMA DecisionChange ==
  ASSUME TypeOK, DecisionNext, NEW p \in DOMAIN policies, policies'[p] # policies[p]
  PROVE  policies[p].status = "ClaimPending"
<1>1. ASSUME NEW q \in DOMAIN policies, HasPendingClaim(q), Approve(q) \/ Reject(q)
      PROVE  policies[p].status = "ClaimPending"
  <2>1. p = q
    BY <1>1 DEF Approve, Reject
  <2> QED
    BY <1>1, <2>1 DEF HasPendingClaim
<1>2. ASSUME NEW q \in DOMAIN policies, NEW approved \in BOOLEAN,
             ProcessClaim(q, approved)
      PROVE  policies[p].status = "ClaimPending"
  BY <1>1, <1>2 DEF ProcessClaim
<1>3. ASSUME NEW q \in DOMAIN policies, NEW a \in AdminAddrs, NEW approve \in BOOLEAN,
             VoteClaim(q, a, approve)
      PROVE  policies[p].status = "ClaimPending"
  BY <1>1, <1>3 DEF VoteClaim
<1> QED
  BY <1>2, <1>3 DEF DecisionNext

\* Administration and time reach no policy, no vote, no total and no balance.
LEMMA AdminChange ==
  ASSUME AdminNext \/ Tick \/ UNCHANGED vars
  PROVE  UNCHANGED <<policy_counter, policies, claims, votes, totals, token>>
BY DEF AdminNext, AddAdmin, RemoveAdmin, SetThreshold, SetPaused,
   SetMaxPolicies, SetPremiumToken, SetRiskPool, Tick, vars

\* A policy that was cancelled or exhausted never changes again, and a paused
\* contract sells, collects and counts nothing, whatever else happens to it.
THEOREM StopsCorrect == Spec => StopsHold
<1> DEFINE Ended ==
      \A p \in DOMAIN policies :
        policies[p].status \in {"Cancelled", "ClaimApproved"} => policies'[p] = policies[p]
    Frozen ==
      paused /\ paused' =>
        /\ UNCHANGED <<policy_counter, total_premium, votes>>
        /\ \A p \in DOMAIN policies : policies'[p] # policies[p] =>
             \/ policies[p].status = "ClaimPending"
             \/ policies[p].status = "Active" /\ policies'[p].status = "Expired"
<1>1. TypeOK /\ [Next]_vars => [Ended]_vars
  <2> SUFFICES ASSUME TypeOK, [Next]_vars, NEW p \in DOMAIN policies,
                      policies'[p] # policies[p]
               PROVE  policies[p].status \in {"Active", "Expired", "ClaimPending"}
    OBVIOUS
  <2> QED
    BY HolderChange, DecisionChange, AdminChange DEF Next
<1>2. TypeOK /\ [Next]_vars => [Frozen]_vars
  <2> SUFFICES ASSUME TypeOK, [Next]_vars, paused, paused' PROVE Frozen
    OBVIOUS
  <2>1. UNCHANGED <<policy_counter, total_premium, votes>>
    <3>1. CASE HolderNext
      BY <3>1 DEF HolderNext, CreatePolicy, PayPremium, SubmitClaim, CancelPolicy,
         IncreaseCoverage, ExtendDuration, ChangeBeneficiary, RenewPolicy, CheckExpiration, totals
    <3>2. CASE DecisionNext
      BY <3>2 DEF DecisionNext, ProcessClaim, VoteClaim, Approve, Reject, totals
    <3> QED
      BY <3>1, <3>2, AdminChange DEF Next, totals
  <2>2. ASSUME NEW p \in DOMAIN policies, policies'[p] # policies[p]
        PROVE  \/ policies[p].status = "ClaimPending"
               \/ policies[p].status = "Active" /\ policies'[p].status = "Expired"
    BY <2>2, HolderChange, DecisionChange, AdminChange DEF Next
  <2> QED
    BY <2>1, <2>2
<1> QED
  BY <1>1, <1>2, TypeCorrect, PTL DEF Spec, StopsHold, EndedForGood, PausedFreezesBusiness

-----------------------------------------------------------------------------
(* The payouts reported.  They are a sum over the policies, so a step has  *)
(* to account for the one entry it writes, and for leaving the rest alone. *)

Paid == [p \in DOMAIN policies |-> policies[p].total_claimed]

\* What a policy was paid is a field of its own.
LEMMA ClaimedKept ==
  ASSUME NEW r \in Policy, NEW s, NEW m, NEW n
  PROVE  /\ [r EXCEPT !.status = s].total_claimed = r.total_claimed
         /\ [r EXCEPT !.status = s, !.claim_amount = n].total_claimed = r.total_claimed
         /\ [r EXCEPT !.claim_amount = n, !.status = s].total_claimed = r.total_claimed
         /\ [r EXCEPT !.coverage_amount = n].total_claimed = r.total_claimed
         /\ [r EXCEPT !.end_time = n].total_claimed = r.total_claimed
         /\ [r EXCEPT !.beneficiary = n].total_claimed = r.total_claimed
         /\ [r EXCEPT !.premium = m, !.end_time = n, !.status = s].total_claimed
              = r.total_claimed
BY DEF Policy

\* The entry points of policyholders and the rejection of a claim keep what
\* every policy was paid.
LEMMA PaidKept ==
  ASSUME TypeOK, NEW p \in DOMAIN policies,
         \/ PayPremium(p)
         \/ \E amt \in ClaimAmounts : SubmitClaim(p, amt)
         \/ CancelPolicy(p)
         \/ \E c \in Coverages : IncreaseCoverage(p, c)
         \/ \E d \in Durations : ExtendDuration(p, d)
         \/ \E h \in Holders : ChangeBeneficiary(p, h)
         \/ \E d \in Durations : RenewPolicy(p, d)
         \/ CheckExpiration(p)
         \/ Reject(p)
  PROVE  UNCHANGED Paid /\ UNCHANGED total_payouts
<1>1. policies[p] \in Policy
  BY DEF TypeOK
<1>2. UNCHANGED total_payouts
  BY DEF PayPremium, SubmitClaim, CancelPolicy, IncreaseCoverage, ExtendDuration,
     ChangeBeneficiary, RenewPolicy, CheckExpiration, Reject, totals
<1>3. ASSUME NEW r, policies' = [policies EXCEPT ![p] = r],
             r.total_claimed = policies[p].total_claimed
      PROVE  UNCHANGED Paid
  BY <1>3 DEF Paid
<1>4. UNCHANGED Paid
  <2>1. CASE PayPremium(p)
    BY <2>1 DEF PayPremium, Paid
  <2>2. CASE CancelPolicy(p) \/ CheckExpiration(p)
    <3>1. \/ policies' = [policies EXCEPT ![p] = [policies[p] EXCEPT !.status = "Cancelled"]]
          \/ policies' = [policies EXCEPT ![p] = [policies[p] EXCEPT !.status = "Expired"]]
      BY <2>2 DEF CancelPolicy, CheckExpiration
    <3> QED
      BY <1>1, <1>3, <3>1, ClaimedKept
  <2>3. CASE Reject(p)
    <3>1. policies' = [policies EXCEPT ![p] = Rejected(p)]
      BY <2>3 DEF Reject
    <3>2. Rejected(p).total_claimed = policies[p].total_claimed
      BY <1>1 DEF Rejected, Policy
    <3> QED
      BY <1>3, <3>1, <3>2
  <2>4. ASSUME NEW amt \in ClaimAmounts, SubmitClaim(p, amt) PROVE UNCHANGED Paid
    <3>1. policies' = [policies EXCEPT ![p] =
            [policies[p] EXCEPT !.claim_amount = amt, !.status = "ClaimPending"]]
      BY <2>4 DEF SubmitClaim
    <3> QED
      BY <1>1, <1>3, <3>1, ClaimedKept
  <2>5. ASSUME NEW c \in Coverages, IncreaseCoverage(p, c) PROVE UNCHANGED Paid
    <3>1. policies' = [policies EXCEPT ![p] = [policies[p] EXCEPT !.coverage_amount = c]]
      BY <2>5 DEF IncreaseCoverage
    <3> QED
      BY <1>1, <1>3, <3>1, ClaimedKept
  <2>6. ASSUME NEW d \in Durations, ExtendDuration(p, d) PROVE UNCHANGED Paid
    <3>1. PICK n : policies' = [policies EXCEPT ![p] = [policies[p] EXCEPT !.end_time = n]]
      BY <2>6 DEF ExtendDuration
    <3> QED
      BY <1>1, <1>3, <3>1, ClaimedKept
  <2>7. ASSUME NEW h \in Holders, ChangeBeneficiary(p, h) PROVE UNCHANGED Paid
    <3>1. policies' = [policies EXCEPT ![p] = [policies[p] EXCEPT !.beneficiary = h]]
      BY <2>7 DEF ChangeBeneficiary
    <3> QED
      BY <1>1, <1>3, <3>1, ClaimedKept
  <2>8. ASSUME NEW d \in Durations, RenewPolicy(p, d) PROVE UNCHANGED Paid
    <3> DEFINE m == CalculatePremium(policies[p].policy_type,
                                     policies[p].coverage_amount, d)
               n == (IF IsExpired(p) THEN now ELSE policies[p].end_time) + d
               r == [policies[p] EXCEPT !.premium = m, !.end_time = n, !.status = "Active"]
    <3>1. policies' = [policies EXCEPT ![p] = r]
      BY <2>8 DEF RenewPolicy
    <3> HIDE DEF m, n
    <3>2. r.total_claimed = policies[p].total_claimed
      BY <1>1, ClaimedKept
    <3> HIDE DEF r
    <3> QED
      BY <1>3, <3>1, <3>2
  <2> QED
    BY <2>1, <2>2, <2>3, <2>4, <2>5, <2>6, <2>7, <2>8
<1> QED
  BY <1>2, <1>4

\* There are finitely many policies, each paid a number.
LEMMA PaidType ==
  ASSUME TypeOK
  PROVE  /\ IsFiniteSet(DOMAIN policies)
         /\ \A q \in DOMAIN policies : policies[q].total_claimed \in Int
<1>1. DOMAIN policies = 0 .. (policy_counter - 1) /\ policy_counter - 1 \in Int
  BY DEF TypeOK
<1>2. IsFiniteSet(DOMAIN policies)
  BY <1>1, FS_Interval
<1>3. \A q \in DOMAIN policies : policies[q].total_claimed \in Int
  BY DEF TypeOK, Policy
<1> QED
  BY <1>2, <1>3

\* An approval adds the claim's amount to what its policy was paid and to the
\* payouts reported.
LEMMA PaidByApproval ==
  ASSUME TypeOK, PayoutsAreClaimsPaid, NEW p \in DOMAIN claims, Approve(p)
  PROVE  PayoutsAreClaimsPaid'
<1> DEFINE amt == claims[p].claim_amount
<1>1. /\ p \in DOMAIN policies /\ policies[p] \in Policy /\ amt \in Nat
      /\ IsFiniteSet(DOMAIN policies) /\ total_payouts \in Nat
      /\ \A q \in DOMAIN policies : policies[q].total_claimed \in Int
  BY PaidType DEF TypeOK, Claim, Policy
<1>2. Approved(p).total_claimed = policies[p].total_claimed + amt
  BY <1>1 DEF Approved, Policy
<1>3. /\ policies' = [policies EXCEPT ![p] = Approved(p)]
      /\ total_payouts' = total_payouts + amt
  BY DEF Approve
<1>4. /\ DOMAIN Paid = DOMAIN policies /\ DOMAIN Paid' = DOMAIN policies
      /\ \A q \in DOMAIN policies : Paid[q] = policies[q].total_claimed
      /\ \A q \in DOMAIN policies \ {p} : Paid'[q] = Paid[q]
      /\ Paid'[p] = Paid[p] + amt
  BY <1>1, <1>2, <1>3 DEF Paid
<1>5. /\ ValueAt(Paid, p) = Paid[p] /\ ValueAt(Paid', p) = Paid[p] + amt
      /\ Paid[p] \in Int
  BY <1>1, <1>4 DEF ValueAt
<1>6. SumFunction(Paid') = SumFunction(Paid) - ValueAt(Paid, p) + ValueAt(Paid', p)
  BY <1>1, <1>4, <1>5, SumWritten
<1>7. SumFunction(Paid) = total_payouts
  BY DEF PayoutsAreClaimsPaid, Paid
<1>8. SumFunction(Paid') = total_payouts + amt
  BY <1>1, <1>5, <1>6, <1>7
<1> QED
  BY <1>3, <1>8 DEF PayoutsAreClaimsPaid, Paid

\* Nothing was paid on a policy just sold.
LEMMA PaidBySale ==
  ASSUME TypeOK, PayoutsAreClaimsPaid, NEW h \in Holders, NEW t \in PolicyTypes,
         NEW c \in Coverages, NEW d \in Durations, CreatePolicy(h, t, c, d)
  PROVE  PayoutsAreClaimsPaid'
<1> DEFINE p == policy_counter
<1>1. /\ IsFiniteSet(DOMAIN policies) /\ p \notin DOMAIN policies
      /\ total_payouts \in Nat
      /\ \A q \in DOMAIN policies : policies[q].total_claimed \in Int
  BY PaidType DEF TypeOK
<1>2. /\ DOMAIN policies' = DOMAIN policies \cup {p}
      /\ \A q \in DOMAIN policies : policies'[q] = policies[q]
      /\ policies'[p].total_claimed = 0
      /\ UNCHANGED total_payouts
  BY <1>1 DEF CreatePolicy, Put, totals
<1> HIDE DEF p
<1>3. /\ DOMAIN Paid = DOMAIN policies /\ DOMAIN Paid' = DOMAIN policies \cup {p}
      /\ \A q \in DOMAIN policies : Paid[q] = policies[q].total_claimed
      /\ \A q \in DOMAIN policies : Paid'[q] = Paid[q]
      /\ Paid'[p] = 0
  BY <1>1, <1>2 DEF Paid
<1>4. ValueAt(Paid, p) = 0 /\ ValueAt(Paid', p) = 0
  BY <1>1, <1>3 DEF ValueAt
<1>5. SumFunction(Paid') = SumFunction(Paid) - ValueAt(Paid, p) + ValueAt(Paid', p)
  BY <1>1, <1>3, <1>4, SumWritten
<1>6. SumFunction(Paid) = total_payouts
  BY DEF PayoutsAreClaimsPaid, Paid
<1>7. SumFunction(Paid') = total_payouts
  BY <1>1, <1>4, <1>5, <1>6
<1> QED
  BY <1>2, <1>7 DEF PayoutsAreClaimsPaid, Paid

\* Every entry point keeps the payouts the sum of what the claims were paid.
LEMMA PaidStep == TypeOK /\ PayoutsAreClaimsPaid /\ [Next]_vars => PayoutsAreClaimsPaid'
<1> SUFFICES ASSUME TypeOK, PayoutsAreClaimsPaid, [Next]_vars
             PROVE  PayoutsAreClaimsPaid'
  OBVIOUS
<1>1. CASE UNCHANGED Paid /\ UNCHANGED total_payouts
  BY <1>1 DEF PayoutsAreClaimsPaid, Paid
<1>2. CASE UNCHANGED <<policies, totals>>
  BY <1>2 DEF PayoutsAreClaimsPaid, totals
<1>3. CASE HolderNext
  BY <1>1, <1>3, PaidBySale, PaidKept DEF HolderNext
<1>4. ASSUME NEW p \in DOMAIN policies, HasPendingClaim(p),
             Approve(p) \/ Reject(p) \/ UNCHANGED <<policies, totals>>
      PROVE  PayoutsAreClaimsPaid'
  BY <1>1, <1>2, <1>4, PaidByApproval, PaidKept DEF HasPendingClaim
<1>5. CASE DecisionNext
  <2>1. ASSUME NEW p \in DOMAIN policies, NEW approved \in BOOLEAN,
               ProcessClaim(p, approved)
        PROVE  PayoutsAreClaimsPaid'
    BY <1>4, <2>1 DEF ProcessClaim
  <2>2. ASSUME NEW p \in DOMAIN policies, NEW a \in AdminAddrs,
               NEW approve \in BOOLEAN, VoteClaim(p, a, approve)
        PROVE  PayoutsAreClaimsPaid'
    BY <1>4, <2>2 DEF VoteClaim
  <2> QED
    BY <1>5, <2>1, <2>2 DEF DecisionNext
<1>6. CASE AdminNext \/ Tick \/ UNCHANGED vars
  BY <1>2, <1>6, AdminChange
<1> QED
  BY <1>3, <1>5, <1>6 DEF Next

\* What get_treasury_stats reports as paid out is the sum of what the
\* policies were paid, however many there are and whoever decided.
THEOREM PaidCorrect == Spec => []PayoutsAreClaimsPaid
<1>1. Init => PayoutsAreClaimsPaid
  <2> SUFFICES ASSUME Init PROVE SumFunction(Paid) = 0
    BY DEF Init, PayoutsAreClaimsPaid, Paid
  <2>1. DOMAIN Paid = {}
    BY DEF Init, Paid
  <2> QED
    BY <2>1, SumEmpty DEF SumFunction
<1> QED
  BY <1>1, PaidStep, TypeCorrect, PTL DEF Spec

-----------------------------------------------------------------------------
(* Votes.                                                                  *)

\* While neither outcome is certain, fewer admins than there are have voted.
LEMMA SomebodyLeft ==
  ASSUME TypeOK, NEW ballots \in ClaimVotes,
         ~ThresholdReached(ballots), ~RejectionForced(ballots)
  PROVE  \E a \in admins : a \notin ballots.approvals \cup ballots.rejections
<1> DEFINE A == ballots.approvals
           R == ballots.rejections
<1>1. /\ IsFiniteSet(A) /\ IsFiniteSet(R) /\ IsFiniteSet(admins)
  BY ContractAssumption, FS_Subset DEF TypeOK, ClaimVotes
<1>2. /\ Cardinality(A) \in Nat /\ Cardinality(R) \in Nat
      /\ Cardinality(admins) \in Nat /\ threshold \in Nat
  BY <1>1, FS_CardinalityType DEF TypeOK
<1>3. Cardinality(A) < threshold /\ Cardinality(R) <= Cardinality(admins) - threshold
  BY <1>2 DEF ThresholdReached, RejectionForced
<1> HIDE DEF A, R
<1>4. IsFiniteSet(A \cup R) /\ Cardinality(A \cup R) < Cardinality(admins)
  <2>1. IsFiniteSet(A \cap R)
    BY <1>1, FS_Intersection
  <2>2. Cardinality(A \cap R) \in Nat
    BY <2>1, FS_CardinalityType
  <2>3. /\ IsFiniteSet(A \cup R)
        /\ Cardinality(A \cup R) = Cardinality(A) + Cardinality(R) - Cardinality(A \cap R)
    BY <1>1, FS_Union
  <2> QED
    BY <1>2, <1>3, <2>2, <2>3
<1>5. ~(admins \subseteq A \cup R)
  <2> SUFFICES ASSUME admins \subseteq A \cup R PROVE FALSE
    OBVIOUS
  <2>1. Cardinality(admins) <= Cardinality(A \cup R) /\ Cardinality(A \cup R) \in Nat
    BY <1>4, FS_Subset, FS_CardinalityType
  <2> QED
    BY <1>2, <1>4, <2>1
<1> QED
  BY <1>5 DEF A, R

\* A vote that decides nothing leaves an admin who has not voted, although
\* the board changes while the vote is open and removed admins' votes count on.
THEOREM VotingCorrect == Spec => VotingCanGoOn
<1> DEFINE GoesOn ==
      \A p \in DOMAIN votes :
        votes'[p] # votes[p] /\ policies'[p].status = "ClaimPending" =>
          \E a \in admins : a \notin votes'[p].approvals \cup votes'[p].rejections
<1>1. TypeOK /\ [Next]_vars => [GoesOn]_vars
  <2> SUFFICES ASSUME TypeOK, [Next]_vars, NEW p \in DOMAIN votes,
                      votes'[p] # votes[p], policies'[p].status = "ClaimPending"
               PROVE  \E a \in admins : a \notin votes'[p].approvals \cup votes'[p].rejections
    OBVIOUS
  <2>1. p \in DOMAIN policies
    BY DEF TypeOK
  <2>2. PICK q \in DOMAIN policies, voter \in AdminAddrs, approve \in BOOLEAN :
          VoteClaim(q, voter, approve)
    <3>1. CASE HolderNext
      BY <2>1, <3>1, SoldApart DEF HolderNext, PayPremium, SubmitClaim, CancelPolicy,
         IncreaseCoverage, ExtendDuration, ChangeBeneficiary, RenewPolicy, CheckExpiration
    <3>2. CASE DecisionNext
      BY <3>2 DEF DecisionNext, ProcessClaim
    <3> QED
      BY <3>1, <3>2, AdminChange DEF Next
  <2> DEFINE ballots == IF approve
                        THEN [votes[q] EXCEPT !.approvals = @ \cup {voter}]
                        ELSE [votes[q] EXCEPT !.rejections = @ \cup {voter}]
  <2>3. q = p
    BY <2>2 DEF VoteClaim
  <2>4. ballots \in ClaimVotes
    <3>1. votes[q] \in ClaimVotes
      BY <2>3 DEF TypeOK
    <3> QED
      BY <3>1 DEF ClaimVotes
  <2>5. ~Approve(q) /\ ~Reject(q)
    <3>1. policies[q] \in Policy
      BY DEF TypeOK
    <3>2. Approved(q).status # "ClaimPending" /\ Rejected(q).status # "ClaimPending"
      BY <3>1 DEF Approved, Rejected, Policy
    <3> QED
      BY <2>1, <2>3, <3>2 DEF Approve, Reject
  <2>6. /\ ~ThresholdReached(ballots) /\ ~RejectionForced(ballots)
        /\ votes' = [votes EXCEPT ![q] = ballots]
    BY <2>2, <2>5 DEF VoteClaim
  <2> HIDE DEF ballots
  <2> QED
    BY <2>3, <2>4, <2>6, SomebodyLeft
<1> QED
  BY <1>1, TypeCorrect, PTL DEF Spec, VotingCanGoOn

-----------------------------------------------------------------------------
(* Payments to policyholders.                                              *)

\* Collecting a premium gives no policyholder anything.
LEMMA CollectGives ==
  ASSUME TypeOK, NEW p \in DOMAIN policies, NEW dest \in {Contract, PoolAddr},
         NEW amt \in Nat, Collect(p, dest, amt), NEW h \in Holders
  PROVE  token'[h] <= token[h]
<1> DEFINE payer == policies[p].policyholder
<1>1. /\ payer \in Accounts /\ h \in Accounts /\ h # dest /\ payer # dest
      /\ dest \in Accounts
  <2>1. policies[p] \in Policy
    BY DEF TypeOK
  <2>2. payer \in Holders
    BY <2>1 DEF Policy
  <2> QED
    BY <2>2, PoolAssumption, ContractAssumption
<1>2. token \in [Accounts -> Nat]
  BY DEF TypeOK, PoolTypeOK
<1>3. token' = [token EXCEPT ![payer] = @ - amt, ![dest] = @ + amt]
  BY DEF Collect, Transferred
<1> HIDE DEF payer
<1> QED
  BY <1>1, <1>2, <1>3

\* Only the holder of the policy gains by its payout, and the whole amount.
LEMMA PaymentGives ==
  ASSUME TypeOK, NEW p \in DOMAIN claims, PayFromContract(p) \/ PayFromPool(p),
         NEW h \in Holders, token'[h] > token[h]
  PROVE  /\ h = policies[p].policyholder
         /\ token'[h] = token[h] + claims[p].claim_amount
<1> DEFINE payee == policies[p].policyholder
           amt == claims[p].claim_amount
<1>1. /\ payee \in Accounts \ {Contract, PoolAddr} /\ h \in Accounts \ {Contract, PoolAddr}
      /\ Contract \in Accounts /\ PoolAddr \in Accounts
      /\ amt \in Nat
  <2>1. policies[p] \in Policy /\ claims[p] \in Claim
    BY DEF TypeOK
  <2>2. payee \in Holders /\ amt \in Nat
    BY <2>1 DEF Policy, Claim
  <2> QED
    BY <2>2, PoolAssumption, ContractAssumption
<1>2. token \in [Accounts -> Nat]
  BY DEF TypeOK, PoolTypeOK
<1>3. PICK payer \in {Contract, PoolAddr} :
        token' = [token EXCEPT ![payer] = @ - amt, ![payee] = @ + amt]
  BY DEF PayFromContract, PayFromPool, FundPayout, Transferred
<1>4. payer \in Accounts /\ payer # payee /\ payer # h
  BY <1>1
<1> HIDE DEF payee, amt
<1>5. h = payee
  <2> SUFFICES ASSUME h # payee PROVE FALSE
    OBVIOUS
  <2>1. token'[h] = token[h]
    BY <1>1, <1>2, <1>3, <1>4
  <2> QED
    BY <1>1, <1>2, <2>1
<1>6. token'[h] = token[h] + amt
  BY <1>1, <1>2, <1>3, <1>4, <1>5
<1> QED
  BY <1>5, <1>6 DEF payee, amt

\* No entry point of policyholders pays one of them.
LEMMA HolderGives ==
  ASSUME TypeOK, HolderNext, NEW h \in Holders
  PROVE  token'[h] <= token[h]
<1>1. CASE UNCHANGED token
  <2>1. token[h] \in Nat
    BY PoolAssumption DEF TypeOK, PoolTypeOK
  <2> QED
    BY <1>1, <2>1
<1>2. ASSUME NEW p \in DOMAIN policies,
             \/ PayPremium(p)
             \/ \E c \in Coverages : IncreaseCoverage(p, c)
             \/ \E d \in Durations : ExtendDuration(p, d)
             \/ \E d \in Durations : RenewPolicy(p, d)
      PROVE  token'[h] <= token[h]
  BY <1>2, PremiumCollected, CollectGives
<1> QED
  BY <1>1, <1>2 DEF HolderNext, CreatePolicy, SubmitClaim, CancelPolicy,
     ChangeBeneficiary, CheckExpiration

\* Whatever a policyholder gains is the payout, whole, of a claim of theirs
\* that was pending and is approved by that step, on every payment path.
THEOREM PayoutsCorrect == Spec => OnlyPendingClaimsPay
<1> DEFINE Earned(h) ==
      token'[h] > token[h] =>
        \E p \in DOMAIN policies :
          /\ policies[p].policyholder = h
          /\ policies[p].status = "ClaimPending" /\ ~claims[p].approved
          /\ token'[h] = token[h] + policies[p].claim_amount
          /\ policies'[p].status # "ClaimPending" /\ claims'[p].approved
<1>1. TypeOK /\ LifecycleInv /\ [Next]_vars => [\A h \in Holders : Earned(h)]_vars
  <2> SUFFICES ASSUME TypeOK, LifecycleInv, [Next]_vars, NEW h \in Holders,
                      token'[h] > token[h]
               PROVE  Earned(h)!2
    OBVIOUS
  <2>1. token[h] \in Nat /\ token'[h] \in Nat
    <3>1. TypeOK'
      BY TypeStep
    <3> QED
      BY <3>1, PoolAssumption DEF TypeOK, PoolTypeOK
  <2> DEFINE Pays(q) == /\ HasPendingClaim(q) /\ Approve(q)
                        /\ PayFromContract(q) \/ PayFromPool(q)
  <2>2. PICK p \in DOMAIN claims : Pays(p)
    <3>1. token' # token
      BY <2>1
    <3>2. ~HolderNext
      BY <2>1, HolderGives
    <3>3. ASSUME NEW q \in DOMAIN policies, NEW approved \in BOOLEAN,
                 ProcessClaim(q, approved)
          PROVE  q \in DOMAIN claims /\ Pays(q)
      BY <3>1, <3>3 DEF ProcessClaim, Reject, HasPendingClaim
    <3>4. ASSUME NEW q \in DOMAIN policies, NEW a \in AdminAddrs,
                 NEW approve \in BOOLEAN, VoteClaim(q, a, approve)
          PROVE  q \in DOMAIN claims /\ Pays(q)
      BY <3>1, <3>4 DEF VoteClaim, Reject, HasPendingClaim
    <3> HIDE DEF Pays
    <3> QED
      BY <3>1, <3>2, <3>3, <3>4, AdminChange DEF Next, DecisionNext
  <2>3. /\ p \in DOMAIN policies /\ Sound(p) /\ policies[p].status = "ClaimPending"
        /\ policies[p] \in Policy /\ claims[p] \in Claim
    BY <2>2 DEF HasPendingClaim, LifecycleInv, TypeOK
  <2>4. h = policies[p].policyholder /\ token'[h] = token[h] + policies[p].claim_amount
    BY <2>2, <2>3, PaymentGives DEF Sound
  <2>5. policies'[p].status # "ClaimPending" /\ claims'[p].approved
    <3>1. Approved(p).status # "ClaimPending"
      BY <2>3 DEF Approved, Policy
    <3>2. policies'[p] = Approved(p)
      BY <2>2, <2>3 DEF Approve
    <3>3. claims' = [claims EXCEPT ![p] = [claims[p] EXCEPT !.approved = TRUE]]
      BY <2>2 DEF Approve
    <3> QED
      BY <2>3, <3>1, <3>2, <3>3 DEF Claim
  <2> QED
    BY <2>3, <2>4, <2>5 DEF Sound
<1>2. Spec => []LifecycleInv
  BY LifecycleAlways
<1> QED
  BY <1>1, <1>2, TypeCorrect, PTL DEF Spec, OnlyPendingClaimsPay

-----------------------------------------------------------------------------
(* The coverage ledger.                                                    *)

Ledger == INSTANCE CoverageLedger WITH
            Amount <- Nat, ledger <- LedgerOf, paid_out <- total_payouts

AccountOf(pol) ==
  [limit  |-> pol.coverage_amount, paid |-> pol.total_claimed,
   open   |-> pol.claim_amount,
   closed |-> pol.status \in {"Cancelled", "ClaimApproved"}]

\* One field of an account written leaves the others as they were.
LEMMA FieldWritten ==
  ASSUME NEW acc, NEW limit, NEW paid, NEW open, NEW closed,
         acc = [limit |-> limit, paid |-> paid, open |-> open, closed |-> closed],
         NEW value
  PROVE  /\ [acc EXCEPT !.paid = value]
              = [limit |-> limit, paid |-> value, open |-> open, closed |-> closed]
         /\ [acc EXCEPT !.open = value]
              = [limit |-> limit, paid |-> paid, open |-> value, closed |-> closed]
         /\ [acc EXCEPT !.closed = value]
              = [limit |-> limit, paid |-> paid, open |-> open, closed |-> value]
<1>1. [acc EXCEPT !.paid = value]
        = [limit |-> limit, paid |-> value, open |-> open, closed |-> closed]
  BY SMT
<1>2. [acc EXCEPT !.open = value]
        = [limit |-> limit, paid |-> paid, open |-> value, closed |-> closed]
  BY SMT
<1>3. [acc EXCEPT !.closed = value]
        = [limit |-> limit, paid |-> paid, open |-> open, closed |-> value]
  BY SMT
<1> QED
  BY <1>1, <1>2, <1>3, Zenon

\* A payment writes three fields, one after the other.
LEMMA FieldsWritten ==
  ASSUME NEW acc, NEW limit, NEW paid, NEW open, NEW closed,
         acc = [limit |-> limit, paid |-> paid, open |-> open, closed |-> closed],
         NEW sum, NEW left, NEW done
  PROVE  [acc EXCEPT !.paid = sum, !.open = left, !.closed = done]
           = [limit |-> limit, paid |-> sum, open |-> left, closed |-> done]
<1>1. PICK acc2 : acc2 = [acc EXCEPT !.paid = sum]
  OBVIOUS
<1>2. acc2 = [limit |-> limit, paid |-> sum, open |-> open, closed |-> closed]
  BY <1>1, FieldWritten, Zenon
<1>3. PICK acc3 : acc3 = [acc2 EXCEPT !.open = left]
  OBVIOUS
<1>4. acc3 = [limit |-> limit, paid |-> sum, open |-> left, closed |-> closed]
  BY <1>2, <1>3, FieldWritten, Zenon
<1>5. PICK acc4 : acc4 = [acc3 EXCEPT !.closed = done]
  OBVIOUS
<1>6. acc4 = [limit |-> limit, paid |-> sum, open |-> left, closed |-> done]
  BY <1>4, <1>5, FieldWritten, Zenon
<1>7. [acc EXCEPT !.paid = sum, !.open = left, !.closed = done] = acc4
  BY <1>1, <1>3, <1>5, Zenon
<1> QED
  BY <1>6, <1>7, Zenon

\* The account of a policy that is cancelled.
LEMMA AccountClosed ==
  ASSUME NEW pol
  PROVE  [AccountOf(pol) EXCEPT !.closed = TRUE]
           = [limit |-> pol.coverage_amount, paid |-> pol.total_claimed,
              open |-> pol.claim_amount, closed |-> TRUE]
<1>1. PICK acc : acc = AccountOf(pol)
  OBVIOUS
<1>2. PICK closed : closed = (pol.status \in {"Cancelled", "ClaimApproved"})
  OBVIOUS
<1>3. PICK done : done = TRUE
  OBVIOUS
<1>4. acc = [limit |-> pol.coverage_amount, paid |-> pol.total_claimed,
             open |-> pol.claim_amount, closed |-> closed]
  BY <1>1, <1>2, Zenon DEF AccountOf
<1>5. [acc EXCEPT !.closed = done]
        = [limit |-> pol.coverage_amount, paid |-> pol.total_claimed,
           open |-> pol.claim_amount, closed |-> done]
  BY <1>4, SMT
<1> QED
  BY <1>1, <1>3, <1>5, Zenon

\* The account of a policy whose claim is paid.
LEMMA AccountPaid ==
  ASSUME NEW pol, NEW sum, NEW done
  PROVE  [AccountOf(pol) EXCEPT !.paid = sum, !.open = 0, !.closed = done]
           = [limit |-> pol.coverage_amount, paid |-> sum, open |-> 0, closed |-> done]
<1>1. PICK acc, closed, limit, paid, open, zero :
        /\ acc = AccountOf(pol) /\ closed = (pol.status \in {"Cancelled", "ClaimApproved"})
        /\ limit = pol.coverage_amount
        /\ paid = pol.total_claimed /\ open = pol.claim_amount /\ zero = 0
  BY Zenon
<1>2. acc = [limit |-> limit, paid |-> paid, open |-> open, closed |-> closed]
  BY <1>1, Zenon DEF AccountOf
<1>3. PICK acc2 : acc2 = [acc EXCEPT !.paid = sum, !.open = zero, !.closed = done]
  OBVIOUS
<1>4. acc2 = [limit |-> limit, paid |-> sum, open |-> zero, closed |-> done]
  BY <1>2, <1>3, FieldsWritten, Zenon
<1> QED
  BY <1>1, <1>3, <1>4, Zenon

\* What an entry point that writes one policy does to the ledger.
LEMMA LedgerEdited ==
  ASSUME TypeOK, NEW p \in DOMAIN policies, NEW r,
         policies' = [policies EXCEPT ![p] = r]
  PROVE  /\ LedgerOf' = [LedgerOf EXCEPT ![p] = AccountOf(r)]
         /\ DOMAIN LedgerOf = DOMAIN policies
         /\ LedgerOf[p] = AccountOf(policies[p])
         /\ LedgerOf = [q \in DOMAIN LedgerOf |-> LedgerOf[q]]
<1>1. LedgerOf' = [q \in DOMAIN policies |-> AccountOf(policies'[q])]
  BY DEF LedgerOf, AccountOf, TypeOK
<1>2. LedgerOf = [q \in DOMAIN policies |-> AccountOf(policies[q])]
  BY DEF LedgerOf, AccountOf
<1> HIDE DEF LedgerOf, AccountOf
<1>3. \A q \in DOMAIN policies : policies'[q] = IF q = p THEN r ELSE policies[q]
  BY DEF TypeOK
<1> QED
  BY <1>1, <1>2, <1>3

\* An edit that leaves limit, paid, open and closed alone does not show there.
LEMMA LedgerUntouched ==
  ASSUME TypeOK, NEW p \in DOMAIN policies, NEW r,
         policies' = [policies EXCEPT ![p] = r],
         AccountOf(r) = AccountOf(policies[p]), UNCHANGED total_payouts
  PROVE  UNCHANGED Ledger!ledgerVars
<1>1. LedgerOf' = LedgerOf
  <2>1. /\ LedgerOf' = [q \in DOMAIN policies |-> AccountOf(policies'[q])]
        /\ LedgerOf = [q \in DOMAIN policies |-> AccountOf(policies[q])]
    BY DEF LedgerOf, AccountOf, TypeOK
  <2>2. \A q \in DOMAIN policies : AccountOf(policies'[q]) = AccountOf(policies[q])
    <3>1. \A q \in DOMAIN policies : policies'[q] = IF q = p THEN r ELSE policies[q]
      BY DEF TypeOK
    <3> QED
      BY <3>1
  <2> QED
    BY <2>1, <2>2
<1> QED
  BY <1>1 DEF Ledger!ledgerVars

\* Selling a policy opens its account.
LEMMA SaleIssues ==
  ASSUME TypeOK, NEW h \in Holders, NEW t \in PolicyTypes, NEW c \in Coverages,
         NEW d \in Durations, CreatePolicy(h, t, c, d)
  PROVE  Ledger!LedgerNext
<1>1. c \in Nat /\ c > 0 /\ UNCHANGED total_payouts
  BY ContractAssumption DEF CreatePolicy, CanPrice, totals
<1>2. policy_counter \notin DOMAIN policies
  BY DEF TypeOK
<1>3. PICK new : /\ policies' = Put(policies, policy_counter, new)
                 /\ new.status = "Active" /\ new.coverage_amount = c
                 /\ new.claim_amount = 0 /\ new.total_claimed = 0
  BY DEF CreatePolicy
<1>4. PICK k : k = policy_counter
  OBVIOUS
<1>5. /\ DOMAIN policies' = DOMAIN policies \cup {k}
      /\ policies'[k] = new
      /\ \A q \in DOMAIN policies : policies'[q] = policies[q]
  BY <1>2, <1>3, <1>4 DEF Put
<1>6. /\ LedgerOf = [q \in DOMAIN policies |-> AccountOf(policies[q])]
      /\ LedgerOf' = [q \in DOMAIN policies \cup {k} |-> AccountOf(policies'[q])]
  BY <1>5 DEF LedgerOf, AccountOf
<1>7. AccountOf(new) = [limit |-> c, paid |-> 0, open |-> 0, closed |-> FALSE]
  <2>1. (new.status \in {"Cancelled", "ClaimApproved"}) = FALSE
    BY <1>3
  <2> QED
    BY <1>3, <2>1, Zenon DEF AccountOf
<1>8. /\ DOMAIN LedgerOf = DOMAIN policies /\ DOMAIN LedgerOf' = DOMAIN policies \cup {k}
      /\ LedgerOf' = [x \in DOMAIN LedgerOf \cup {k} |->
                        IF x = k THEN AccountOf(new) ELSE LedgerOf[x]]
  BY <1>2, <1>4, <1>5, <1>6
<1>9. Ledger!Issue(k, c) /\ k \in DOMAIN LedgerOf' \ DOMAIN LedgerOf
  BY <1>1, <1>2, <1>4, <1>7, <1>8 DEF Ledger!Issue
<1> QED
  BY <1>1, <1>9 DEF Ledger!LedgerNext

\* What policyholders do to a policy is a step of its account, or none of its
\* business.
LEMMA HolderLedger ==
  ASSUME TypeOK, LifecycleInv, NEW p \in DOMAIN policies,
         \/ PayPremium(p)
         \/ \E amt \in ClaimAmounts : SubmitClaim(p, amt)
         \/ CancelPolicy(p)
         \/ \E c \in Coverages : IncreaseCoverage(p, c)
         \/ \E d \in Durations : ExtendDuration(p, d)
         \/ \E h \in Holders : ChangeBeneficiary(p, h)
         \/ \E d \in Durations : RenewPolicy(p, d)
         \/ CheckExpiration(p)
  PROVE  Ledger!LedgerNext \/ UNCHANGED Ledger!ledgerVars
<1> DEFINE pol == policies[p]
<1>1. /\ pol \in Policy /\ Sound(p) /\ DOMAIN LedgerOf = DOMAIN policies
      /\ pol.coverage_amount \in Nat /\ pol.total_claimed \in Nat
      /\ pol.claim_amount \in Nat
  BY DEF TypeOK, LifecycleInv, Policy, LedgerOf
<1>2. CASE PayPremium(p)
  BY <1>2 DEF PayPremium, Ledger!ledgerVars, LedgerOf
<1>3. ASSUME NEW amt \in ClaimAmounts, SubmitClaim(p, amt) PROVE Ledger!LedgerNext
  <2> DEFINE r == [pol EXCEPT !.claim_amount = amt, !.status = "ClaimPending"]
  <2>1. /\ policies' = [policies EXCEPT ![p] = r] /\ UNCHANGED total_payouts
        /\ pol.status = "Active" /\ amt \in Nat /\ amt > 0
        /\ amt <= pol.coverage_amount - pol.total_claimed
    BY <1>3, ContractAssumption DEF SubmitClaim, StatusOf, RemainingCoverage, totals
  <2>2. AccountOf(r) = [AccountOf(pol) EXCEPT !.open = amt]
    BY <1>1, <2>1 DEF AccountOf, Policy
  <2>3. ~AccountOf(pol).closed /\ AccountOf(pol).open = 0
    BY <1>1, <2>1, Zenon DEF AccountOf, Sound
  <2>4. AccountOf(pol).paid + amt <= AccountOf(pol).limit
    BY <1>1, <2>1 DEF AccountOf
  <2> HIDE DEF r
  <2>5. /\ LedgerOf[p] = AccountOf(pol)
        /\ LedgerOf' = [LedgerOf EXCEPT ![p] = [LedgerOf[p] EXCEPT !.open = amt]]
    <3>1. /\ LedgerOf' = [LedgerOf EXCEPT ![p] = AccountOf(r)]
          /\ LedgerOf[p] = AccountOf(pol)
      BY <2>1, LedgerEdited
    <3> QED
      BY <2>2, <3>1
  <2>6. Ledger!OpenClaim(p, amt)
    BY <2>1, <2>3, <2>4, <2>5 DEF Ledger!OpenClaim
  <2> QED
    BY <1>1, <2>1, <2>6 DEF Ledger!LedgerNext
<1>4. CASE CancelPolicy(p)
  <2> DEFINE r == [pol EXCEPT !.status = "Cancelled"]
  <2>1. /\ policies' = [policies EXCEPT ![p] = r] /\ UNCHANGED total_payouts
        /\ pol.status = "Active"
    BY <1>4 DEF CancelPolicy, StatusOf, totals
  <2>2. AccountOf(r) = [AccountOf(pol) EXCEPT !.closed = TRUE]
    <3>1. /\ r.coverage_amount = pol.coverage_amount /\ r.total_claimed = pol.total_claimed
          /\ r.claim_amount = pol.claim_amount /\ r.status = "Cancelled"
      BY <1>1 DEF Policy
    <3>2. (r.status \in {"Cancelled", "ClaimApproved"}) = TRUE
      BY <3>1
    <3> HIDE DEF r, pol
    <3>3. AccountOf(r) = [limit |-> pol.coverage_amount, paid |-> pol.total_claimed,
                          open |-> pol.claim_amount, closed |-> TRUE]
      BY <3>1, <3>2, Zenon DEF AccountOf
    <3>4. [AccountOf(pol) EXCEPT !.closed = TRUE] =
            [limit |-> pol.coverage_amount, paid |-> pol.total_claimed,
             open |-> pol.claim_amount, closed |-> TRUE]
      BY AccountClosed, Zenon
    <3> QED
      BY <3>3, <3>4
  <2>3. ~AccountOf(pol).closed /\ AccountOf(pol).open = 0
    BY <1>1, <2>1, Zenon DEF AccountOf, Sound
  <2> HIDE DEF r
  <2>4. /\ LedgerOf[p] = AccountOf(pol)
        /\ LedgerOf' = [LedgerOf EXCEPT ![p] = [LedgerOf[p] EXCEPT !.closed = TRUE]]
    <3>1. /\ LedgerOf' = [LedgerOf EXCEPT ![p] = AccountOf(r)]
          /\ LedgerOf[p] = AccountOf(pol)
      BY <2>1, LedgerEdited
    <3> QED
      BY <2>2, <3>1
  <2>5. Ledger!Close(p)
    BY <2>1, <2>3, <2>4 DEF Ledger!Close
  <2> QED
    BY <1>1, <2>5 DEF Ledger!LedgerNext
<1>5. ASSUME NEW c \in Coverages, IncreaseCoverage(p, c) PROVE Ledger!LedgerNext
  <2> DEFINE r == [pol EXCEPT !.coverage_amount = c]
  <2>1. /\ policies' = [policies EXCEPT ![p] = r] /\ UNCHANGED total_payouts
        /\ pol.status = "Active" /\ c \in Nat /\ c > pol.coverage_amount
    BY <1>5, ContractAssumption DEF IncreaseCoverage, StatusOf
  <2>2. AccountOf(r) = [AccountOf(pol) EXCEPT !.limit = c]
    BY <1>1 DEF AccountOf, Policy
  <2>3. ~AccountOf(pol).closed /\ AccountOf(pol).open = 0 /\ c > AccountOf(pol).limit
    BY <1>1, <2>1 DEF AccountOf, Sound
  <2> HIDE DEF r
  <2>4. /\ LedgerOf[p] = AccountOf(pol)
        /\ LedgerOf' = [LedgerOf EXCEPT ![p] = [LedgerOf[p] EXCEPT !.limit = c]]
    <3>1. /\ LedgerOf' = [LedgerOf EXCEPT ![p] = AccountOf(r)]
          /\ LedgerOf[p] = AccountOf(pol)
      BY <2>1, LedgerEdited
    <3> QED
      BY <2>2, <3>1
  <2>5. Ledger!Raise(p, c)
    BY <2>1, <2>3, <2>4 DEF Ledger!Raise
  <2> QED
    BY <1>1, <2>1, <2>5 DEF Ledger!LedgerNext
<1>6. ASSUME NEW d \in Durations, ExtendDuration(p, d)
      PROVE  UNCHANGED Ledger!ledgerVars
  <2>1. /\ policies' = [policies EXCEPT ![p] = [pol EXCEPT !.end_time = @ + d]]
        /\ UNCHANGED total_payouts
    BY <1>6 DEF ExtendDuration
  <2>2. AccountOf([pol EXCEPT !.end_time = @ + d]) = AccountOf(pol)
    BY <1>1 DEF AccountOf, Policy
  <2> QED
    BY <2>1, <2>2, LedgerUntouched
<1>7. ASSUME NEW h \in Holders, ChangeBeneficiary(p, h)
      PROVE  UNCHANGED Ledger!ledgerVars
  <2>1. /\ policies' = [policies EXCEPT ![p] = [pol EXCEPT !.beneficiary = h]]
        /\ UNCHANGED total_payouts
    BY <1>7 DEF ChangeBeneficiary, totals
  <2>2. AccountOf([pol EXCEPT !.beneficiary = h]) = AccountOf(pol)
    BY <1>1 DEF AccountOf, Policy
  <2> QED
    BY <2>1, <2>2, LedgerUntouched
<1>8. ASSUME NEW d \in Durations, RenewPolicy(p, d)
      PROVE  UNCHANGED Ledger!ledgerVars
  <2>1. PICK price, end :
          /\ policies' = [policies EXCEPT ![p] =
               [pol EXCEPT !.premium = price, !.end_time = end, !.status = "Active"]]
          /\ pol.status \in {"Active", "Expired"} /\ UNCHANGED total_payouts
    BY <1>8 DEF RenewPolicy, Renewable, StatusOf
  <2>2. AccountOf([pol EXCEPT !.premium = price, !.end_time = end, !.status = "Active"])
          = AccountOf(pol)
    BY <1>1, <2>1 DEF AccountOf, Policy
  <2> QED
    BY <2>1, <2>2, LedgerUntouched
<1>9. CASE CheckExpiration(p)
  <2>1. /\ policies' = [policies EXCEPT ![p] = [pol EXCEPT !.status = "Expired"]]
        /\ pol.status = "Active" /\ UNCHANGED total_payouts
    BY <1>9 DEF CheckExpiration, totals
  <2>2. AccountOf([pol EXCEPT !.status = "Expired"]) = AccountOf(pol)
    BY <1>1, <2>1 DEF AccountOf, Policy
  <2> QED
    BY <2>1, <2>2, LedgerUntouched
<1> QED
  BY <1>2, <1>3, <1>4, <1>5, <1>6, <1>7, <1>8, <1>9

\* A decision pays the open claim whole, or declines it.
LEMMA DecisionLedger ==
  ASSUME TypeOK, LifecycleInv, NEW p \in DOMAIN policies, HasPendingClaim(p),
         Approve(p) \/ Reject(p)
  PROVE  Ledger!LedgerNext
<1> DEFINE pol == policies[p]
<1>1. /\ pol \in Policy /\ Sound(p) /\ DOMAIN LedgerOf = DOMAIN policies
      /\ pol.coverage_amount \in Nat /\ pol.total_claimed \in Nat
      /\ pol.claim_amount \in Nat /\ pol.status = "ClaimPending"
  BY DEF TypeOK, LifecycleInv, Policy, LedgerOf, HasPendingClaim
<1>2. /\ pol.claim_amount > 0 /\ claims[p].claim_amount = pol.claim_amount
      /\ pol.total_claimed + pol.claim_amount <= pol.coverage_amount
      /\ AccountOf(pol).open = pol.claim_amount
  BY <1>1 DEF Sound, AccountOf
<1>3. CASE Approve(p)
  <2>1. /\ policies' = [policies EXCEPT ![p] = Approved(p)]
        /\ total_payouts' = total_payouts + pol.claim_amount
    BY <1>2, <1>3 DEF Approve
  <2>2. AccountOf(Approved(p)) =
          [limit |-> pol.coverage_amount, paid |-> pol.total_claimed + pol.claim_amount,
           open |-> 0,
           closed |-> pol.total_claimed + pol.claim_amount = pol.coverage_amount]
    BY <1>1, <1>2 DEF AccountOf, Approved, Policy
  <2>3. AccountOf(Approved(p)) =
          [AccountOf(pol) EXCEPT
             !.paid = AccountOf(pol).paid + AccountOf(pol).open, !.open = 0,
             !.closed = AccountOf(pol).paid + AccountOf(pol).open = AccountOf(pol).limit]
    <3> DEFINE sum   == AccountOf(pol).paid + AccountOf(pol).open
               cover == AccountOf(pol).limit
    <3>1. sum = pol.total_claimed + pol.claim_amount /\ cover = pol.coverage_amount
      BY DEF AccountOf
    <3>2. AccountOf(Approved(p)) =
            [limit |-> pol.coverage_amount, paid |-> sum, open |-> 0,
             closed |-> sum = cover]
      <4> HIDE DEF sum, cover
      <4> QED
        BY <2>2, <3>1
    <3>3. AccountOf(Approved(p)) =
            [AccountOf(pol) EXCEPT !.paid = sum, !.open = 0, !.closed = sum = cover]
      <4>1. PICK done : done = (sum = cover)
        OBVIOUS
      <4>2. PICK acc : acc = [AccountOf(pol) EXCEPT !.paid = sum, !.open = 0,
                                                    !.closed = done]
        OBVIOUS
      <4> HIDE DEF sum, cover, pol
      <4>3. acc = [limit |-> pol.coverage_amount, paid |-> sum, open |-> 0,
                   closed |-> done]
        BY <4>2, AccountPaid, Zenon
      <4> QED
        BY <3>2, <4>1, <4>2, <4>3, Zenon
    <3> QED
      BY <3>3
  <2>4. /\ LedgerOf' = [LedgerOf EXCEPT ![p] = AccountOf(Approved(p))]
        /\ LedgerOf[p] = AccountOf(pol)
    BY <2>1, LedgerEdited
  <2>5. LedgerOf' =
          [LedgerOf EXCEPT
             ![p] = [LedgerOf[p] EXCEPT
               !.paid = LedgerOf[p].paid + LedgerOf[p].open, !.open = 0,
               !.closed = LedgerOf[p].paid + LedgerOf[p].open = LedgerOf[p].limit]]
    BY <2>3, <2>4
  <2>6. Ledger!Pay(p)
    BY <1>2, <2>1, <2>4, <2>5 DEF Ledger!Pay
  <2> QED
    BY <1>1, <2>6 DEF Ledger!LedgerNext
<1>4. CASE Reject(p)
  <2>1. policies' = [policies EXCEPT ![p] = Rejected(p)] /\ UNCHANGED total_payouts
    BY <1>4 DEF Reject, totals
  <2>2. AccountOf(Rejected(p)) = [AccountOf(pol) EXCEPT !.open = 0]
    BY <1>1 DEF AccountOf, Rejected, Policy
  <2>3. /\ LedgerOf[p] = AccountOf(pol)
        /\ LedgerOf' = [LedgerOf EXCEPT ![p] = [LedgerOf[p] EXCEPT !.open = 0]]
    <3>1. /\ LedgerOf' = [LedgerOf EXCEPT ![p] = AccountOf(Rejected(p))]
          /\ LedgerOf[p] = AccountOf(pol)
      BY <2>1, LedgerEdited
    <3> QED
      BY <2>2, <3>1
  <2>4. Ledger!Decline(p)
    BY <1>2, <2>1, <2>3 DEF Ledger!Decline
  <2> QED
    BY <1>1, <2>4 DEF Ledger!LedgerNext
<1> QED
  BY <1>3, <1>4

\* The contract implements the coverage ledger, for every amount and any
\* number of policies.
THEOREM LedgerImplemented == Spec => Ledger!LedgerSpec
<1>1. Init => Ledger!LedgerInit
  BY DEF Init, Ledger!LedgerInit, LedgerOf
<1>2. TypeOK /\ LifecycleInv /\ [Next]_vars => [Ledger!LedgerNext]_(Ledger!ledgerVars)
  <2> SUFFICES ASSUME TypeOK, LifecycleInv, [Next]_vars
               PROVE  Ledger!LedgerNext \/ UNCHANGED Ledger!ledgerVars
    OBVIOUS
  <2>1. CASE UNCHANGED <<policies, total_payouts>>
    BY <2>1 DEF Ledger!ledgerVars, LedgerOf
  <2>2. CASE HolderNext
    BY <2>2, SaleIssues, HolderLedger DEF HolderNext
  <2>3. ASSUME NEW p \in DOMAIN policies, NEW approved \in BOOLEAN,
               ProcessClaim(p, approved)
        PROVE  Ledger!LedgerNext
    BY <2>3, DecisionLedger DEF ProcessClaim
  <2>4. ASSUME NEW p \in DOMAIN policies, NEW a \in AdminAddrs,
               NEW approve \in BOOLEAN, VoteClaim(p, a, approve)
        PROVE  Ledger!LedgerNext \/ UNCHANGED Ledger!ledgerVars
    <3>1. /\ HasPendingClaim(p)
          /\ Approve(p) \/ Reject(p) \/ UNCHANGED <<policies, total_payouts>>
      BY <2>4 DEF VoteClaim, totals
    <3> QED
      BY <2>1, <3>1, DecisionLedger
  <2> QED
    BY <2>1, <2>2, <2>3, <2>4, AdminChange DEF Next, DecisionNext, totals
<1> QED
  BY <1>1, <1>2, TypeCorrect, LifecycleAlways, PTL DEF Spec, Ledger!LedgerSpec

-----------------------------------------------------------------------------
(* The price of a policy, for every table of rates, all tiers, units and   *)
(* widths: what its roundings can lose, and that asking for more never     *)
(* costs less.                                                             *)

\* Three floor divisions, one after the other, against the division at once:
\* n is the product of coverage and rate, d the duration, s the surcharge.
LEMMA ChainedRounding ==
  ASSUME NEW n \in Nat, NEW d \in Nat, NEW s \in Nat,
         NEW B \in Nat \ {0}, NEW Y \in Nat \ {0},
         NEW base \in Nat, NEW adj \in Nat, NEW raw \in Nat,
         base * B <= n, n < base * B + B,
         adj * Y <= base * d, base * d < adj * Y + Y,
         raw * B <= adj * s, adj * s < raw * B + B
  PROVE  /\ raw * (B * (Y * B)) <= (n * d) * s
         /\ (n * d) * s < raw * (B * (Y * B)) + B * (Y * B + s * (Y + d))
<1>1. /\ B * (Y * (raw * B)) = raw * (B * (Y * B))
      /\ B * ((adj * Y) * s) = B * (Y * (adj * s))
      /\ B * ((base * d) * s) = ((base * B) * d) * s
  OBVIOUS
<1>2. /\ raw * B \in Nat /\ adj * s \in Nat /\ adj * Y \in Nat /\ base * d \in Nat
      /\ base * B \in Nat /\ n * d \in Nat
  OBVIOUS
<1>3. raw * (B * (Y * B)) <= (n * d) * s
  <2>1. B * (Y * (raw * B)) <= B * (Y * (adj * s))
    <3>1. Y * (raw * B) <= Y * (adj * s) /\ Y * (raw * B) \in Nat /\ Y * (adj * s) \in Nat
      BY <1>2, ProductGrows
    <3> QED
      BY <3>1, ProductGrows
  <2>2. B * ((adj * Y) * s) <= B * ((base * d) * s)
    <3>1. /\ (adj * Y) * s <= (base * d) * s
          /\ (adj * Y) * s \in Nat /\ (base * d) * s \in Nat
      BY <1>2, ProductGrows
    <3> QED
      BY <3>1, ProductGrows
  <2>3. ((base * B) * d) * s <= (n * d) * s
    <3>1. (base * B) * d <= n * d /\ (base * B) * d \in Nat
      BY <1>2, ProductGrows
    <3> QED
      BY <1>2, <3>1, ProductGrows
  <2>4. /\ raw * (B * (Y * B)) \in Nat /\ B * (Y * (adj * s)) \in Nat
        /\ B * ((base * d) * s) \in Nat /\ (n * d) * s \in Nat
    BY <1>1, <1>2
  <2> QED
    BY <1>1, <2>1, <2>2, <2>3, <2>4
<1>4. (n * d) * s <= ((base * B) * d) * s + (B * d) * s
  <2>1. n * d <= (base * B + B) * d /\ (base * B + B) * d \in Nat
    BY <1>2, ProductGrows
  <2>2. (n * d) * s <= ((base * B + B) * d) * s
    BY <1>2, <2>1, ProductGrows
  <2> QED
    BY <2>2
<1>5. B * ((base * d) * s) <= B * ((adj * Y) * s) + B * (Y * s)
  <2>1. /\ (base * d) * s <= (adj * Y + Y) * s
        /\ (base * d) * s \in Nat /\ (adj * Y + Y) * s \in Nat
    BY <1>2, ProductGrows
  <2>2. B * ((base * d) * s) <= B * ((adj * Y + Y) * s)
    BY <2>1, ProductGrows
  <2> QED
    BY <2>2
<1>6. B * (Y * (adj * s)) < B * (Y * (raw * B)) + B * (Y * B)
  <2>1. PICK k \in Nat : k + 1 = raw * B + B - adj * s
    <3>1. raw * B + B - adj * s - 1 \in Nat
      BY <1>2
    <3> QED
      BY <1>2, <3>1
  <2>2. adj * s + (k + 1) = raw * B + B
    BY <1>2, <2>1
  <2>3. B * (Y * (adj * s)) + B * (Y * (k + 1)) = B * (Y * (raw * B)) + B * (Y * B)
    <3>1. B * (Y * (adj * s + (k + 1))) = B * (Y * (raw * B + B))
      BY <2>2
    <3> HIDE <2>2, <1>1
    <3> QED
      BY <1>2, <3>1
  <2>4. Y * (k + 1) \in Nat /\ Y * (k + 1) > 0
    BY ProductGrows
  <2>5. B * (Y * (k + 1)) \in Nat /\ B * (Y * (k + 1)) > 0
    BY <2>4, ProductGrows
  <2>6. B * (Y * (adj * s)) \in Nat /\ B * (Y * (raw * B)) + B * (Y * B) \in Nat
    BY <1>2
  <2> QED
    BY <2>3, <2>5, <2>6
<1>7. B * (Y * B + s * (Y + d)) = B * (Y * B) + B * (Y * s) + (B * d) * s
  OBVIOUS
<1>8. /\ (n * d) * s \in Nat /\ ((base * B) * d) * s \in Nat /\ (B * d) * s \in Nat
      /\ B * (Y * s) \in Nat /\ B * (Y * B) \in Nat /\ B * (Y * (adj * s)) \in Nat
      /\ raw * (B * (Y * B)) \in Nat
  BY <1>2
<1>9. (n * d) * s < raw * (B * (Y * B)) + B * (Y * B + s * (Y + d))
  BY <1>1, <1>4, <1>5, <1>6, <1>7, <1>8
<1> QED
  BY <1>3, <1>9

-----------------------------------------------------------------------------
(* The steps of the calculation.                                           *)

\* The surcharge is a natural number and does not fall with the coverage.
LEMMA SurchargeGrows ==
  ASSUME NEW c \in Nat
  PROVE  /\ BPS_DENOM + CoverageFactor(c) \in Nat
         /\ \A e \in Nat : e >= c =>
              BPS_DENOM + CoverageFactor(c) <= BPS_DENOM + CoverageFactor(e)
<1>1. /\ BPS_DENOM \in Nat
      /\ TIER2_THRESHOLD \in Nat /\ TIER2_SURCHARGE \in Nat
      /\ TIER3_THRESHOLD \in Nat /\ TIER3_SURCHARGE \in Nat
      /\ TIER2_THRESHOLD <= TIER3_THRESHOLD /\ TIER2_SURCHARGE <= TIER3_SURCHARGE
  BY PremiumAssumption
<1>2. \A e \in Nat : /\ e >= TIER3_THRESHOLD => CoverageFactor(e) = TIER3_SURCHARGE
                     /\ e < TIER3_THRESHOLD /\ e >= TIER2_THRESHOLD =>
                          CoverageFactor(e) = TIER2_SURCHARGE
                     /\ e < TIER2_THRESHOLD => CoverageFactor(e) = 0
  BY <1>1 DEF CoverageFactor
<1> QED
  BY <1>1, <1>2

\* Every intermediate result is a natural number within a remainder of the
\* quotient it stands for.
LEMMA StepBounds ==
  ASSUME NEW t \in PolicyTypes, NEW c \in Nat, NEW d \in Nat
  PROVE  LET s    == BPS_DENOM + CoverageFactor(c)
             base == AnnualBase(t, c)
             adj  == DurationAdjusted(t, c, d)
             raw  == RawPremium(t, c, d)
         IN  /\ s \in Nat /\ base \in Nat /\ adj \in Nat /\ raw \in Nat
             /\ base * BPS_DENOM <= c * BaseRate[t]
             /\ c * BaseRate[t] < base * BPS_DENOM + BPS_DENOM
             /\ adj * SECONDS_PER_YEAR <= base * d
             /\ base * d < adj * SECONDS_PER_YEAR + SECONDS_PER_YEAR
             /\ raw * BPS_DENOM <= adj * s
             /\ adj * s < raw * BPS_DENOM + BPS_DENOM
<1> DEFINE s    == BPS_DENOM + CoverageFactor(c)
           base == AnnualBase(t, c)
           adj  == DurationAdjusted(t, c, d)
           raw  == RawPremium(t, c, d)
<1>1. /\ BPS_DENOM \in Nat \ {0} /\ SECONDS_PER_YEAR \in Nat \ {0}
      /\ BaseRate[t] \in Nat /\ s \in Nat
  BY PremiumAssumption, SurchargeGrows
<1>2. c * BaseRate[t] \in Nat
  BY <1>1
<1>3. /\ base \in Nat /\ base * BPS_DENOM <= c * BaseRate[t]
      /\ c * BaseRate[t] < base * BPS_DENOM + BPS_DENOM
  BY <1>1, <1>2, DivisionBounds DEF AnnualBase
<1> HIDE DEF base
<1>4. base * d \in Nat
  BY <1>3
<1>5. /\ adj \in Nat /\ adj * SECONDS_PER_YEAR <= base * d
      /\ base * d < adj * SECONDS_PER_YEAR + SECONDS_PER_YEAR
  BY <1>1, <1>4, DivisionBounds DEF DurationAdjusted, base
<1> HIDE DEF adj, s
<1>6. adj * s \in Nat
  BY <1>1, <1>5
<1>7. /\ raw \in Nat /\ raw * BPS_DENOM <= adj * s
      /\ adj * s < raw * BPS_DENOM + BPS_DENOM
  BY <1>1, <1>6, DivisionBounds DEF RawPremium, adj, s
<1> QED
  BY <1>1, <1>3, <1>5, <1>7 DEF base, adj, s

\* Asking for more makes no product and no quotient of the calculation smaller.
LEMMA StepsGrow ==
  ASSUME NEW t \in PolicyTypes, NEW c \in Nat, NEW d \in Nat,
         NEW u \in PolicyTypes, NEW e \in Nat, NEW f \in Nat,
         BaseRate[t] <= BaseRate[u], c <= e, d <= f
  PROVE  /\ c * BaseRate[t] <= e * BaseRate[u]
         /\ AnnualBase(t, c) * d <= AnnualBase(u, e) * f
         /\ DurationAdjusted(t, c, d) * (BPS_DENOM + CoverageFactor(c))
              <= DurationAdjusted(u, e, f) * (BPS_DENOM + CoverageFactor(e))
         /\ RawPremium(t, c, d) <= RawPremium(u, e, f)
<1>1. /\ BPS_DENOM \in Nat \ {0} /\ SECONDS_PER_YEAR \in Nat \ {0}
      /\ BaseRate[t] \in Nat /\ BaseRate[u] \in Nat
  BY PremiumAssumption
<1>2. /\ AnnualBase(t, c) \in Nat /\ AnnualBase(u, e) \in Nat
      /\ DurationAdjusted(t, c, d) \in Nat /\ DurationAdjusted(u, e, f) \in Nat
  BY StepBounds
<1>3. c * BaseRate[t] <= e * BaseRate[u]
  BY <1>1, ProductGrows
<1>4. AnnualBase(t, c) <= AnnualBase(u, e)
  <2>1. c * BaseRate[t] \in Nat /\ e * BaseRate[u] \in Nat
    BY <1>1
  <2> QED
    BY <1>1, <1>3, <2>1, DivisionGrows DEF AnnualBase
<1>5. AnnualBase(t, c) * d <= AnnualBase(u, e) * f
  BY <1>2, <1>4, ProductGrows
<1>6. DurationAdjusted(t, c, d) <= DurationAdjusted(u, e, f)
  <2>1. AnnualBase(t, c) * d \in Nat /\ AnnualBase(u, e) * f \in Nat
    BY <1>2
  <2> QED
    BY <1>1, <1>5, <2>1, DivisionGrows DEF DurationAdjusted
<1> DEFINE s == BPS_DENOM + CoverageFactor(c)
           r == BPS_DENOM + CoverageFactor(e)
<1>7. s \in Nat /\ r \in Nat /\ s <= r
  BY SurchargeGrows
<1> HIDE DEF s, r
<1>8. DurationAdjusted(t, c, d) * s <= DurationAdjusted(u, e, f) * r
  BY <1>2, <1>6, <1>7, ProductGrows
<1>9. RawPremium(t, c, d) <= RawPremium(u, e, f)
  <2>1. DurationAdjusted(t, c, d) * s \in Nat /\ DurationAdjusted(u, e, f) * r \in Nat
    BY <1>2, <1>7
  <2> QED
    BY <1>1, <1>8, <2>1, DivisionGrows DEF RawPremium, s, r
<1> QED
  BY <1>3, <1>5, <1>8, <1>9 DEF s, r

-----------------------------------------------------------------------------
(* Premiums.                                                               *)

\* A premium is at least the minimum and at least what the divisions leave.
LEMMA PremiumBounds ==
  ASSUME NEW t \in PolicyTypes, NEW c \in Nat, NEW d \in Nat
  PROVE  /\ CalculatePremium(t, c, d) \in Nat \ {0}
         /\ CalculatePremium(t, c, d) >= MIN_PREMIUM_STROOPS
         /\ CalculatePremium(t, c, d) >= RawPremium(t, c, d)
         /\ CalculatePremium(t, c, d) > MIN_PREMIUM_STROOPS =>
              CalculatePremium(t, c, d) = RawPremium(t, c, d)
<1>1. RawPremium(t, c, d) \in Nat /\ MIN_PREMIUM_STROOPS \in Nat \ {0}
  BY StepBounds, PremiumAssumption
<1> QED
  BY <1>1 DEF CalculatePremium

\* The premium without rounding is Exact / Denominator.
Denominator == BPS_DENOM * (SECONDS_PER_YEAR * BPS_DENOM)

Exact(type, coverage, duration) ==
  ((coverage * BaseRate[type]) * duration) * (BPS_DENOM + CoverageFactor(coverage))

\* The first division's remainder is multiplied by the duration and the
\* surcharge after it, the second's by the surcharge, the third's by nothing.
Lost(coverage, duration) ==
  BPS_DENOM * (SECONDS_PER_YEAR * BPS_DENOM
    + (BPS_DENOM + CoverageFactor(coverage)) * (SECONDS_PER_YEAR + duration))

\* Whatever the rates, tiers and units: what calculate_premium returns above
\* the minimum is at most the exact price, and short of it by less than what
\* its three floor divisions can lose.
THEOREM PremiumRounded ==
  ASSUME NEW t \in PolicyTypes, NEW c \in Nat, NEW d \in Nat, CanPrice(t, c, d)
  PROVE  LET premium == CalculatePremium(t, c, d)
         IN  /\ premium >= MIN_PREMIUM_STROOPS
             /\ premium > MIN_PREMIUM_STROOPS => premium * Denominator <= Exact(t, c, d)
             /\ Exact(t, c, d) < premium * Denominator + Lost(c, d)
<1> DEFINE s == BPS_DENOM + CoverageFactor(c)
           raw == RawPremium(t, c, d)
           premium == CalculatePremium(t, c, d)
<1>1. /\ premium \in Nat /\ premium >= MIN_PREMIUM_STROOPS /\ premium >= raw
      /\ premium > MIN_PREMIUM_STROOPS => premium = raw
  BY PremiumBounds
<1>2. /\ BPS_DENOM \in Nat \ {0} /\ SECONDS_PER_YEAR \in Nat \ {0}
      /\ BaseRate[t] \in Nat /\ s \in Nat /\ raw \in Nat
      /\ c * BaseRate[t] \in Nat
  <2>1. BaseRate[t] \in Nat
    BY PremiumAssumption
  <2>2. c * BaseRate[t] \in Nat
    BY <2>1
  <2> QED
    BY <2>1, <2>2, PremiumAssumption, StepBounds
<1>3. /\ raw * (BPS_DENOM * (SECONDS_PER_YEAR * BPS_DENOM)) <= ((c * BaseRate[t]) * d) * s
      /\ ((c * BaseRate[t]) * d) * s
           < raw * (BPS_DENOM * (SECONDS_PER_YEAR * BPS_DENOM))
               + BPS_DENOM * (SECONDS_PER_YEAR * BPS_DENOM + s * (SECONDS_PER_YEAR + d))
  BY <1>2, StepBounds, ChainedRounding
<1>4. /\ raw * Denominator <= Exact(t, c, d)
      /\ Exact(t, c, d) < raw * Denominator + Lost(c, d)
  BY <1>3 DEF Denominator, Exact, Lost
<1>5. /\ Denominator \in Nat /\ Exact(t, c, d) \in Nat /\ Lost(c, d) \in Nat
  <2>1. /\ SECONDS_PER_YEAR * BPS_DENOM \in Nat /\ (c * BaseRate[t]) * d \in Nat
        /\ s * (SECONDS_PER_YEAR + d) \in Nat
    BY <1>2
  <2>2. SECONDS_PER_YEAR * BPS_DENOM + s * (SECONDS_PER_YEAR + d) \in Nat
    BY <2>1
  <2> QED
    BY <1>2, <2>1, <2>2 DEF Denominator, Exact, Lost
<1> HIDE DEF s, raw, premium
<1>6. /\ raw * Denominator <= premium * Denominator
      /\ raw * Denominator \in Nat /\ premium * Denominator \in Nat
  BY <1>1, <1>2, <1>5, ProductGrows
<1> QED
  BY <1>1, <1>4, <1>5, <1>6 DEF premium

\* Whatever the rates, tiers, units and widths: more coverage, a longer
\* duration or a higher rate never costs less, across the borders of the
\* tiers, the minimum and every rounding; and what calculate_premium refuses
\* for its size it does not price when it grows.
THEOREM PremiumGrows ==
  ASSUME NEW t \in PolicyTypes, NEW c \in Nat \ {0}, NEW d \in Nat \ {0},
         NEW u \in PolicyTypes, NEW e \in Nat, NEW f \in Nat,
         BaseRate[t] <= BaseRate[u], c <= e, d <= f,
         CanPrice(u, e, f)
  PROVE  CanPrice(t, c, d) /\ CalculatePremium(t, c, d) <= CalculatePremium(u, e, f)
<1>1. CanPrice(t, c, d)
  <2>1. /\ c * BaseRate[t] \in Nat /\ e * BaseRate[u] \in Nat
        /\ AnnualBase(t, c) * d \in Nat /\ AnnualBase(u, e) * f \in Nat
        /\ DurationAdjusted(t, c, d) * (BPS_DENOM + CoverageFactor(c)) \in Nat
        /\ DurationAdjusted(u, e, f) * (BPS_DENOM + CoverageFactor(e)) \in Nat
    <3>1. /\ BaseRate[t] \in Nat /\ BaseRate[u] \in Nat
          /\ AnnualBase(t, c) \in Nat /\ AnnualBase(u, e) \in Nat
          /\ DurationAdjusted(t, c, d) \in Nat /\ DurationAdjusted(u, e, f) \in Nat
          /\ BPS_DENOM + CoverageFactor(c) \in Nat /\ BPS_DENOM + CoverageFactor(e) \in Nat
      BY PremiumAssumption, StepBounds
    <3> QED
      BY <3>1
  <2>2. /\ c * BaseRate[t] <= e * BaseRate[u]
        /\ AnnualBase(t, c) * d <= AnnualBase(u, e) * f
        /\ DurationAdjusted(t, c, d) * (BPS_DENOM + CoverageFactor(c))
             <= DurationAdjusted(u, e, f) * (BPS_DENOM + CoverageFactor(e))
    BY StepsGrow
  <2> QED
    BY <2>1, <2>2, WidthAssumption DEF CanPrice, Fits
<1>2. CalculatePremium(t, c, d) <= CalculatePremium(u, e, f)
  <2>1. RawPremium(t, c, d) <= RawPremium(u, e, f)
    BY StepsGrow
  <2>2. /\ RawPremium(t, c, d) \in Nat /\ RawPremium(u, e, f) \in Nat
        /\ MIN_PREMIUM_STROOPS \in Nat
    BY StepBounds, PremiumAssumption
  <2> QED
    BY <2>1, <2>2 DEF CalculatePremium
<1> QED
  BY <1>1, <1>2
=============================================================================
