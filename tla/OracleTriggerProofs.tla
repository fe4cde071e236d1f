------------------------ MODULE OracleTriggerProofs ------------------------
(***************************************************************************)
(* Theorems about the insurance contract together with its oracle entry    *)
(* points, for every set of oracle types and addresses, all quorums, all   *)
(* windows and everything StellarInsureProofs leaves open.                 *)
(***************************************************************************)
EXTENDS OracleTrigger, StellarInsureProofs

AllTypeOK == TypeOK /\ OracleTypeOK

\* Approving a claim by an oracle keeps policies, claims and totals typed.
LEMMA TriggeredType ==
  ASSUME TypeOK, NEW p \in DOMAIN claims, Triggered(p)
  PROVE  /\ policies' \in [0 .. policy_counter - 1 -> Policy]
         /\ claims' \in [DOMAIN claims -> Claim]
         /\ total_payouts' \in Nat /\ total_premium' \in Nat
<1>1. p \in DOMAIN policies /\ claims[p] \in Claim /\ policies[p] \in Policy
  BY DEF TypeOK
<1>2. [policies[p] EXCEPT !.status = "ClaimApproved"] \in Policy
  BY <1>1 DEF Policy, PolicyStatus
<1>3. [claims[p] EXCEPT !.approved = TRUE] \in Claim
  BY <1>1 DEF Claim
<1>4. total_payouts' \in Nat /\ total_premium' \in Nat
  BY <1>1 DEF Triggered, TypeOK, Claim
<1>5. policies' = [policies EXCEPT ![p] = [policies[p] EXCEPT !.status = "ClaimApproved"]]
  BY DEF Triggered
<1>6. claims' = [claims EXCEPT ![p] = [claims[p] EXCEPT !.approved = TRUE]]
  BY DEF Triggered
<1> QED
  BY <1>1, <1>2, <1>3, <1>4, <1>5, <1>6 DEF TypeOK

\* The oracle's approval keeps all types.
LEMMA EvaluateType ==
  ASSUME TypeOK, NEW p \in DOMAIN policies, NEW type \in OracleTypes,
         EvaluateOracleTrigger(p, type)
  PROVE  TypeOK'
<1>1. /\ p \in DOMAIN claims
      /\ Triggered(p)
      /\ PayFromContract(p) \/ PayFromPool(p)
      /\ paused' \in BOOLEAN
      /\ UNCHANGED <<now, board, settings, policy_counter, votes>>
  BY DEF EvaluateOracleTrigger, Triggerable, HasPendingClaim
<1>2. PoolTypeOK'
  BY <1>1, PaymentType
<1>3. /\ policies' \in [0 .. policy_counter - 1 -> Policy]
      /\ claims' \in [DOMAIN claims -> Claim]
      /\ total_payouts' \in Nat /\ total_premium' \in Nat
  BY <1>1, TriggeredType
<1> QED
  BY <1>1, <1>2, <1>3 DEF TypeOK, board, settings

\* The oracle entry points that settle no claim touch, of the rest of the
\* contract's storage, the pause flag at most.
LEMMA FeedsAndRegistry ==
  ASSUME TypeOK,
         \/ \E ts \in 0 .. MaxTime + 1 : UpdatePriceFeed(ts)
         \/ \E w \in Windows : SetPriceFreshnessWindow(w)
         \/ \E t \in OracleTypes, a \in OracleAddrs : RegisterOracle(t, a)
         \/ \E t \in OracleTypes : RemoveOracle(t)
         \/ \E t \in Quorums : SetOracleQuorumThreshold(t)
  PROVE  /\ paused' \in BOOLEAN
         /\ UNCHANGED <<now, board, settings, policy_counter, policies,
                        claims, votes, totals, pool, token>>
BY DEF TypeOK, UpdatePriceFeed, SetPriceFreshnessWindow, RegisterOracle,
   RemoveOracle, SetOracleQuorumThreshold, vars

\* Registering and removing oracles, and the feed, keep the oracle storage
\* typed, and no other entry point changes it.
LEMMA OracleStorageStep ==
  ASSUME OracleTypeOK, [OracleNext]_oracleVars
  PROVE  OracleTypeOK'
<1> USE DEF OracleTypeOK, registry, feed
<1>1. ASSUME NEW ts \in 0 .. MaxTime + 1, UpdatePriceFeed(ts)
      PROVE  OracleTypeOK'
  BY <1>1, ContractAssumption DEF UpdatePriceFeed
<1>2. ASSUME NEW w \in Windows, SetPriceFreshnessWindow(w) PROVE OracleTypeOK'
  BY <1>2, OracleAssumption DEF SetPriceFreshnessWindow
<1>3. ASSUME NEW t \in OracleTypes, NEW a \in OracleAddrs, RegisterOracle(t, a)
      PROVE  OracleTypeOK'
  <2>1. oracle_address' = Put(oracle_address, t, a)
    BY <1>3 DEF RegisterOracle
  <2>2. /\ DOMAIN oracle_address' \subseteq OracleTypes
        /\ oracle_address' \in [DOMAIN oracle_address' -> OracleAddrs]
    BY <2>1 DEF Put
  <2> QED
    BY <1>3, <2>2 DEF RegisterOracle
<1>4. ASSUME NEW t \in OracleTypes, RemoveOracle(t) PROVE OracleTypeOK'
  BY <1>4 DEF RemoveOracle, Unlisted
<1>5. ASSUME NEW t \in Quorums, SetOracleQuorumThreshold(t) PROVE OracleTypeOK'
  BY <1>5, OracleAssumption DEF SetOracleQuorumThreshold
<1>6. CASE UNCHANGED <<registry, feed>>
  BY <1>6
<1>7. ASSUME NEW p \in DOMAIN policies, NEW t \in OracleTypes,
             EvaluateOracleTrigger(p, t)
      PROVE  OracleTypeOK'
  BY <1>6, <1>7 DEF EvaluateOracleTrigger
<1> QED
  BY <1>1, <1>2, <1>3, <1>4, <1>5, <1>6, <1>7 DEF OracleNext, oracleVars

\* Every entry point of the contract, oracles included, keeps all types.
LEMMA AllTypeStep == AllTypeOK /\ [OracleNext]_oracleVars => AllTypeOK'
<1> SUFFICES ASSUME AllTypeOK, [OracleNext]_oracleVars PROVE AllTypeOK'
  OBVIOUS
<1>1. TypeOK /\ OracleTypeOK
  BY DEF AllTypeOK
<1>2. OracleTypeOK'
  BY <1>1, OracleStorageStep
<1>3. CASE [Next]_vars
  BY <1>1, <1>2, <1>3, TypeStep DEF AllTypeOK
<1>4. ASSUME NEW p \in DOMAIN policies, NEW t \in OracleTypes,
             EvaluateOracleTrigger(p, t)
      PROVE  AllTypeOK'
  BY <1>1, <1>2, <1>4, EvaluateType DEF AllTypeOK
<1>5. CASE /\ paused' \in BOOLEAN
           /\ UNCHANGED <<now, board, settings, policy_counter, policies,
                          claims, votes, totals, pool, token>>
  BY <1>1, <1>2, <1>5 DEF AllTypeOK, TypeOK, PoolTypeOK, board, settings, totals
<1> QED
  BY <1>1, <1>3, <1>4, <1>5, FeedsAndRegistry DEF OracleNext, oracleVars

\* The oracle entry points keep the types of the contract's whole storage,
\* and never store a quorum of none.
THEOREM OracleTypeCorrect == OracleSpec => [](TypeOK /\ OracleTypeOK)
<1>1. OracleInit => AllTypeOK
  BY TypeInit, OracleAssumption DEF OracleInit, AllTypeOK, OracleTypeOK
<1>2. AllTypeOK <=> TypeOK /\ OracleTypeOK
  BY DEF AllTypeOK
<1> QED
  BY <1>1, <1>2, AllTypeStep, PTL DEF OracleSpec

\* The list of oracle types and the entries under them agree, for any number
\* of types: the quorum is counted over exactly the oracles registered.
THEOREM OracleRegistryCorrect == OracleSpec => []OracleRegistryConsistent
<1> USE DEF OracleRegistryConsistent
<1>1. OracleInit => OracleRegistryConsistent
  BY DEF OracleInit
<1>2. OracleRegistryConsistent /\ [OracleNext]_oracleVars => OracleRegistryConsistent'
  <2> SUFFICES ASSUME OracleRegistryConsistent, [OracleNext]_oracleVars
               PROVE  OracleRegistryConsistent'
    OBVIOUS
  <2>1. CASE UNCHANGED <<oracle_address, oracle_types>>
    BY <2>1
  <2>2. ASSUME NEW t \in OracleTypes, NEW a \in OracleAddrs, RegisterOracle(t, a)
        PROVE  OracleRegistryConsistent'
    BY <2>2 DEF RegisterOracle, Put
  <2>3. ASSUME NEW t \in OracleTypes, RemoveOracle(t)
        PROVE  OracleRegistryConsistent'
    BY <2>3 DEF RemoveOracle, Unlisted
  <2> QED
    BY <2>1, <2>2, <2>3 DEF OracleNext, oracleVars, registry, UpdatePriceFeed,
       SetPriceFreshnessWindow, SetOracleQuorumThreshold, EvaluateOracleTrigger
<1> QED
  BY <1>1, <1>2, PTL DEF OracleSpec

\* With the oracles' payouts, too, the treasury totals account for every
\* token of the contract and the pool.
THEOREM OracleTreasuryCorrect == OracleSpec => []TreasuryReconciles
<1>1. OracleInit => TreasuryReconciles
  <2>1. Seed[Contract] \in Nat /\ Seed[PoolAddr] \in Nat
    BY PoolAssumption, ContractAssumption
  <2> QED
    BY <2>1 DEF OracleInit, Init, PoolInit, TreasuryReconciles
<1>2. TypeOK /\ TreasuryReconciles /\ [OracleNext]_oracleVars => TreasuryReconciles'
  <2> SUFFICES ASSUME TypeOK, TreasuryReconciles, [OracleNext]_oracleVars
               PROVE  TreasuryReconciles'
    OBVIOUS
  <2>1. CASE [Next]_vars
    BY <2>1, TreasuryStep
  <2>2. ASSUME NEW p \in DOMAIN policies, NEW t \in OracleTypes,
               EvaluateOracleTrigger(p, t)
        PROVE  TreasuryReconciles'
    <3>1. /\ p \in DOMAIN claims
          /\ PayFromContract(p) \/ PayFromPool(p)
          /\ total_payouts' = total_payouts + claims[p].claim_amount
          /\ total_premium' = total_premium
      BY <2>2 DEF EvaluateOracleTrigger, Triggerable, HasPendingClaim, Triggered
    <3> QED
      BY <3>1, PaymentHeld
  <2>3. CASE UNCHANGED <<totals, token>>
    BY <2>3 DEF TreasuryReconciles, totals
  <2> QED
    BY <2>1, <2>2, <2>3, FeedsAndRegistry DEF OracleNext, oracleVars
<1>3. TypeOK /\ OracleTypeOK => TypeOK
  OBVIOUS
<1> QED
  BY <1>1, <1>2, <1>3, OracleTypeCorrect, PTL DEF OracleSpec

-----------------------------------------------------------------------------
(* Coverage, with a third way of approving a claim.  LifecycleInv does not *)
(* survive it: an oracle closes a policy that has cover left and leaves    *)
(* the amount open.  What survives is enough for the coverage.             *)

Covered(p) ==
  /\ policies[p].total_claimed + policies[p].claim_amount
       <= policies[p].coverage_amount
  /\ policies[p].status = "ClaimPending" =>
       /\ HasPendingClaim(p)
       /\ claims[p].claim_amount = policies[p].claim_amount
       /\ policies[p].claim_amount > 0
  /\ policies[p].status \notin {"ClaimPending", "ClaimApproved"} =>
       policies[p].claim_amount = 0

CoverageInv == \A p \in DOMAIN policies : Covered(p)

\* An entry point that edits one policy and at most its claim has only that
\* policy to account for.
LEMMA OthersCovered ==
  ASSUME TypeOK, CoverageInv, NEW p \in DOMAIN policies, NEW r,
         policies' = [policies EXCEPT ![p] = r],
         \/ UNCHANGED claims
         \/ \E c : claims' = Put(claims, p, c)
         \/ \E c : claims' = [claims EXCEPT ![p] = c],
         Covered(p)'
  PROVE  CoverageInv'
<1> SUFFICES ASSUME NEW q \in DOMAIN policies, q # p PROVE Covered(q)'
  BY DEF CoverageInv
<1>1. policies'[q] = policies[q]
  OBVIOUS
<1>2. q \in DOMAIN claims => q \in DOMAIN claims' /\ claims'[q] = claims[q]
  <2>1. claims = [x \in DOMAIN claims |-> claims[x]]
    BY DEF TypeOK
  <2> QED
    BY <2>1 DEF Put
<1>3. Covered(q)
  BY DEF CoverageInv
<1> QED
  BY <1>1, <1>2, <1>3 DEF Covered, HasPendingClaim

\* An edit of a policy with no claim open that opens none and takes no cover
\* away.
Idle(pol, r) ==
  /\ r \in Policy
  /\ pol.status \in {"Active", "Expired"}
  /\ r.status \in {"Active", "Expired", "Cancelled"}
  /\ r.total_claimed = pol.total_claimed
  /\ r.claim_amount = pol.claim_amount
  /\ r.coverage_amount >= pol.coverage_amount

\* It keeps the policy covered.
LEMMA IdleCovered ==
  ASSUME TypeOK, CoverageInv, NEW p \in DOMAIN policies, NEW r,
         Idle(policies[p], r), UNCHANGED claims,
         policies' = [policies EXCEPT ![p] = r]
  PROVE  CoverageInv'
<1>1. policies[p] \in Policy /\ Covered(p) /\ policies'[p] = r
  BY DEF TypeOK, CoverageInv
<1>2. Covered(p)'
  BY <1>1 DEF Covered, Policy, Idle
<1> QED
  BY <1>2, OthersCovered

\* The policyholder's entry points.
LEMMA HolderCovered ==
  ASSUME TypeOK, CoverageInv, NEW p \in DOMAIN policies,
         \/ PayPremium(p)
         \/ \E amt \in ClaimAmounts : SubmitClaim(p, amt)
         \/ CancelPolicy(p)
         \/ \E c \in Coverages : IncreaseCoverage(p, c)
         \/ \E d \in Durations : ExtendDuration(p, d)
         \/ \E h \in Holders : ChangeBeneficiary(p, h)
         \/ \E d \in Durations : RenewPolicy(p, d)
         \/ CheckExpiration(p)
  PROVE  CoverageInv'
<1> DEFINE pol == policies[p]
<1>0. /\ pol \in Policy /\ Covered(p)
      /\ pol.coverage_amount \in Nat /\ pol.total_claimed \in Nat
      /\ pol.claim_amount \in Nat /\ pol.end_time \in Nat /\ now \in Nat
      /\ pol.policy_type \in PolicyTypes
  BY DEF TypeOK, CoverageInv, Policy
<1>1. CASE PayPremium(p)
  BY <1>1 DEF PayPremium, CoverageInv, Covered, HasPendingClaim
<1>2. ASSUME NEW amt \in ClaimAmounts, SubmitClaim(p, amt) PROVE CoverageInv'
  <2> DEFINE r == [pol EXCEPT !.claim_amount = amt, !.status = "ClaimPending"]
             c == [claim_amount |-> amt, timestamp |-> now, approved |-> FALSE]
  <2>1. /\ policies' = [policies EXCEPT ![p] = r]
        /\ claims' = Put(claims, p, c)
        /\ amt <= pol.coverage_amount - pol.total_claimed
        /\ amt > 0 /\ amt \in Nat
    BY <1>2, ContractAssumption DEF SubmitClaim, RemainingCoverage
  <2>2. /\ r.status = "ClaimPending" /\ r.claim_amount = amt
        /\ r.coverage_amount = pol.coverage_amount
        /\ r.total_claimed = pol.total_claimed
    BY <1>0 DEF Policy
  <2>3. policies'[p] = r /\ p \in DOMAIN claims' /\ claims'[p] = c
    BY <2>1 DEF Put
  <2> HIDE DEF r
  <2>4. Covered(p)'
    BY <1>0, <2>1, <2>2, <2>3 DEF Covered, HasPendingClaim
  <2> QED
    BY <2>1, <2>4, OthersCovered
<1>3. CASE CancelPolicy(p)
  <2> DEFINE r == [pol EXCEPT !.status = "Cancelled"]
  <2>1. /\ policies' = [policies EXCEPT ![p] = r] /\ UNCHANGED claims
        /\ pol.status = "Active"
    BY <1>3 DEF CancelPolicy, StatusOf
  <2>2. r \in Policy
    BY <1>0, PolicyEdits DEF PolicyStatus
  <2>3. /\ r.status = "Cancelled" /\ r.total_claimed = pol.total_claimed
        /\ r.claim_amount = pol.claim_amount /\ r.coverage_amount = pol.coverage_amount
    BY <1>0 DEF Policy
  <2> HIDE DEF r
  <2>4. Idle(pol, r)
    BY <1>0, <2>1, <2>2, <2>3 DEF Idle
  <2> QED
    BY <2>1, <2>4, IdleCovered
<1>4. CASE CheckExpiration(p)
  <2> DEFINE r == [pol EXCEPT !.status = "Expired"]
  <2>1. /\ policies' = [policies EXCEPT ![p] = r] /\ UNCHANGED claims
        /\ pol.status = "Active"
    BY <1>4 DEF CheckExpiration
  <2>2. r \in Policy
    BY <1>0, PolicyEdits DEF PolicyStatus
  <2>3. /\ r.status = "Expired" /\ r.total_claimed = pol.total_claimed
        /\ r.claim_amount = pol.claim_amount /\ r.coverage_amount = pol.coverage_amount
    BY <1>0 DEF Policy
  <2> HIDE DEF r
  <2>4. Idle(pol, r)
    BY <1>0, <2>1, <2>2, <2>3 DEF Idle
  <2> QED
    BY <2>1, <2>4, IdleCovered
<1>5. ASSUME NEW c \in Coverages, IncreaseCoverage(p, c) PROVE CoverageInv'
  <2> DEFINE r == [pol EXCEPT !.coverage_amount = c]
  <2>1. /\ policies' = [policies EXCEPT ![p] = r] /\ UNCHANGED claims
        /\ pol.status = "Active" /\ c > pol.coverage_amount /\ c \in Nat
    BY <1>5, ContractAssumption DEF IncreaseCoverage, StatusOf
  <2>2. r \in Policy
    BY <1>0, <2>1, PolicyEdits DEF PolicyStatus
  <2>3. /\ r.status = pol.status /\ r.total_claimed = pol.total_claimed
        /\ r.claim_amount = pol.claim_amount /\ r.coverage_amount >= pol.coverage_amount
    BY <1>0, <2>1 DEF Policy
  <2> HIDE DEF r
  <2>4. Idle(pol, r)
    BY <1>0, <2>1, <2>2, <2>3 DEF Idle
  <2> QED
    BY <2>1, <2>4, IdleCovered
<1>6. ASSUME NEW d \in Durations, ExtendDuration(p, d) PROVE CoverageInv'
  <2> DEFINE r == [pol EXCEPT !.end_time = pol.end_time + d]
  <2>1. /\ policies' = [policies EXCEPT ![p] = r] /\ UNCHANGED claims
        /\ pol.status = "Active" /\ d \in Nat
    BY <1>6, ContractAssumption DEF ExtendDuration, StatusOf
  <2>2. r \in Policy
    <3>1. pol.end_time + d \in Nat
      BY <1>0, <2>1
    <3> QED
      BY <1>0, <3>1, PolicyEdits DEF PolicyStatus
  <2>3. /\ r.status = pol.status /\ r.total_claimed = pol.total_claimed
        /\ r.claim_amount = pol.claim_amount /\ r.coverage_amount = pol.coverage_amount
    BY <1>0, <2>1 DEF Policy
  <2> HIDE DEF r
  <2>4. Idle(pol, r)
    BY <1>0, <2>1, <2>2, <2>3 DEF Idle
  <2> QED
    BY <2>1, <2>4, IdleCovered
<1>7. ASSUME NEW h \in Holders, ChangeBeneficiary(p, h) PROVE CoverageInv'
  <2> DEFINE r == [pol EXCEPT !.beneficiary = h]
  <2>1. /\ policies' = [policies EXCEPT ![p] = r] /\ UNCHANGED claims
        /\ pol.status = "Active"
    BY <1>7 DEF ChangeBeneficiary, StatusOf
  <2>2. r \in Policy
    BY <1>0, <2>1, PolicyEdits DEF PolicyStatus
  <2>3. /\ r.status = pol.status /\ r.total_claimed = pol.total_claimed
        /\ r.claim_amount = pol.claim_amount /\ r.coverage_amount = pol.coverage_amount
    BY <1>0, <2>1 DEF Policy
  <2> HIDE DEF r
  <2>4. Idle(pol, r)
    BY <1>0, <2>1, <2>2, <2>3 DEF Idle
  <2> QED
    BY <2>1, <2>4, IdleCovered
<1>8. ASSUME NEW d \in Durations, RenewPolicy(p, d) PROVE CoverageInv'
  <2> DEFINE m == CalculatePremium(pol.policy_type, pol.coverage_amount, d)
             n == (IF IsExpired(p) THEN now ELSE pol.end_time) + d
             r == [pol EXCEPT !.premium = m, !.end_time = n, !.status = "Active"]
  <2>1. /\ policies' = [policies EXCEPT ![p] = r] /\ UNCHANGED claims
        /\ pol.status \in {"Active", "Expired"}
    BY <1>8 DEF RenewPolicy, Renewable, StatusOf
  <2>2. m \in Nat /\ n \in Nat
    <3>1. d \in Nat
      BY ContractAssumption
    <3>2. m \in Nat
      BY <1>0, <3>1, PremiumType
    <3>3. n \in Nat
      BY <1>0, <3>1
    <3> QED
      BY <3>2, <3>3
  <2> HIDE DEF m, n
  <2>3. r \in Policy
    BY <1>0, <2>2, PolicyEdits DEF PolicyStatus
  <2>4. /\ r.status = "Active" /\ r.total_claimed = pol.total_claimed
        /\ r.claim_amount = pol.claim_amount /\ r.coverage_amount = pol.coverage_amount
    BY <1>0, <2>2 DEF Policy
  <2> HIDE DEF r
  <2>5. Idle(pol, r)
    BY <1>0, <2>1, <2>3, <2>4 DEF Idle
  <2> QED
    BY <2>1, <2>5, IdleCovered
<1> QED
  BY <1>1, <1>2, <1>3, <1>4, <1>5, <1>6, <1>7, <1>8

\* A policy just sold has nothing claimed.
LEMMA SaleCovered ==
  ASSUME TypeOK, CoverageInv, NEW h \in Holders, NEW t \in PolicyTypes,
         NEW c \in Coverages, NEW d \in Durations, CreatePolicy(h, t, c, d)
  PROVE  CoverageInv'
<1>1. c \in Nat /\ policy_counter \notin DOMAIN policies
  BY ContractAssumption DEF TypeOK
<1>2. /\ DOMAIN policies' = DOMAIN policies \cup {policy_counter}
      /\ \A q \in DOMAIN policies : policies'[q] = policies[q]
      /\ policies'[policy_counter].status = "Active"
      /\ policies'[policy_counter].claim_amount = 0
      /\ policies'[policy_counter].total_claimed = 0
      /\ policies'[policy_counter].coverage_amount = c
      /\ UNCHANGED claims
  BY <1>1 DEF CreatePolicy, Put
<1> QED
  BY <1>1, <1>2 DEF CoverageInv, Covered, HasPendingClaim

\* A decision of the Admin or of the votes.
LEMMA DecisionCovered ==
  ASSUME TypeOK, CoverageInv, NEW p \in DOMAIN policies, HasPendingClaim(p),
         Approve(p) \/ Reject(p)
  PROVE  CoverageInv'
<1> DEFINE pol == policies[p]
<1>1. /\ p \in DOMAIN claims /\ pol \in Policy /\ claims[p] \in Claim
      /\ Covered(p) /\ pol.status = "ClaimPending"
  BY DEF CoverageInv, HasPendingClaim, TypeOK
<1>2. /\ pol.coverage_amount \in Nat /\ pol.total_claimed \in Nat
      /\ pol.claim_amount \in Nat
      /\ claims[p].claim_amount = pol.claim_amount
      /\ pol.total_claimed + pol.claim_amount <= pol.coverage_amount
  BY <1>1 DEF Policy, Covered
<1>3. CASE Approve(p)
  <2>1. /\ policies' = [policies EXCEPT ![p] = Approved(p)]
        /\ claims' = [claims EXCEPT ![p] = [claims[p] EXCEPT !.approved = TRUE]]
    BY <1>3 DEF Approve
  <2>2. /\ Approved(p).claim_amount = 0
        /\ Approved(p).coverage_amount = pol.coverage_amount
        /\ Approved(p).total_claimed = pol.total_claimed + pol.claim_amount
        /\ Approved(p).status \in {"Active", "ClaimApproved"}
    BY <1>1, <1>2 DEF Approved, Policy
  <2>3. policies'[p] = Approved(p)
    BY <2>1
  <2>4. Covered(p)'
    BY <1>2, <2>2, <2>3 DEF Covered
  <2> QED
    BY <2>1, <2>4, OthersCovered
<1>4. CASE Reject(p)
  <2>1. policies' = [policies EXCEPT ![p] = Rejected(p)] /\ UNCHANGED claims
    BY <1>4 DEF Reject
  <2>2. /\ Rejected(p).claim_amount = 0 /\ Rejected(p).status = "Active"
        /\ Rejected(p).coverage_amount = pol.coverage_amount
        /\ Rejected(p).total_claimed = pol.total_claimed
    BY <1>1 DEF Rejected, Policy
  <2>3. policies'[p] = Rejected(p)
    BY <2>1
  <2>4. Covered(p)'
    BY <1>2, <2>2, <2>3 DEF Covered
  <2> QED
    BY <2>1, <2>4, OthersCovered
<1> QED
  BY <1>3, <1>4

\* An oracle's approval, which counts the payout only in the totals.
LEMMA TriggerCovered ==
  ASSUME TypeOK, CoverageInv, NEW p \in DOMAIN policies, NEW t \in OracleTypes,
         EvaluateOracleTrigger(p, t)
  PROVE  CoverageInv'
<1> DEFINE r == [policies[p] EXCEPT !.status = "ClaimApproved"]
           c == [claims[p] EXCEPT !.approved = TRUE]
<1>1. policies' = [policies EXCEPT ![p] = r] /\ claims' = [claims EXCEPT ![p] = c]
  BY DEF EvaluateOracleTrigger, Triggered
<1>2. policies[p] \in Policy /\ Covered(p)
  BY DEF TypeOK, CoverageInv
<1>3. /\ r.status = "ClaimApproved" /\ r.claim_amount = policies[p].claim_amount
      /\ r.total_claimed = policies[p].total_claimed
      /\ r.coverage_amount = policies[p].coverage_amount
  BY <1>2 DEF Policy
<1>4. policies'[p] = r
  BY <1>1
<1> HIDE DEF r, c
<1>5. Covered(p)'
  BY <1>2, <1>3, <1>4 DEF Covered
<1> QED
  BY <1>1, <1>5, OthersCovered

\* No entry point of the contract breaks it.
LEMMA CoverageStep ==
  TypeOK /\ CoverageInv /\ [OracleNext]_oracleVars => CoverageInv'
<1> SUFFICES ASSUME TypeOK, CoverageInv, [OracleNext]_oracleVars PROVE CoverageInv'
  OBVIOUS
<1>1. CASE UNCHANGED <<policies, claims>>
  BY <1>1 DEF CoverageInv, Covered, HasPendingClaim
<1>2. CASE HolderNext
  BY <1>2, SaleCovered, HolderCovered DEF HolderNext
<1>3. ASSUME NEW p \in DOMAIN policies, NEW approved \in BOOLEAN,
             ProcessClaim(p, approved)
      PROVE  CoverageInv'
  BY <1>3, DecisionCovered DEF ProcessClaim
<1>4. ASSUME NEW p \in DOMAIN policies, NEW a \in AdminAddrs,
             NEW approve \in BOOLEAN, VoteClaim(p, a, approve)
      PROVE  CoverageInv'
  BY <1>1, <1>4, DecisionCovered DEF VoteClaim
<1>5. CASE AdminNext \/ Tick \/ UNCHANGED vars
  BY <1>1, <1>5, AdminChange
<1>6. ASSUME NEW p \in DOMAIN policies, NEW t \in OracleTypes,
             EvaluateOracleTrigger(p, t)
      PROVE  CoverageInv'
  BY <1>6, TriggerCovered
<1>7. CASE Next
  BY <1>2, <1>3, <1>4, <1>5, <1>7 DEF Next, DecisionNext
<1> QED
  BY <1>1, <1>5, <1>6, <1>7, FeedsAndRegistry DEF OracleNext, oracleVars

\* Every reachable state satisfies it.
LEMMA CoverageAlways == OracleSpec => []CoverageInv
<1>1. OracleInit => CoverageInv
  BY DEF OracleInit, Init, CoverageInv
<1>2. TypeOK /\ OracleTypeOK => TypeOK
  OBVIOUS
<1> QED
  BY <1>1, <1>2, CoverageStep, OracleTypeCorrect, PTL DEF OracleSpec

\* With three ways to approve a claim, one of which forgets to count the
\* payout against the policy, what a policy was paid by the other two and has
\* open still stays within its coverage.
THEOREM OracleCoverageCorrect == OracleSpec => []CoverageRespected
<1>1. CoverageInv => CoverageRespected
  BY DEF CoverageInv, Covered, CoverageRespected
<1> QED
  BY <1>1, CoverageAlways, PTL

-----------------------------------------------------------------------------
(* What an oracle's approval shows.                                        *)

\* A claim approved with nothing counted against its policy was approved by an
\* oracle: the other two ways add an amount, which is never zero.
LEMMA OnlyOraclesForget ==
  ASSUME TypeOK, CoverageInv, [OracleNext]_oracleVars, NEW p \in DOMAIN policies,
         policies[p].status = "ClaimPending",
         policies'[p].status = "ClaimApproved",
         policies'[p].total_claimed = policies[p].total_claimed
  PROVE  \E t \in OracleTypes : EvaluateOracleTrigger(p, t)
<1>1. policies'[p] # policies[p]
  OBVIOUS
<1>2. ~ UNCHANGED policies
  BY <1>1
<1>3. ~ HolderNext
  BY <1>1, HolderChange
<1>4. ASSUME NEW q \in DOMAIN policies, HasPendingClaim(q), Approve(q) \/ Reject(q)
      PROVE  FALSE
  <2>1. q = p /\ p \in DOMAIN claims
    BY <1>1, <1>4 DEF Approve, Reject, HasPendingClaim
  <2>2. /\ policies[p] \in Policy /\ policies[p].total_claimed \in Nat
        /\ claims[p].claim_amount \in Nat /\ claims[p].claim_amount > 0
    BY <2>1 DEF TypeOK, Policy, Claim, CoverageInv, Covered
  <2>3. CASE Approve(p)
    <3>1. policies'[p] = Approved(p)
      BY <2>3 DEF Approve
    <3>2. Approved(p).total_claimed
            = policies[p].total_claimed + claims[p].claim_amount
      BY <2>2 DEF Approved, Policy
    <3> QED
      BY <2>2, <3>1, <3>2
  <2>4. CASE Reject(p)
    <3>1. policies'[p] = Rejected(p)
      BY <2>4 DEF Reject
    <3>2. Rejected(p).status = "Active"
      BY <2>2 DEF Rejected, Policy
    <3> QED
      BY <3>1, <3>2
  <2> QED
    BY <1>4, <2>1, <2>3, <2>4
<1>5. ASSUME NEW q \in DOMAIN policies, NEW approved \in BOOLEAN,
             ProcessClaim(q, approved)
      PROVE  FALSE
  BY <1>4, <1>5 DEF ProcessClaim
<1>6. ASSUME NEW q \in DOMAIN policies, NEW a \in AdminAddrs,
             NEW approve \in BOOLEAN, VoteClaim(q, a, approve)
      PROVE  FALSE
  <2>1. HasPendingClaim(q) /\ (Approve(q) \/ Reject(q) \/ UNCHANGED policies)
    BY <1>6 DEF VoteClaim
  <2> QED
    BY <1>2, <1>4, <2>1
<1>7. ~ Next
  <2>1. ~ HolderNext /\ ~ AdminNext /\ ~ Tick
    BY <1>2, <1>3, AdminChange
  <2>2. ~ DecisionNext
    BY <1>5, <1>6 DEF DecisionNext
  <2> QED
    BY <2>1, <2>2 DEF Next
<1>8. ~ UNCHANGED oracleVars
  BY <1>2 DEF oracleVars, vars
<1>9. PICK q \in DOMAIN policies, t \in OracleTypes : EvaluateOracleTrigger(q, t)
  BY <1>2, <1>7, <1>8, FeedsAndRegistry DEF OracleNext
<1>10. q = p
  BY <1>1, <1>9 DEF EvaluateOracleTrigger, Triggered
<1> QED
  BY <1>9, <1>10

\* No registry of oracles, quorum, window or timing of updates lets a price
\* oracle on its own approve a claim on a price that is missing, stale or from
\* the future.
THEOREM PriceCorrect == OracleSpec => PricePaysOnlyWhenFresh
<1> DEFINE Fresh ==
      \A p \in DOMAIN policies :
         /\ DOMAIN oracle_address = {"Price"}
         /\ policies[p].status = "ClaimPending"
         /\ policies'[p].status = "ClaimApproved"
         /\ policies'[p].total_claimed = policies[p].total_claimed
         => /\ price_timestamp \in 1 .. now
            /\ now - price_timestamp <= freshness
<1>1. AllTypeOK /\ CoverageInv /\ [OracleNext]_oracleVars => [Fresh]_oracleVars
  <2> SUFFICES ASSUME AllTypeOK, CoverageInv, [OracleNext]_oracleVars,
                      NEW p \in DOMAIN policies,
                      DOMAIN oracle_address = {"Price"},
                      policies[p].status = "ClaimPending",
                      policies'[p].status = "ClaimApproved",
                      policies'[p].total_claimed = policies[p].total_claimed
               PROVE  /\ price_timestamp \in 1 .. now
                      /\ now - price_timestamp <= freshness
    OBVIOUS
  <2>1. PICK t \in OracleTypes : EvaluateOracleTrigger(p, t)
    BY OnlyOraclesForget DEF AllTypeOK
  <2>2. Verifies("Price")
    BY <2>1 DEF EvaluateOracleTrigger
  <2>3. price_timestamp \in Nat /\ now \in Nat /\ freshness \in Nat
    BY DEF AllTypeOK, TypeOK, OracleTypeOK
  <2> QED
    BY <2>2, <2>3 DEF Verifies, PriceUnavailable, PriceStale
<1>2. TypeOK /\ OracleTypeOK => AllTypeOK
  BY DEF AllTypeOK
<1> QED
  BY <1>1, <1>2, CoverageAlways, OracleTypeCorrect, PTL
  DEF OracleSpec, PricePaysOnlyWhenFresh

\* An oracle's approval always has as many registered oracles behind it as the
\* quorum in force asks for, whatever was registered, removed or set before.
THEOREM QuorumCorrect == OracleSpec => OraclesApproveInQuorum
<1> DEFINE Quorate ==
      \A p \in DOMAIN policies :
         /\ policies[p].status = "ClaimPending"
         /\ policies'[p].status = "ClaimApproved"
         /\ policies'[p].total_claimed = policies[p].total_claimed
         => Cardinality(DOMAIN oracle_address) >= quorum
<1>1. AllTypeOK /\ CoverageInv /\ [OracleNext]_oracleVars => [Quorate]_oracleVars
  <2> SUFFICES ASSUME AllTypeOK, CoverageInv, [OracleNext]_oracleVars,
                      NEW p \in DOMAIN policies,
                      policies[p].status = "ClaimPending",
                      policies'[p].status = "ClaimApproved",
                      policies'[p].total_claimed = policies[p].total_claimed
               PROVE  Cardinality(DOMAIN oracle_address) >= quorum
    OBVIOUS
  <2>1. PICK t \in OracleTypes : EvaluateOracleTrigger(p, t)
    BY OnlyOraclesForget DEF AllTypeOK
  <2>2. Cardinality(Confirmations) >= quorum
    BY <2>1 DEF EvaluateOracleTrigger, QuorumReached
  <2>3. /\ Confirmations \subseteq DOMAIN oracle_address
        /\ DOMAIN oracle_address \subseteq OracleTypes /\ quorum \in Nat
    BY DEF Confirmations, Registered, AllTypeOK, OracleTypeOK
  <2>4. IsFiniteSet(DOMAIN oracle_address)
    BY <2>3, OracleAssumption, FS_Subset
  <2>5. /\ Cardinality(Confirmations) <= Cardinality(DOMAIN oracle_address)
        /\ Cardinality(Confirmations) \in Nat
        /\ Cardinality(DOMAIN oracle_address) \in Nat
    BY <2>3, <2>4, FS_Subset, FS_CardinalityType
  <2> QED
    BY <2>2, <2>3, <2>5
<1>2. TypeOK /\ OracleTypeOK => AllTypeOK
  BY DEF AllTypeOK
<1> QED
  BY <1>1, <1>2, CoverageAlways, OracleTypeCorrect, PTL
  DEF OracleSpec, OraclesApproveInQuorum
=============================================================================
