--------------------------- MODULE StellarInsure ---------------------------
(***************************************************************************)
(* The insurance contract (smartcontract/src/lib.rs with storage.rs,       *)
(* multisig.rs and policy.rs): policies, claims, admin votes, the treasury *)
(* totals and the pause switch, and the calls it makes on the token and on *)
(* a linked risk pool.  The oracle entry points are not in this module.    *)
(*                                                                         *)
(* An invocation is atomic and an error undoes all of it, so an entry      *)
(* point is one action, guarded by the conditions under which it succeeds. *)
(* The Admin key is written once, by init, and its holder's signature is   *)
(* what require_auth asks for: the actions it gates need no parameter.     *)
(*                                                                         *)
(* As in RiskPool, a definition named Bad... is a slip that the next one   *)
(* might have had, and no part of the specification.                       *)
(***************************************************************************)
EXTENDS RiskPool, Premium

CONSTANTS
  Contract,        \* the insurance contract's own address
  Founder,         \* the address passed to init
  AdminAddrs,      \* addresses that may be added to the admin list
  Coverages,       \* coverage amounts callers pass
  Durations,       \* durations callers pass
  ClaimAmounts,    \* claim amounts callers pass
  MAX_POLICIES,    \* the cap on policies that init stores
  PolicyCaps,      \* caps the admin sets
  RENEWAL_GRACE_PERIOD,
  PoolDeployed,    \* whether there is a pool contract to link
  MaxTime          \* checking bound on the ledger time

ASSUME ContractAssumption ==
  /\ Contract \in Accounts \ (Holders \cup {PoolAddr})
  /\ Contract \in Providers
  /\ Founder \in AdminAddrs
  /\ IsFiniteSet(AdminAddrs)
  /\ Coverages \subseteq Nat
  /\ Durations \subseteq Nat
  /\ ClaimAmounts \subseteq Nat
  /\ MAX_POLICIES \in Nat
  /\ PolicyCaps \subseteq Nat
  /\ RENEWAL_GRACE_PERIOD \in Nat
  /\ PoolDeployed \in BOOLEAN
  /\ MaxTime \in Nat

VARIABLES
  now,             \* the ledger timestamp
  paused,
  admins,          \* the Admins list
  threshold,
  max_policies,
  premium_token,   \* whether the admin has set the token
  risk_pool,       \* whether the admin has linked the pool
  policy_counter,
  policies,        \* Policy(id) entries
  claims,          \* Claim(id) entries
  votes,           \* ClaimVotes(id); an absent entry reads as no votes
  total_premium,
  total_payouts

board == <<admins, threshold>>
settings == <<max_policies, premium_token, risk_pool>>
totals == <<total_premium, total_payouts>>
vars == <<now, paused, board, settings, policy_counter, policies, claims,
          votes, totals, pool, token>>

-----------------------------------------------------------------------------
(* Stored data.                                                            *)

PolicyStatus == {"Active", "Expired", "Cancelled", "ClaimPending",
                 "ClaimApproved", "ClaimRejected"}

Policy == [policyholder: Holders, beneficiary: Holders,
           policy_type: PolicyTypes,
           coverage_amount: Nat, premium: Nat, end_time: Nat,
           status: PolicyStatus, claim_amount: Nat, total_claimed: Nat]

Claim == [claim_amount: Nat, timestamp: Nat, approved: BOOLEAN]

\* Addresses are pushed only if in neither list, so the lists are sets.
ClaimVotes == [approvals: SUBSET AdminAddrs, rejections: SUBSET AdminAddrs]

NoVotes == [approvals |-> {}, rejections |-> {}]

-----------------------------------------------------------------------------
(* Reading a policy.                                                       *)

IsExpired(p) == now > policies[p].end_time

\* get_policy shows a stored Active policy past its end as Expired, without
\* storing that.
StatusOf(p) ==
  IF policies[p].status = "Active" /\ IsExpired(p)
  THEN "Expired" ELSE policies[p].status

\* Earlier payouts are forgotten.
BadRemainingCoverage(p) == policies[p].coverage_amount

RemainingCoverage(p) == policies[p].coverage_amount - policies[p].total_claimed

HasPendingClaim(p) ==
  /\ policies[p].status = "ClaimPending"
  /\ p \in DOMAIN claims

-----------------------------------------------------------------------------
(* Money.                                                                  *)

\* Collected, not counted.
BadCollect(p, dest, amt) ==
  /\ premium_token
  /\ CanPay(token, policies[p].policyholder, amt)
  /\ token' = Transferred(token, policies[p].policyholder, dest, amt)
  /\ UNCHANGED total_premium

\* The policyholder pays amt to dest, counted as premium collected.
Collect(p, dest, amt) ==
  LET payer == policies[p].policyholder
  IN  /\ premium_token
      /\ CanPay(token, payer, amt)
      /\ token' = Transferred(token, payer, dest, amt)
      /\ Fits(total_premium + amt)
      /\ total_premium' = total_premium + amt

\* The beneficiary is paid.
BadPayBeneficiary(p) ==
  LET amt == claims[p].claim_amount
  IN  /\ premium_token
      /\ CanPay(token, Contract, amt)
      /\ token' = Transferred(token, Contract, policies[p].beneficiary, amt)
      /\ UNCHANGED pool

\* The contract pays the claim on p out of its own balance.
PayFromContract(p) ==
  LET amt == claims[p].claim_amount
  IN  /\ premium_token
      /\ CanPay(token, Contract, amt)
      /\ token' = Transferred(token, Contract, policies[p].policyholder, amt)
      /\ UNCHANGED pool

\* The linked pool pays it, through fund_payout.
PayFromPool(p) == FundPayout(policies[p].policyholder, claims[p].claim_amount)

-----------------------------------------------------------------------------
(* Settling a claim.                                                       *)

\* Any payout ends the policy.
BadApprovedAlways(p) ==
  [policies[p] EXCEPT
     !.total_claimed = @ + claims[p].claim_amount,
     !.status = "ClaimApproved",
     !.claim_amount = 0]

Approved(p) ==
  LET claimed == policies[p].total_claimed + claims[p].claim_amount
  IN  [policies[p] EXCEPT
         !.total_claimed = claimed,
         !.status = IF claimed >= policies[p].coverage_amount
                    THEN "ClaimApproved" ELSE "Active",
         !.claim_amount = 0]

\* The amount stays open.
BadRejected(p) == [policies[p] EXCEPT !.status = "Active"]

Rejected(p) == [policies[p] EXCEPT !.status = "Active", !.claim_amount = 0]

\* The policy's whole history is counted again with each payout.
BadApprove(p) ==
  /\ policies' = [policies EXCEPT ![p] = Approved(p)]
  /\ claims' = [claims EXCEPT ![p].approved = TRUE]
  /\ total_payouts' = total_payouts + Approved(p).total_claimed
  /\ UNCHANGED total_premium

Approve(p) ==
  /\ Fits(Approved(p).total_claimed)
  /\ Fits(total_payouts + claims[p].claim_amount)
  /\ policies' = [policies EXCEPT ![p] = Approved(p)]
  /\ claims' = [claims EXCEPT ![p].approved = TRUE]
  /\ total_payouts' = total_payouts + claims[p].claim_amount
  /\ UNCHANGED total_premium

Reject(p) ==
  /\ policies' = [policies EXCEPT ![p] = Rejected(p)]
  /\ UNCHANGED <<claims, totals, pool, token>>

-----------------------------------------------------------------------------
(* Multi-signature helpers.                                                *)

IsAdmin(a) == IF admins = {} THEN a = Founder ELSE a \in admins

ThresholdReached(ballots) == Cardinality(ballots.approvals) >= threshold

HasVoted(p, voter) == voter \in votes[p].approvals \cup votes[p].rejections

\* One rejection late.
BadRejectionForced(ballots) ==
  Cardinality(ballots.rejections) > Cardinality(admins) - threshold + 1

RejectionForced(ballots) ==
  \/ threshold > Cardinality(admins)
  \/ Cardinality(ballots.rejections) > Cardinality(admins) - threshold

BadThresholdFor(remaining) == threshold

\* The threshold is lowered to the number of admins that remain.
ThresholdFor(remaining) ==
  IF threshold > Cardinality(remaining) THEN Cardinality(remaining) ELSE threshold

-----------------------------------------------------------------------------
(* init of both contracts.                                                 *)

Init ==
  /\ PoolInit
  /\ now = 0
  /\ paused = FALSE
  /\ admins = {Founder}
  /\ threshold = 1
  /\ max_policies = MAX_POLICIES
  /\ premium_token = FALSE
  /\ risk_pool = FALSE
  /\ policy_counter = 0
  /\ policies = [p \in {} |-> {}]
  /\ claims = [p \in {} |-> {}]
  /\ votes = [p \in {} |-> {}]
  /\ total_premium = 0
  /\ total_payouts = 0

-----------------------------------------------------------------------------
(* The policyholder's entry points.                                        *)

CreatePolicy(holder, type, coverage, duration) ==
  /\ ~paused
  /\ policy_counter < max_policies
  /\ CanPrice(type, coverage, duration)
  /\ now + duration <= MAX_U64
  /\ policies' = Put(policies, policy_counter,
                     [policyholder |-> holder, beneficiary |-> holder,
                      policy_type |-> type,
                      coverage_amount |-> coverage,
                      premium |-> CalculatePremium(type, coverage, duration),
                      end_time |-> now + duration,
                      status |-> "Active",
                      claim_amount |-> 0, total_claimed |-> 0])
  /\ votes' = Put(votes, policy_counter, NoVotes)
  /\ policy_counter' = policy_counter + 1
  /\ UNCHANGED <<now, paused, board, settings, claims, totals, pool, token>>

\* With a linked pool the premium goes to the pool's account, where the
\* contract becomes its provider and the premium is shared out as yield.
PayPremium(p) ==
  LET amt == policies[p].premium
      deposited == Deposited(pool, Contract, amt)
  IN  /\ ~paused
      /\ StatusOf(p) = "Active"
      /\ Collect(p, IF risk_pool THEN PoolAddr ELSE Contract, amt)
      /\ IF risk_pool
         THEN /\ CanDeposit(pool, Contract, amt)
              /\ CanDistribute(deposited, amt)
              /\ pool' = Distributed(deposited, amt)
         ELSE UNCHANGED pool
      /\ UNCHANGED <<now, paused, board, settings, policy_counter, policies,
                     claims, votes, total_payouts>>

SubmitClaim(p, amt) ==
  /\ ~paused
  /\ StatusOf(p) = "Active"
  /\ amt <= RemainingCoverage(p)
  /\ amt > 0
  /\ policies' = [policies EXCEPT ![p].claim_amount = amt,
                                  ![p].status = "ClaimPending"]
  /\ claims' = Put(claims, p, [claim_amount |-> amt, timestamp |-> now,
                               approved |-> FALSE])
  /\ UNCHANGED <<now, paused, board, settings, policy_counter, votes, totals,
                 pool, token>>

CancelPolicy(p) ==
  /\ ~paused
  /\ StatusOf(p) = "Active"
  /\ policies' = [policies EXCEPT ![p].status = "Cancelled"]
  /\ UNCHANGED <<now, paused, board, settings, policy_counter, claims, votes,
                 totals, pool, token>>

IncreaseCoverage(p, coverage) ==
  LET pol == policies[p]
      delta == coverage - pol.coverage_amount
      remaining == pol.end_time - now
  IN  /\ ~paused
      /\ StatusOf(p) = "Active"
      /\ coverage > pol.coverage_amount
      /\ now < pol.end_time
      /\ CanPrice(pol.policy_type, delta, remaining)
      /\ Collect(p, Contract, CalculatePremium(pol.policy_type, delta, remaining))
      /\ policies' = [policies EXCEPT ![p].coverage_amount = coverage]
      /\ UNCHANGED <<now, paused, board, settings, policy_counter, claims,
                     votes, total_payouts, pool>>

ExtendDuration(p, extra) ==
  LET pol == policies[p]
  IN  /\ ~paused
      /\ StatusOf(p) = "Active"
      /\ now < pol.end_time
      /\ CanPrice(pol.policy_type, pol.coverage_amount, extra)
      /\ Collect(p, Contract,
                 CalculatePremium(pol.policy_type, pol.coverage_amount, extra))
      /\ pol.end_time + extra <= MAX_U64
      /\ policies' = [policies EXCEPT ![p].end_time = @ + extra]
      /\ UNCHANGED <<now, paused, board, settings, policy_counter, claims,
                     votes, total_payouts, pool>>

ChangeBeneficiary(p, holder) ==
  /\ ~paused
  /\ StatusOf(p) = "Active"
  /\ policies' = [policies EXCEPT ![p].beneficiary = holder]
  /\ UNCHANGED <<now, paused, board, settings, policy_counter, claims, votes,
                 totals, pool, token>>

\* A cancelled policy may come back.
BadRenewable(p) == StatusOf(p) # "ClaimPending"

Renewable(p) == StatusOf(p) \in {"Active", "Expired"}

RenewPolicy(p, duration) ==
  LET pol == policies[p]
      base == IF IsExpired(p) THEN now ELSE pol.end_time
      price == CalculatePremium(pol.policy_type, pol.coverage_amount, duration)
  IN  /\ ~paused
      /\ Renewable(p)
      /\ IsExpired(p) => /\ pol.end_time + RENEWAL_GRACE_PERIOD <= MAX_U64
                         /\ now <= pol.end_time + RENEWAL_GRACE_PERIOD
      /\ base + duration <= MAX_U64
      /\ CanPrice(pol.policy_type, pol.coverage_amount, duration)
      /\ Collect(p, Contract, price)
      /\ policies' = [policies EXCEPT ![p].premium = price,
                                      ![p].end_time = base + duration,
                                      ![p].status = "Active"]
      /\ UNCHANGED <<now, paused, board, settings, policy_counter, claims,
                     votes, total_payouts, pool>>

\* The only entry point that stores an expiry and keeps it: the others call
\* expire_policy_if_needed and then fail, which undoes it.
CheckExpiration(p) ==
  /\ policies[p].status = "Active"
  /\ IsExpired(p)
  /\ policies' = [policies EXCEPT ![p].status = "Expired"]
  /\ UNCHANGED <<now, paused, board, settings, policy_counter, claims, votes,
                 totals, pool, token>>

-----------------------------------------------------------------------------
(* Deciding claims.                                                        *)

\* The Admin key decides alone, paused or not, and leaves the votes alone.
ProcessClaim(p, approved) ==
  /\ HasPendingClaim(p)
  /\ IF approved
     THEN /\ Approve(p)
          /\ IF risk_pool THEN PayFromPool(p) ELSE PayFromContract(p)
     ELSE Reject(p)
  /\ UNCHANGED <<now, paused, board, settings, policy_counter, votes>>

\* An admin votes; the vote that completes the approvals pays the claim, from
\* the contract's balance whether or not a pool is linked, and the vote that
\* puts the threshold out of reach rejects it.
VoteClaim(p, voter, approve) ==
  LET ballots == IF approve
                 THEN [votes[p] EXCEPT !.approvals = @ \cup {voter}]
                 ELSE [votes[p] EXCEPT !.rejections = @ \cup {voter}]
  IN  /\ ~paused
      /\ IsAdmin(voter)
      /\ HasPendingClaim(p)
      /\ ~HasVoted(p, voter)
      /\ \/ /\ ThresholdReached(ballots)
            /\ Approve(p)
            /\ PayFromContract(p)
            /\ votes' = [votes EXCEPT ![p] = NoVotes]
         \/ /\ ~ThresholdReached(ballots)
            /\ RejectionForced(ballots)
            /\ Reject(p)
            /\ votes' = [votes EXCEPT ![p] = NoVotes]
         \/ /\ ~ThresholdReached(ballots)
            /\ ~RejectionForced(ballots)
            /\ votes' = [votes EXCEPT ![p] = ballots]
            /\ UNCHANGED <<policies, claims, totals, pool, token>>
      /\ UNCHANGED <<now, paused, board, settings, policy_counter>>

-----------------------------------------------------------------------------
(* Administration.                                                         *)

AddAdmin(caller, new_admin) ==
  /\ IsAdmin(caller)
  /\ ~IsAdmin(new_admin)
  /\ admins' = admins \cup {new_admin}
  /\ UNCHANGED <<now, paused, threshold, settings, policy_counter, policies,
                 claims, votes, totals, pool, token>>

RemoveAdmin(caller, target) ==
  LET filtered == admins \ {target}
  IN  /\ IsAdmin(caller)
      /\ IsAdmin(target)
      /\ Cardinality(admins) > 1
      /\ admins' = filtered
      /\ threshold' = ThresholdFor(filtered)
      /\ UNCHANGED <<now, paused, settings, policy_counter, policies, claims,
                     votes, totals, pool, token>>

SetThreshold(caller, t) ==
  /\ IsAdmin(caller)
  /\ t > 0
  /\ t <= Cardinality(admins)
  /\ threshold' = t
  /\ UNCHANGED <<now, paused, admins, settings, policy_counter, policies,
                 claims, votes, totals, pool, token>>

SetPaused(value) ==
  /\ paused' = value
  /\ UNCHANGED <<now, board, settings, policy_counter, policies, claims,
                 votes, totals, pool, token>>

SetMaxPolicies(cap) ==
  /\ cap > 0
  /\ max_policies' = cap
  /\ UNCHANGED <<now, paused, board, premium_token, risk_pool,
                 policy_counter, policies, claims, votes, totals, pool, token>>

SetPremiumToken ==
  /\ premium_token' = TRUE
  /\ UNCHANGED <<now, paused, board, max_policies, risk_pool,
                 policy_counter, policies, claims, votes, totals, pool, token>>

SetRiskPool ==
  /\ PoolDeployed
  /\ risk_pool' = TRUE
  /\ UNCHANGED <<now, paused, board, max_policies, premium_token,
                 policy_counter, policies, claims, votes, totals, pool, token>>

\* The ledger closes at a later timestamp.
Tick ==
  /\ now < MaxTime   \* checking bound
  /\ now' = now + 1
  /\ UNCHANGED <<paused, board, settings, policy_counter, policies, claims,
                 votes, totals, pool, token>>

-----------------------------------------------------------------------------

HolderNext ==
  \/ \E h \in Holders, t \in PolicyTypes, c \in Coverages, d \in Durations :
       CreatePolicy(h, t, c, d)
  \/ \E p \in DOMAIN policies :
       \/ PayPremium(p)
       \/ \E amt \in ClaimAmounts : SubmitClaim(p, amt)
       \/ CancelPolicy(p)
       \/ \E c \in Coverages : IncreaseCoverage(p, c)
       \/ \E d \in Durations : ExtendDuration(p, d)
       \/ \E h \in Holders : ChangeBeneficiary(p, h)
       \/ \E d \in Durations : RenewPolicy(p, d)
       \/ CheckExpiration(p)

DecisionNext ==
  \E p \in DOMAIN policies :
    \/ \E approved \in BOOLEAN : ProcessClaim(p, approved)
    \/ \E a \in AdminAddrs, approve \in BOOLEAN : VoteClaim(p, a, approve)

AdminNext ==
  \/ \E c \in AdminAddrs, a \in AdminAddrs : AddAdmin(c, a)
  \/ \E c \in AdminAddrs, a \in AdminAddrs : RemoveAdmin(c, a)
  \/ \E c \in AdminAddrs, t \in 0..Cardinality(AdminAddrs) : SetThreshold(c, t)
  \/ \E value \in BOOLEAN : SetPaused(value)
  \/ \E cap \in PolicyCaps : SetMaxPolicies(cap)
  \/ SetPremiumToken
  \/ SetRiskPool

Next == HolderNext \/ DecisionNext \/ AdminNext \/ Tick

Spec == Init /\ [][Next]_vars

-----------------------------------------------------------------------------
(* Properties.                                                             *)

\* Every storage entry keeps its type; policy identifiers are exactly the
\* numbers below the counter, and only existing policies have claims.
TypeOK ==
  /\ PoolTypeOK
  /\ now \in Nat
  /\ paused \in BOOLEAN
  /\ admins \subseteq AdminAddrs
  /\ threshold \in Nat
  /\ max_policies \in Nat
  /\ premium_token \in BOOLEAN
  /\ risk_pool \in BOOLEAN
  /\ policy_counter \in Nat
  /\ policies \in [0 .. policy_counter - 1 -> Policy]
  /\ DOMAIN claims \subseteq DOMAIN policies
  /\ claims \in [DOMAIN claims -> Claim]
  /\ votes \in [0 .. policy_counter - 1 -> ClaimVotes]
  /\ total_premium \in Nat
  /\ total_payouts \in Nat

\* However claims, votes, decisions, coverage increases and renewals
\* interleave, what a policy was paid together with the claim it has open
\* stays within its coverage.
CoverageRespected ==
  \A p \in DOMAIN policies :
    policies[p].total_claimed + policies[p].claim_amount
      <= policies[p].coverage_amount

\* The amount is stored twice, in the policy and in the claim record that
\* the payout reads; while a claim is pending the two agree, and a policy
\* without a pending claim has no amount open.
OpenClaimMatchesRecord ==
  \A p \in DOMAIN policies :
    IF policies[p].status = "ClaimPending"
    THEN /\ HasPendingClaim(p)
         /\ claims[p].claim_amount = policies[p].claim_amount
         /\ policies[p].claim_amount > 0
         /\ ~claims[p].approved
    ELSE policies[p].claim_amount = 0

\* A policy ends as ClaimApproved exactly when its coverage is used up: none
\* stays open with nothing left to claim, none is closed with cover left.
ApprovedMeansExhausted ==
  \A p \in DOMAIN policies :
    policies[p].status = "ClaimApproved"
      <=> policies[p].total_claimed = policies[p].coverage_amount

\* A pending claim was submitted within the policy's term, however late it
\* is decided; and a stored Expired is never premature.
ClaimsFiledInTerm ==
  \A p \in DOMAIN policies :
    /\ policies[p].status = "ClaimPending" =>
         claims[p].timestamp <= policies[p].end_time
    /\ policies[p].status = "Expired" => IsExpired(p)

\* A policy through its life: what is claimed and paid stays within coverage,
\* the end by exhaustion is exactly that, and terms are kept.
LifecycleSound == CoverageRespected /\ ApprovedMeansExhausted /\ ClaimsFiledInTerm

\* The approval threshold can be met by the admins there are, through every
\* sequence of additions, removals and threshold changes.
ThresholdAttainable == threshold \in 1 .. Cardinality(admins)

\* get_treasury_stats tells the truth: what the contract and the pool hold
\* is what they started with, plus the premiums reported as collected,
\* minus the payouts reported as distributed, on every payment path.
TreasuryReconciles ==
  token[Contract] + token[PoolAddr] + total_payouts
    = Seed[Contract] + Seed[PoolAddr] + total_premium

\* The payouts reported are the sum of what the policies were paid.
PayoutsAreClaimsPaid ==
  SumFunction([p \in DOMAIN policies |-> policies[p].total_claimed])
    = total_payouts

\* Each token a policyholder gains is the payout of a claim of theirs that
\* was pending and unapproved, is paid whole, and is then recorded as
\* approved: no claim is paid twice, in part, or to somebody else.
OnlyPendingClaimsPay ==
  [][\A h \in Holders : token'[h] > token[h] =>
       \E p \in DOMAIN policies :
         /\ policies[p].policyholder = h
         /\ policies[p].status = "ClaimPending" /\ ~claims[p].approved
         /\ token'[h] = token[h] + policies[p].claim_amount
         /\ policies'[p].status # "ClaimPending" /\ claims'[p].approved]_vars

\* Cancelled and exhausted policies never change again: no claim, renewal
\* or expiry check revives one.
EndedForGood ==
  [][\A p \in DOMAIN policies :
       policies[p].status \in {"Cancelled", "ClaimApproved"} =>
         policies'[p] = policies[p]]_vars

\* While the contract stays paused no policy is sold, no premium collected
\* and no vote taken; a policy changes only by the Admin settling its
\* pending claim or by being marked expired.
PausedFreezesBusiness ==
  [][paused /\ paused' =>
       /\ UNCHANGED <<policy_counter, total_premium, votes>>
       /\ \A p \in DOMAIN policies : policies'[p] # policies[p] =>
            \/ policies[p].status = "ClaimPending"
            \/ policies[p].status = "Active"
               /\ policies'[p].status = "Expired"]_vars

\* What stops business stops it: an ended policy for good, a paused contract
\* while it is paused.
StopsHold == EndedForGood /\ PausedFreezesBusiness

\* A vote never leaves a claim pending with nobody left to vote: after a
\* vote that decides nothing, some admin has not voted yet.
VotingCanGoOn ==
  [][\A p \in DOMAIN votes :
       votes'[p] # votes[p] /\ policies'[p].status = "ClaimPending" =>
         \E a \in admins :
           a \notin votes'[p].approvals \cup votes'[p].rejections]_vars

\* The coverage ledger this contract implements: claim_amount is the open
\* claim, and a policy is closed by its cancellation or its last payout.
LedgerOf ==
  [p \in DOMAIN policies |->
     [limit  |-> policies[p].coverage_amount,
      paid   |-> policies[p].total_claimed,
      open   |-> policies[p].claim_amount,
      closed |-> policies[p].status \in {"Cancelled", "ClaimApproved"}]]

=============================================================================
