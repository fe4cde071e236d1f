------------------------------ MODULE Premium ------------------------------
(***************************************************************************)
(* The price of a policy (smartcontract/src/premium.rs): a chain of        *)
(* floor divisions over checked i128 products, with a minimum.  The rates, *)
(* the thresholds and the units are constants so that small instances can  *)
(* reach every tier.                                                       *)
(***************************************************************************)
EXTENDS Soroban

CONSTANTS
  PolicyTypes,
  BaseRate,              \* base_rate_bps: PolicyTypes -> basis points a year
  BPS_DENOM,
  SECONDS_PER_YEAR,
  MIN_PREMIUM_STROOPS,
  TIER2_THRESHOLD, TIER2_SURCHARGE,
  TIER3_THRESHOLD, TIER3_SURCHARGE

ASSUME PremiumAssumption ==
  /\ BaseRate \in [PolicyTypes -> Nat]
  /\ BPS_DENOM \in Nat \ {0}
  /\ SECONDS_PER_YEAR \in Nat \ {0}
  /\ MIN_PREMIUM_STROOPS \in Nat \ {0}
  /\ TIER2_THRESHOLD \in Nat /\ TIER2_SURCHARGE \in Nat
  /\ TIER3_THRESHOLD \in Nat /\ TIER3_SURCHARGE \in Nat
  /\ TIER2_THRESHOLD <= TIER3_THRESHOLD /\ TIER2_SURCHARGE <= TIER3_SURCHARGE

CoverageFactor(coverage) ==
  CASE coverage >= TIER3_THRESHOLD -> TIER3_SURCHARGE
    [] coverage < TIER3_THRESHOLD /\ coverage >= TIER2_THRESHOLD -> TIER2_SURCHARGE
    [] OTHER -> 0

AnnualBase(type, coverage) == (coverage * BaseRate[type]) \div BPS_DENOM

DurationAdjusted(type, coverage, duration) ==
  (AnnualBase(type, coverage) * duration) \div SECONDS_PER_YEAR

RawPremium(type, coverage, duration) ==
  (DurationAdjusted(type, coverage, duration)
     * (BPS_DENOM + CoverageFactor(coverage))) \div BPS_DENOM

\* calculate_premium succeeds: positive inputs, and no product overflows.
CanPrice(type, coverage, duration) ==
  /\ coverage > 0
  /\ duration > 0
  /\ Fits(coverage * BaseRate[type])
  /\ Fits(AnnualBase(type, coverage) * duration)
  /\ Fits(DurationAdjusted(type, coverage, duration)
            * (BPS_DENOM + CoverageFactor(coverage)))

CalculatePremium(type, coverage, duration) ==
  LET raw == RawPremium(type, coverage, duration)
  IN  IF raw < MIN_PREMIUM_STROOPS THEN MIN_PREMIUM_STROOPS ELSE raw
=============================================================================
