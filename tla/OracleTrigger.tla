--------------------------- MODULE OracleTrigger ---------------------------
(***************************************************************************)
(* The oracle entry points of the insurance contract (smartcontract/src/   *)
(* oracle.rs with its part of lib.rs and storage.rs): the price feed, the  *)
(* registry of oracles and the third way of approving a claim.             *)
(*                                                                         *)
(* verify_oracle_condition is no action: as an entry point it either       *)
(* changes nothing or sets the pause flag and returns an error, which      *)
(* undoes that.  Only evaluate_oracle_trigger, which calls it directly and *)
(* drops its errors while counting, keeps the flag.                        *)
(***************************************************************************)
EXTENDS StellarInsure

CONSTANTS
  OracleTypes,      \* symbols that the admin registers oracles under
  OracleAddrs,      \* addresses of oracles
  Windows,          \* freshness windows that the admin sets
  DefaultWindow,    \* the window before that, one day in the code
  Quorums           \* quorum thresholds that the admin sets

ASSUME OracleAssumption ==
  /\ IsFiniteSet(OracleTypes)
  /\ Windows \subseteq Nat
  /\ DefaultWindow \in Nat
  /\ Quorums \subseteq Nat

VARIABLES
  oracle_address,   \* OracleAddress(type) entries
  oracle_types,     \* the OracleAddresses list (its order is never observed)
  quorum,
  price_timestamp,  \* 0 until the first update
  freshness

registry == <<oracle_address, oracle_types, quorum>>
feed == <<price_timestamp, freshness>>
oracleVars == <<vars, registry, feed>>

-----------------------------------------------------------------------------
(* Verification.                                                           *)

\* The window is not looked at.
BadPriceStale == FALSE

PriceStale ==
  price_timestamp <= now /\ now - price_timestamp > freshness

PriceUnavailable == price_timestamp = 0 \/ PriceStale

\* Weather, Flight and every symbol that is not a known type verify always;
\* Price does when its last update is neither missing, stale nor in the future.
Verifies(type) ==
  type = "Price" => ~PriceUnavailable /\ price_timestamp <= now

Registered == oracle_types \cap DOMAIN oracle_address

Confirmations == {type \in Registered : Verifies(type)}

\* Only the oracle that calls is asked.
BadQuorumReached == TRUE

QuorumReached == Cardinality(Confirmations) >= quorum

-----------------------------------------------------------------------------
(* The entry points.                                                       *)

OracleInit ==
  /\ Init
  /\ oracle_address = [t \in {} |-> {}]
  /\ oracle_types = {}
  /\ quorum = 1
  /\ price_timestamp = 0
  /\ freshness = DefaultWindow

\* Anybody may call it; the price itself is never read by an entry point.
UpdatePriceFeed(timestamp) ==
  /\ price_timestamp' = timestamp
  /\ paused' = (paused \/ (now > timestamp /\ now - timestamp > freshness))
  /\ UNCHANGED <<now, board, settings, policy_counter, policies, claims,
                 votes, totals, pool, token, registry, freshness>>

SetPriceFreshnessWindow(window) ==
  /\ freshness' = window
  /\ UNCHANGED <<vars, registry, price_timestamp>>

\* register_oracle, and update_oracle, which first requires the entry.
RegisterOracle(type, address) ==
  /\ oracle_address' = Put(oracle_address, type, address)
  /\ oracle_types' = oracle_types \cup {type}
  /\ UNCHANGED <<vars, quorum, feed>>

\* The list keeps the removed type.
BadUnlisted(type) == oracle_types

Unlisted(type) == oracle_types \ {type}

RemoveOracle(type) ==
  /\ type \in DOMAIN oracle_address
  /\ oracle_address' = [t \in DOMAIN oracle_address \ {type} |-> oracle_address[t]]
  /\ oracle_types' = Unlisted(type)
  /\ UNCHANGED <<vars, quorum, feed>>

SetOracleQuorumThreshold(t) ==
  /\ t > 0
  /\ quorum' = t
  /\ UNCHANGED <<vars, oracle_address, oracle_types, feed>>

\* The claim is counted, and stays open as well.
BadTriggeredCounted(p) ==
  /\ policies' = [policies EXCEPT
                    ![p].status = "ClaimApproved",
                    ![p].total_claimed = @ + claims[p].claim_amount]
  /\ claims' = [claims EXCEPT ![p].approved = TRUE]
  /\ total_payouts' = total_payouts + claims[p].claim_amount
  /\ UNCHANGED total_premium

\* Unlike Approve, this leaves total_claimed and claim_amount as they are.
Triggered(p) ==
  /\ Fits(total_payouts + claims[p].claim_amount)
  /\ policies' = [policies EXCEPT ![p].status = "ClaimApproved"]
  /\ claims' = [claims EXCEPT ![p].approved = TRUE]
  /\ total_payouts' = total_payouts + claims[p].claim_amount
  /\ UNCHANGED total_premium

Triggerable(p) == HasPendingClaim(p)

\* Called by the Admin key or by the type's oracle.  The quorum is counted
\* over all registered types; the caller's own type must verify as well.
EvaluateOracleTrigger(p, type) ==
  /\ ~paused
  /\ Triggerable(p)
  /\ type \in DOMAIN oracle_address
  /\ QuorumReached
  /\ Verifies(type)
  /\ Triggered(p)
  /\ IF risk_pool THEN PayFromPool(p) ELSE PayFromContract(p)
  /\ paused' = ("Price" \in Registered /\ PriceUnavailable)
  /\ UNCHANGED <<now, board, settings, policy_counter, votes, registry, feed>>

OracleNext ==
  \/ Next /\ UNCHANGED <<registry, feed>>
  \/ \E ts \in 0 .. MaxTime + 1 : UpdatePriceFeed(ts)
  \/ \E w \in Windows : SetPriceFreshnessWindow(w)
  \/ \E t \in OracleTypes, a \in OracleAddrs : RegisterOracle(t, a)
  \/ \E t \in OracleTypes : RemoveOracle(t)
  \/ \E t \in Quorums : SetOracleQuorumThreshold(t)
  \/ \E p \in DOMAIN policies, t \in OracleTypes : EvaluateOracleTrigger(p, t)

OracleSpec == OracleInit /\ [][OracleNext]_oracleVars

-----------------------------------------------------------------------------
(* Properties.                                                             *)

\* The oracle storage is typed; a quorum of none is never stored, so that no
\* claim is approved on no confirmation at all.
OracleTypeOK ==
  /\ oracle_types \subseteq OracleTypes
  /\ DOMAIN oracle_address \subseteq OracleTypes
  /\ oracle_address \in [DOMAIN oracle_address -> OracleAddrs]
  /\ quorum \in Nat \ {0}
  /\ price_timestamp \in Nat
  /\ freshness \in Nat

\* The list that the quorum is counted over and the entries that authorise
\* callers, which storage.rs updates by separate calls, name the same types:
\* no removed oracle is counted and no registered one is left out.
OracleRegistryConsistent == oracle_types = DOMAIN oracle_address

\* When the only oracle there is reports prices, no claim is approved by it
\* on a price that is missing, older than the window or from the future.
PricePaysOnlyWhenFresh ==
  [][\A p \in DOMAIN policies :
       /\ DOMAIN oracle_address = {"Price"}
       /\ policies[p].status = "ClaimPending"
       /\ policies'[p].status = "ClaimApproved"
       /\ policies'[p].total_claimed = policies[p].total_claimed
       => /\ price_timestamp \in 1 .. now
          /\ now - price_timestamp <= freshness]_oracleVars

\* However the registry and the quorum change while a claim is pending, an
\* oracle approves it only with as many oracles registered as the quorum
\* asks for.
OraclesApproveInQuorum ==
  [][\A p \in DOMAIN policies :
       /\ policies[p].status = "ClaimPending"
       /\ policies'[p].status = "ClaimApproved"
       /\ policies'[p].total_claimed = policies[p].total_claimed
       => Cardinality(DOMAIN oracle_address) >= quorum]_oracleVars
=============================================================================
