----------------------------- MODULE PolicyCache -----------------------------
(***************************************************************************)
(* backend/src/routes/policies.py, claims.py, storage.py and auth.py over  *)
(* the rows of one user's policies and claims, and cache.py, which keeps   *)
(* the lists of policies in Redis.  Several workers serve requests, one at *)
(* a time each: between a worker's look at the database and its commit,    *)
(* and between that and its invalidation, the others go on, a worker may   *)
(* die, and any call of Redis may fail, which the handlers ignore.         *)
(*                                                                         *)
(* A list is what a filter on the status leaves; types, pages and accounts *)
(* are further parts of the same key.  Amounts and the end of a policy's   *)
(* term are left out: a claim may be refused for either at any time.       *)
(*                                                                         *)
(* Time goes in ticks of the cache's time to live, redis_cache_ttl: an     *)
(* entry is gone before a second tick.  A worker's look at the database    *)
(* and its write to the cache fall into one tick (300 s): NothingRead.     *)
(***************************************************************************)

CONSTANTS Workers, PolicyIds, ClaimIds, NoClaim, NoEntry,
          Filters       \* "all" and statuses to filter by

ASSUME CacheAssumption ==
  /\ "all" \in Filters
  /\ NoClaim \notin [policy : PolicyIds, approved : BOOLEAN]

Statuses ==
  {"none", "active", "claim_pending", "claim_approved", "claim_rejected", "cancelled"}
Terminal == {"cancelled", "claim_approved", "claim_rejected"}

Rows == [PolicyIds -> Statuses]

\* The query of get_user_policies.
PoliciesBy(rows, filter) ==
  [p \in {q \in PolicyIds : rows[q] # "none" /\ filter \in {"all", rows[q]}} |-> rows[p]]

VARIABLES
  rows,      \* the status of each policy, "none" before it is created
  claims,    \* the rows of claims
  deleted,   \* the user's account
  cache,     \* per filter an entry [list, old] or none
  working,   \* what each worker is at
  slips      \* whether a list was left wrong in this tick [now] or the last [before]

policyVars == <<rows, claims, deleted, cache, working, slips>>

AtEase == [step |-> "idle"]

PoliciesDeployed ==
  /\ rows = [p \in PolicyIds |-> "none"]
  /\ claims = [c \in ClaimIds |-> NoClaim]
  /\ deleted = FALSE
  /\ cache = [f \in Filters |-> NoEntry]
  /\ working = [w \in Workers |-> AtEase]
  /\ slips = [now |-> FALSE, before |-> FALSE]

\* For the property only: a write that nobody will invalidate, one whose
\* invalidation is lost, or a list that was overtaken by a write.
SlipIf(slip) == slips' = [slips EXCEPT !.now = slips.now \/ slip]

Goes(w, to) == working' = [working EXCEPT ![w] = to]

-----------------------------------------------------------------------------
(* Lists.  One that is found in the cache is answered as it is, which      *)
(* changes nothing; a list that is there may also not be found, when Redis *)
(* does not answer.  Likewise a call that sets or deletes may have no      *)
(* effect: every error of Redis is caught.                                 *)

CacheKey(filter) == filter

ReadPolicies(w, f) ==
  /\ working[w] = AtEase /\ ~deleted
  /\ Goes(w, [step |-> "read", filter |-> f, list |-> PoliciesBy(rows, f)])
  /\ UNCHANGED <<rows, claims, deleted, cache, slips>>

CacheSet(w) ==
  /\ working[w].step = "read"
  /\ Goes(w, AtEase)
  /\ cache' \in {cache, [cache EXCEPT ![CacheKey(working[w].filter)] =
                           [list |-> working[w].list, old |-> FALSE]]}
  /\ SlipIf(working[w].list # PoliciesBy(rows, working[w].filter))
  /\ UNCHANGED <<rows, claims, deleted>>

-----------------------------------------------------------------------------
(* Writers: a look at the rows, a commit, and an invalidation of all lists *)

BadCommitted == AtEase
Committed == [step |-> "committed"]

CreatePolicy(w, p) ==
  /\ working[w] = AtEase /\ ~deleted /\ rows[p] = "none"
  /\ rows' = [rows EXCEPT ![p] = "active"]
  /\ Goes(w, Committed)
  /\ UNCHANGED <<claims, deleted, cache, slips>>

\* What a handler is about to commit: a status, not written if the policy had it
\* already when the handler looked, and a claim's approval if that changes.
Job(do, p, to, c, changes) ==
  [step |-> "checked", do |-> do, policy |-> p, to |-> to, same |-> rows[p] = to,
   claim |-> c, changes |-> changes]

CheckCancel(w, p) ==
  /\ working[w] = AtEase /\ ~deleted /\ rows[p] \notin Terminal \cup {"none"}
  /\ Goes(w, Job("cancel", p, "cancelled", NoClaim, FALSE))
  /\ UNCHANGED <<rows, claims, deleted, cache, slips>>

\* create_claim and create_claim_with_file of claims.py, and submit_claim of
\* policies.py, which does not invalidate the lists.
CheckClaim(w, p) ==
  /\ working[w] = AtEase /\ ~deleted /\ rows[p] = "active"
  /\ \E route \in {"create_claim", "submit_claim"} :
       Goes(w, Job(route, p, "claim_pending", NoClaim, FALSE))
  /\ UNCHANGED <<rows, claims, deleted, cache, slips>>

\* update_claim_status, by an admin: any claim, whatever became of it.
Verdict(approved) == IF approved THEN "claim_approved" ELSE "claim_rejected"

CheckDecision(w, c) ==
  /\ working[w] = AtEase /\ claims[c] # NoClaim
  /\ \E approved \in BOOLEAN :
       Goes(w, Job("decide", claims[c].policy, Verdict(approved),
                   c, claims[c].approved # approved))
  /\ UNCHANGED <<rows, claims, deleted, cache, slips>>

SetStatus(job) == rows' = IF job.same THEN rows ELSE [rows EXCEPT ![job.policy] = job.to]

CommitCancel(w) ==
  LET job == working[w] IN
    /\ job.step = "checked" /\ job.do = "cancel"
    /\ SetStatus(job)
    /\ Goes(w, Committed)
    /\ UNCHANGED <<claims, deleted, cache, slips>>

CommitClaim(w) ==
  LET job == working[w] IN
    /\ job.step = "checked" /\ job.do \in {"create_claim", "submit_claim"}
    /\ \E c \in ClaimIds :
         /\ claims[c] = NoClaim
         /\ claims' = [claims EXCEPT ![c] = [policy |-> job.policy, approved |-> FALSE]]
    /\ SetStatus(job)
    /\ Goes(w, IF job.do = "create_claim" THEN Committed ELSE AtEase)
    /\ SlipIf(job.do = "submit_claim" /\ rows' # rows)
    /\ UNCHANGED <<deleted, cache>>

\* A claim deleted since it was read cannot be updated, and then nothing is; if
\* there is nothing to update in it, reading it again after the commit fails.
CommitDecision(w) ==
  LET job == working[w]
      gone == claims[job.claim] = NoClaim
  IN /\ job.step = "checked" /\ job.do = "decide"
     /\ IF gone /\ job.changes
        THEN UNCHANGED <<rows, claims>>
        ELSE /\ SetStatus(job)
             /\ claims' = IF job.changes
                          THEN [claims EXCEPT ![job.claim].approved =
                                  (job.to = "claim_approved")]
                          ELSE claims
     /\ Goes(w, IF gone THEN AtEase ELSE Committed)
     /\ SlipIf(gone /\ rows' # rows)
     /\ UNCHANGED <<deleted, cache>>

\* cache_delete_pattern asks for the keys, and then deletes those it was told.
FindKeys(w) ==
  /\ working[w].step = "committed"
  /\ \/ /\ Goes(w, [step |-> "found", keys |-> {f \in Filters : cache[f] # NoEntry}])
        /\ UNCHANGED slips
     \/ Goes(w, AtEase) /\ SlipIf(TRUE)
  /\ UNCHANGED <<rows, claims, deleted, cache>>

DeleteKeys(w) ==
  /\ working[w].step = "found"
  /\ Goes(w, AtEase)
  /\ \/ /\ cache' = [f \in Filters |-> IF f \in working[w].keys THEN NoEntry ELSE cache[f]]
        /\ UNCHANGED slips
     \/ UNCHANGED cache /\ SlipIf(TRUE)
  /\ UNCHANGED <<rows, claims, deleted>>

\* storage.py, delete_file: the file and its claim; the policy stays as it is.
DeleteClaim(c) ==
  /\ ~deleted /\ claims[c] # NoClaim
  /\ claims' = [claims EXCEPT ![c] = NoClaim]
  /\ UNCHANGED <<rows, deleted, cache, working, slips>>

\* auth.py, delete_account: two updates in one transaction, no invalidation.
DeleteAccount ==
  /\ ~deleted /\ deleted' = TRUE
  /\ rows' = [p \in PolicyIds |->
                CASE rows[p] = "active" -> "cancelled"
                  [] rows[p] = "claim_pending" -> "claim_rejected"
                  [] OTHER -> rows[p]]
  /\ SlipIf(rows' # rows)
  /\ UNCHANGED <<claims, cache, working>>

-----------------------------------------------------------------------------
(* Failures and time                                                       *)

WorkerStops(w) ==
  /\ working[w] # AtEase
  /\ Goes(w, AtEase)
  /\ SlipIf(working[w].step \in {"committed", "found"})
  /\ UNCHANGED <<rows, claims, deleted, cache>>

\* setex: an entry runs out in the tick after the one it was set in, or earlier
\* when Redis evicts it or starts anew.
Aged(entry) == IF entry = NoEntry THEN NoEntry ELSE [entry EXCEPT !.old = TRUE]

Expire(f) ==
  /\ cache[f] # NoEntry
  /\ cache' = [cache EXCEPT ![f] = NoEntry]
  /\ UNCHANGED <<rows, claims, deleted, working, slips>>

NothingRead == \A w \in Workers : working[w].step # "read"

Tick ==
  /\ NothingRead
  /\ \A f \in Filters : cache[f] # NoEntry => ~cache[f].old
  /\ cache' = [f \in Filters |-> Aged(cache[f])]
  /\ slips' = [now |-> FALSE, before |-> slips.now]
  /\ UNCHANGED <<rows, claims, deleted, working>>

PoliciesNext ==
  \/ \E w \in Workers :
       \/ \E f \in Filters : ReadPolicies(w, f)
       \/ CacheSet(w)
       \/ \E p \in PolicyIds :
            \/ CreatePolicy(w, p)
            \/ CheckCancel(w, p)
            \/ CheckClaim(w, p)
       \/ \E c \in ClaimIds : CheckDecision(w, c)
       \/ CommitCancel(w) \/ CommitClaim(w) \/ CommitDecision(w)
       \/ FindKeys(w) \/ DeleteKeys(w)
       \/ WorkerStops(w)
  \/ \E c \in ClaimIds : DeleteClaim(c)
  \/ DeleteAccount
  \/ \E f \in Filters : Expire(f)
  \/ Tick

-----------------------------------------------------------------------------
\* A list in the cache that is not the database's is about to be invalidated, or
\* else something went wrong within its time to live: a write that does not
\* invalidate, a worker or Redis failing between commit and deletion, or a list
\* read before a commit and stored after it.  Nothing else leaves a list wrong,
\* whatever runs beside it, and nothing for longer.
ListsAreRecent ==
  \A f \in Filters :
    cache[f] # NoEntry /\ cache[f].list # PoliciesBy(rows, f) =>
      \/ \E w \in Workers :
           \/ working[w].step = "committed"
           \/ working[w].step = "found" /\ f \in working[w].keys
      \/ slips.now
      \/ cache[f].old /\ slips.before
=============================================================================
