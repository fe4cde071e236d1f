--------------------------- MODULE BackendProofs ---------------------------
(***************************************************************************)
(* Proofs about Backend: an answered payment stands, a cached list is      *)
(* wrong only for a reason and for its time to live, and the status of a   *)
(* delivery is what the endpoint said.                                     *)
(***************************************************************************)
EXTENDS Backend, TLAPS

\* A step of the backend is, for each part, a step of it or none.
LEMMA PartSteps ==
  ASSUME [BackendNext]_vars
  PROVE  /\ [PoliciesNext]_policyVars
         /\ [PaymentsNext]_payments
         /\ [HooksNext]_hooks
BY DEF BackendNext, vars, UsingPolicies, UsingPayments, UsingWebhooks

-----------------------------------------------------------------------------
(* Payments.                                                               *)

Serving ==
  [step : {"idle"}] \cup [step : {"new"}, request : Request]
    \cup [step : {"stored"}, request : Request, transaction : Nat]

\* Row id of the table holds the hash.
Stored(table, id, hash) == id \in 1..Len(table) /\ table[id] = hash

\* What every step of the payments preserves: whatever has a transaction has
\* that of its own hash, and a record is there for every answer.
PaymentsTyped(p) ==
  p \in [transactions : Seq(Hashes),
         records : [Keys -> [hash : Hashes \cup {"none"}, transaction : Nat]],
         serving : [PaymentWorkers -> Serving],
         answers : SUBSET [key : Keys, hash : Hashes, transaction : Nat]]

RecordsStored(p) ==
  \A k \in Keys : p.records[k] # NoRecord =>
    Stored(p.transactions, p.records[k].transaction, p.records[k].hash)

ServingStored(p) ==
  \A w \in PaymentWorkers : p.serving[w].step = "stored" =>
    Stored(p.transactions, p.serving[w].transaction, p.serving[w].request.hash)

AnswersRecorded(p) ==
  \A a \in p.answers :
    /\ p.records[a.key] = [hash |-> a.hash, transaction |-> a.transaction]
    /\ Stored(p.transactions, a.transaction, a.hash)

PaymentsInv(p) ==
  PaymentsTyped(p) /\ RecordsStored(p) /\ ServingStored(p) /\ AnswersRecorded(p)

\* The look-up answers with what the record names.
LEMMA LookUpStep ==
  ASSUME PaymentsInv(payments), NEW w \in PaymentWorkers, NEW request \in Request,
         LookUp(w, request)
  PROVE  PaymentsInv(payments')
<1> DEFINE k == request.key
           r == payments.records[k]
           a == Answer(request, r.transaction)
           n == [step |-> "new", request |-> request]
<1>0. k \in Keys /\ request.hash \in Hashes BY DEF Request
<1>1. CASE payments' = payments BY <1>1
<1>2. CASE /\ Used(k) /\ Replayed(request)
           /\ payments' = [payments EXCEPT !.answers = payments.answers \cup {a}]
  <2>1. /\ r \in [hash : Hashes \cup {"none"}, transaction : Nat]
        /\ r.hash = request.hash /\ Stored(payments.transactions, r.transaction, request.hash)
    BY <1>0, <1>2 DEF PaymentsInv, PaymentsTyped, RecordsStored, Used, Replayed
  <2>2. r = [hash |-> request.hash, transaction |-> r.transaction] BY <2>1
  <2>3. /\ a \in [key : Keys, hash : Hashes, transaction : Nat]
        /\ a.key = k /\ a.hash = request.hash /\ a.transaction = r.transaction
    BY <1>0, <2>1 DEF Answer
  <2> HIDE DEF a
  <2>4. /\ payments'.transactions = payments.transactions
        /\ payments'.records = payments.records /\ payments'.serving = payments.serving
        /\ payments'.answers = payments.answers \cup {a}
    BY <1>2 DEF PaymentsInv, PaymentsTyped
  <2>5. PaymentsTyped(payments') BY <1>2, <2>3 DEF PaymentsInv, PaymentsTyped
  <2>6. RecordsStored(payments') /\ ServingStored(payments')
    BY <2>4 DEF PaymentsInv, RecordsStored, ServingStored
  <2>7. AnswersRecorded(payments')
    BY <2>1, <2>2, <2>3, <2>4 DEF PaymentsInv, AnswersRecorded
  <2> QED BY <2>5, <2>6, <2>7 DEF PaymentsInv
<1>3. CASE payments' = [payments EXCEPT !.serving[w] = n]
  <2>1. n \in Serving /\ n.step # "stored" BY DEF Serving
  <2> HIDE DEF n
  <2>2. /\ payments'.transactions = payments.transactions
        /\ payments'.records = payments.records /\ payments'.answers = payments.answers
        /\ payments'.serving = [payments.serving EXCEPT ![w] = n]
    BY <1>3 DEF PaymentsInv, PaymentsTyped
  <2>3. PaymentsTyped(payments') BY <1>3, <2>1 DEF PaymentsInv, PaymentsTyped
  <2>4. RecordsStored(payments') /\ AnswersRecorded(payments')
    BY <2>2 DEF PaymentsInv, RecordsStored, AnswersRecorded
  <2>5. ServingStored(payments')
    BY <2>1, <2>2 DEF PaymentsInv, PaymentsTyped, ServingStored
  <2> QED BY <2>3, <2>4, <2>5 DEF PaymentsInv
<1> QED BY <1>1, <1>2, <1>3 DEF LookUp

\* A worker that goes back to rest, or dies, leaves the rest as it is.
LEMMA RestStep ==
  ASSUME PaymentsInv(payments), NEW w \in PaymentWorkers,
         payments' = [payments EXCEPT !.serving[w] = AtRest]
  PROVE  PaymentsInv(payments')
<1>1. AtRest \in Serving /\ AtRest.step # "stored" BY DEF AtRest, Serving
<1>2. /\ payments'.transactions = payments.transactions
      /\ payments'.records = payments.records /\ payments'.answers = payments.answers
      /\ payments'.serving = [payments.serving EXCEPT ![w] = AtRest]
  BY DEF PaymentsInv, PaymentsTyped
<1>3. PaymentsTyped(payments') BY <1>1 DEF PaymentsInv, PaymentsTyped
<1>4. RecordsStored(payments') /\ AnswersRecorded(payments')
  BY <1>2 DEF PaymentsInv, RecordsStored, AnswersRecorded
<1>5. ServingStored(payments')
  BY <1>1, <1>2 DEF PaymentsInv, PaymentsTyped, ServingStored
<1> QED BY <1>3, <1>4, <1>5 DEF PaymentsInv

\* A row more leaves the others in their places.
LEMMA InsertStep ==
  ASSUME PaymentsInv(payments), NEW w \in PaymentWorkers, Insert(w)
  PROVE  PaymentsInv(payments')
<1> DEFINE request == payments.serving[w].request
           n == Len(payments.transactions)
           s == [step |-> "stored", request |-> request, transaction |-> n + 1]
           t == Append(payments.transactions, request.hash)
<1>1. payments.serving[w] \in Serving /\ payments.serving[w].step = "new"
  BY DEF PaymentsInv, PaymentsTyped, Insert
<1>2. request \in Request /\ request.hash \in Hashes BY <1>1 DEF Serving, Request
<1>3. payments.transactions \in Seq(Hashes) /\ n \in Nat BY DEF PaymentsInv, PaymentsTyped
<1>4. CASE payments' = [payments EXCEPT !.transactions = t, !.serving[w] = s]
  <2>1. t \in Seq(Hashes) /\ Len(t) = n + 1 /\ t[n + 1] = request.hash
    BY <1>2, <1>3
  <2>2. \A i \in 1..n : t[i] = payments.transactions[i] BY <1>2, <1>3
  <2>3. s \in Serving BY <1>2, <1>3 DEF Serving
  <2>4. /\ payments'.transactions = t
        /\ payments'.records = payments.records /\ payments'.answers = payments.answers
        /\ payments'.serving = [payments.serving EXCEPT ![w] = s]
    BY <1>4 DEF PaymentsInv, PaymentsTyped
  <2>5. s.transaction = n + 1 /\ s.request.hash = request.hash OBVIOUS
  <2>6. \A id, hash : Stored(payments.transactions, id, hash) => Stored(t, id, hash)
    <3> SUFFICES ASSUME NEW id \in 1..n PROVE id \in 1..Len(t) /\ t[id] = payments.transactions[id]
      BY DEF Stored
    <3> QED BY <1>3, <2>1, <2>2
  <2>7. Stored(t, n + 1, request.hash) BY <1>3, <2>1 DEF Stored
  <2> HIDE DEF s, t
  <2>8. PaymentsTyped(payments') BY <1>4, <2>1, <2>3 DEF PaymentsInv, PaymentsTyped
  <2>9. RecordsStored(payments') /\ AnswersRecorded(payments')
    BY <2>4, <2>6 DEF PaymentsInv, RecordsStored, AnswersRecorded
  <2>10. ServingStored(payments')
    BY <2>4, <2>5, <2>6, <2>7 DEF PaymentsInv, PaymentsTyped, ServingStored
  <2> QED BY <2>8, <2>9, <2>10 DEF PaymentsInv
<1> QED BY <1>4, RestStep DEF Insert

\* A key is recorded once, and the answer is what its record says.
LEMMA RecordStep ==
  ASSUME PaymentsInv(payments), NEW w \in PaymentWorkers, Record(w)
  PROVE  PaymentsInv(payments')
<1> DEFINE s == payments.serving[w]
           k == s.request.key
           h == s.request.hash
           r == [hash |-> h, transaction |-> s.transaction]
           a == Answer(s.request, s.transaction)
<1>1. s \in Serving /\ s.step = "stored" /\ Stored(payments.transactions, s.transaction, h)
  BY DEF PaymentsInv, PaymentsTyped, ServingStored, Record
<1>2. s.request \in Request /\ s.transaction \in Nat /\ k \in Keys /\ h \in Hashes
  BY <1>1 DEF Serving, Request
<1>3. CASE /\ KeyFree(k)
           /\ payments' = [payments EXCEPT !.records[k] = r, !.serving[w] = AtRest,
                                           !.answers = payments.answers \cup {a}]
  <2>1. /\ payments'.transactions = payments.transactions
        /\ payments'.records = [payments.records EXCEPT ![k] = r]
        /\ payments'.answers = payments.answers \cup {a}
        /\ payments'.serving = [payments.serving EXCEPT ![w] = AtRest]
    BY <1>3 DEF PaymentsInv, PaymentsTyped
  <2>2. /\ a \in [key : Keys, hash : Hashes, transaction : Nat]
        /\ a.key = k /\ a.hash = h /\ a.transaction = s.transaction
    BY <1>2 DEF Answer
  <2>3. /\ r \in [hash : Hashes \cup {"none"}, transaction : Nat]
        /\ r.hash = h /\ r.transaction = s.transaction
    BY <1>2
  <2>4. AtRest \in Serving /\ AtRest.step # "stored" BY DEF AtRest, Serving
  <2>5. \A b \in payments.answers : b.key # k
    <3> SUFFICES ASSUME NEW b \in payments.answers, b.key = k PROVE FALSE OBVIOUS
    <3>1. /\ payments.records[k] = [hash |-> b.hash, transaction |-> b.transaction]
          /\ b.transaction \in 1..Len(payments.transactions)
      BY DEF PaymentsInv, AnswersRecorded, Stored
    <3>2. payments.records[k].transaction >= 1 BY <3>1 DEF PaymentsInv, PaymentsTyped
    <3> QED BY <1>3, <3>2 DEF KeyFree, Used, NoRecord
  <2>6. \A b \in payments.answers : b.key \in Keys BY DEF PaymentsInv, PaymentsTyped
  <2>7. /\ payments'.records[k] = r
        /\ \A j \in Keys : j # k => payments'.records[j] = payments.records[j]
    BY <1>2, <2>1 DEF PaymentsInv, PaymentsTyped
  <2>8. [hash |-> a.hash, transaction |-> a.transaction] = r BY <2>2
  <2> HIDE DEF a, r
  <2>9. PaymentsTyped(payments')
    BY <1>2, <1>3, <2>2, <2>3, <2>4 DEF PaymentsInv, PaymentsTyped
  <2>10. RecordsStored(payments')
    BY <1>1, <2>1, <2>3, <2>7 DEF PaymentsInv, RecordsStored
  <2>11. ServingStored(payments')
    BY <2>1, <2>4 DEF PaymentsInv, PaymentsTyped, ServingStored
  <2>12. AnswersRecorded(payments')
    <3>1. ASSUME NEW b \in payments.answers
          PROVE  payments'.records[b.key] = payments.records[b.key]
      BY <2>5, <2>6, <2>7
    <3>2. /\ payments'.records[a.key] = [hash |-> a.hash, transaction |-> a.transaction]
          /\ Stored(payments.transactions, a.transaction, a.hash)
      BY <1>1, <2>2, <2>7, <2>8
    <3> QED BY <2>1, <3>1, <3>2 DEF PaymentsInv, AnswersRecorded
  <2> QED BY <2>9, <2>10, <2>11, <2>12 DEF PaymentsInv
<1> QED BY <1>3, RestStep DEF Record

\* For any number of workers, keys, hashes and payments, and wherever workers
\* die: what was answered stays true.
THEOREM AnswersStand == BackendSpec => []AnsweredForGood
<1>1. BackendInit => PaymentsInv(payments)
  BY DEF BackendInit, PaymentsDeployed, PaymentsInv, PaymentsTyped, RecordsStored,
         ServingStored, AnswersRecorded, Serving, AtRest, NoRecord
<1>2. PaymentsInv(payments) /\ [BackendNext]_vars => PaymentsInv(payments)'
  <2> SUFFICES ASSUME PaymentsInv(payments), [PaymentsNext]_payments
               PROVE  PaymentsInv(payments')
    BY PartSteps
  <2> QED BY LookUpStep, InsertStep, RecordStep, RestStep DEF PaymentsNext, WorkerDies
<1>3. PaymentsInv(payments) => AnsweredForGood
  BY DEF PaymentsInv, AnswersRecorded, AnsweredForGood, Stored
<1> QED BY <1>1, <1>2, <1>3, PTL DEF BackendSpec
-----------------------------------------------------------------------------
(* Lists.                                                                  *)

\* The shapes that the steps rely on.
ListsTyped ==
  /\ cache = [f \in Filters |-> cache[f]]
  /\ \A f \in Filters : cache[f] # NoEntry =>
       cache[f] = [list |-> cache[f].list, old |-> cache[f].old]
  /\ working = [w \in Workers |-> working[w]]
  /\ slips \in [now : BOOLEAN, before : BOOLEAN]

\* Worker w is about to delete the list of filter f.
Deletes(w, f) ==
  \/ working[w].step = "committed"
  \/ working[w].step = "found" /\ f \in working[w].keys

\* A step changes what one worker is at.
LEMMA GoesStep ==
  ASSUME ListsTyped, NEW w \in Workers, NEW to, Goes(w, to)
  PROVE  /\ working' = [v \in Workers |-> working'[v]]
         /\ working'[w] = to
         /\ \A v \in Workers : v # w => working'[v] = working[v]
BY DEF ListsTyped, Goes

\* What a slip is remembered as.
LEMMA SlipStep ==
  ASSUME ListsTyped, NEW slip \in BOOLEAN, SlipIf(slip)
  PROVE  /\ slips' \in [now : BOOLEAN, before : BOOLEAN]
         /\ slips'.now = (slips.now \/ slip) /\ slips'.before = slips.before
BY DEF ListsTyped, SlipIf

\* A step of w keeps every list explained that nobody writes to, if the rows
\* stay and w was not about to delete any, or if it is now.
LEMMA OtherStep ==
  ASSUME ListsTyped, ListsAreRecent, NEW w \in Workers, NEW to, Goes(w, to),
         UNCHANGED <<cache, slips>>,
         \/ to.step = "committed"
         \/ rows' = rows /\ working[w].step \notin {"committed", "found"}
  PROVE  ListsTyped' /\ ListsAreRecent'
<1>1. ListsTyped' BY GoesStep DEF ListsTyped
<1>2. CASE to.step = "committed"
  <2>1. working'[w].step = "committed" BY <1>2, GoesStep
  <2> QED BY <1>1, <2>1 DEF ListsAreRecent
<1>3. CASE rows' = rows /\ working[w].step \notin {"committed", "found"}
  <2>1. ASSUME NEW v \in Workers, NEW f \in Filters, Deletes(v, f) PROVE Deletes(v, f)'
    <3>1. v # w BY <1>3, <2>1 DEF Deletes
    <3>2. working'[v] = working[v] BY <3>1, GoesStep
    <3> QED BY <2>1, <3>2 DEF Deletes
  <2> QED BY <1>1, <1>3, <2>1 DEF ListsAreRecent, Deletes
<1> QED BY <1>1, <1>2, <1>3

\* A list that was overtaken between query and cache counts as a slip.
LEMMA CacheSetStep ==
  ASSUME ListsTyped, ListsAreRecent, NEW w \in Workers, CacheSet(w)
  PROVE  ListsTyped' /\ ListsAreRecent'
<1> DEFINE g == working[w].filter
           wrong == working[w].list # PoliciesBy(rows, g)
           entry == [list |-> working[w].list, old |-> FALSE]
<1>1. /\ Goes(w, AtEase) /\ SlipIf(wrong) /\ rows' = rows /\ working[w].step = "read"
      /\ cache' \in {cache, [cache EXCEPT ![g] = entry]}
  BY DEF CacheSet, CacheKey
<1>2. /\ slips' \in [now : BOOLEAN, before : BOOLEAN]
      /\ slips'.now = (slips.now \/ wrong) /\ slips'.before = slips.before
  BY <1>1, SlipStep
<1>3. ASSUME NEW f \in Filters
      PROVE  cache'[f] = cache[f] \/ (f = g /\ cache'[f] = entry)
  <2>1. CASE cache' = cache BY <2>1
  <2>2. CASE cache' = [cache EXCEPT ![g] = entry]
    <3> HIDE DEF entry, g
    <3> QED BY <2>2 DEF ListsTyped
  <2> QED BY <1>1, <2>1, <2>2
<1>4. ListsTyped'
  <2>1. cache' = [f \in Filters |-> cache'[f]]
    <3> HIDE DEF entry, g
    <3> QED BY <1>1 DEF ListsTyped
  <2>2. ASSUME NEW f \in Filters, cache'[f] # NoEntry
        PROVE  cache'[f] = [list |-> cache'[f].list, old |-> cache'[f].old]
    BY <1>3, <2>2 DEF ListsTyped
  <2> QED BY <1>1, <1>2, <2>1, <2>2, GoesStep DEF ListsTyped
<1>5. ASSUME NEW v \in Workers, NEW f \in Filters, Deletes(v, f) PROVE Deletes(v, f)'
  <2>1. v # w BY <1>1, <1>5 DEF Deletes
  <2>2. working'[v] = working[v] BY <1>1, <2>1, GoesStep
  <2> QED BY <1>5, <2>2 DEF Deletes
<1>6. ListsAreRecent'
  <2> SUFFICES ASSUME NEW f \in Filters, cache'[f] # NoEntry,
                      cache'[f].list # PoliciesBy(rows, f)
               PROVE  \/ \E v \in Workers : Deletes(v, f)'
                      \/ slips'.now
                      \/ cache'[f].old /\ slips'.before
    BY <1>1 DEF ListsAreRecent, Deletes
  <2>1. CASE cache'[f] = cache[f]
    <3>1. \/ \E v \in Workers : Deletes(v, f)
          \/ slips.now
          \/ cache[f].old /\ slips.before
      BY <2>1 DEF ListsAreRecent, Deletes
    <3> QED BY <1>2, <1>5, <2>1, <3>1
  <2>2. CASE f = g /\ cache'[f] = entry
    <3>1. wrong BY <2>2
    <3> QED BY <1>2, <3>1
  <2> QED BY <1>3, <2>1, <2>2
<1> QED BY <1>4, <1>6

\* The keys found hold every list that is there.
LEMMA FindKeysStep ==
  ASSUME ListsTyped, ListsAreRecent, NEW w \in Workers, FindKeys(w)
  PROVE  ListsTyped' /\ ListsAreRecent'
<1> DEFINE keys == {f \in Filters : cache[f] # NoEntry}
           found == [step |-> "found", keys |-> keys]
<1>1. /\ rows' = rows /\ cache' = cache
      /\ \/ Goes(w, found) /\ slips' = slips
         \/ Goes(w, AtEase) /\ SlipIf(TRUE)
  BY ZenonT(30) DEF FindKeys
<1>2. CASE Goes(w, found) /\ slips' = slips
  <2>1. ListsTyped' BY <1>1, <1>2, GoesStep DEF ListsTyped
  <2> SUFFICES ASSUME NEW f \in Filters, cache[f] # NoEntry,
                      NEW v \in Workers, Deletes(v, f)
               PROVE  Deletes(v, f)'
    BY <1>1, <1>2, <2>1 DEF ListsAreRecent, Deletes
  <2>2. working'[w] = found /\ f \in keys BY <1>2, GoesStep
  <2>3. found.step = "found" /\ found.keys = keys OBVIOUS
  <2>4. CASE v = w BY <2>2, <2>3, <2>4 DEF Deletes
  <2>5. CASE v # w BY <1>2, <2>5, GoesStep DEF Deletes
  <2> QED BY <2>4, <2>5
<1>3. CASE Goes(w, AtEase) /\ SlipIf(TRUE)
  BY <1>1, <1>3, GoesStep, SlipStep DEF ListsTyped, ListsAreRecent
<1> QED BY <1>1, <1>2, <1>3

\* The keys that were found are deleted.
LEMMA DeleteKeysStep ==
  ASSUME ListsTyped, ListsAreRecent, NEW w \in Workers, DeleteKeys(w)
  PROVE  ListsTyped' /\ ListsAreRecent'
<1> DEFINE keys == working[w].keys
<1>1. /\ rows' = rows /\ working[w].step = "found" /\ Goes(w, AtEase)
      /\ \/ /\ cache' = [f \in Filters |-> IF f \in keys THEN NoEntry ELSE cache[f]]
            /\ slips' = slips
         \/ cache' = cache /\ SlipIf(TRUE)
  BY DEF DeleteKeys
<1>2. CASE /\ cache' = [f \in Filters |-> IF f \in keys THEN NoEntry ELSE cache[f]]
           /\ slips' = slips
  <2>1. ListsTyped' BY <1>1, <1>2, GoesStep DEF ListsTyped
  <2> SUFFICES ASSUME NEW f \in Filters, cache'[f] # NoEntry,
                      NEW v \in Workers, Deletes(v, f)
               PROVE  Deletes(v, f)'
    BY <1>1, <1>2, <2>1 DEF ListsAreRecent, Deletes
  <2>2. f \notin keys BY <1>2
  <2>3. v # w BY <1>1, <2>2 DEF Deletes
  <2> QED BY <1>1, <2>3, GoesStep DEF Deletes
<1>3. CASE cache' = cache /\ SlipIf(TRUE)
  BY <1>1, <1>3, GoesStep, SlipStep DEF ListsTyped, ListsAreRecent
<1> QED BY <1>1, <1>2, <1>3

\* A commit tells of itself, or changes nothing, or counts as a slip.
LEMMA CommitStep ==
  ASSUME ListsTyped, ListsAreRecent, NEW w \in Workers, CommitClaim(w) \/ CommitDecision(w)
  PROVE  ListsTyped' /\ ListsAreRecent'
<1>1. /\ working[w].step = "checked" /\ cache' = cache
      /\ \E slip \in BOOLEAN :
           /\ SlipIf(slip)
           /\ \/ Goes(w, Committed)
              \/ Goes(w, AtEase) /\ (rows' # rows => slip)
  <2>1. CASE CommitClaim(w) BY <2>1 DEF CommitClaim, SetStatus
  <2>2. CASE CommitDecision(w) BY <2>2 DEF CommitDecision, SetStatus
  <2> QED BY <2>1, <2>2
<1>2. PICK slip \in BOOLEAN :
        /\ SlipIf(slip)
        /\ \/ Goes(w, Committed)
           \/ Goes(w, AtEase) /\ (rows' # rows => slip)
  BY <1>1
<1>3. /\ slips' \in [now : BOOLEAN, before : BOOLEAN]
      /\ slips'.now = (slips.now \/ slip) /\ slips'.before = slips.before
  BY <1>2, SlipStep
<1>4. ListsTyped' BY <1>1, <1>2, <1>3, GoesStep DEF ListsTyped
<1>5. CASE Goes(w, Committed) BY <1>4, <1>5, GoesStep DEF ListsAreRecent, Committed
<1>6. CASE Goes(w, AtEase) /\ slip BY <1>3, <1>4, <1>6 DEF ListsAreRecent
<1>7. CASE Goes(w, AtEase) /\ rows' = rows
  <2>1. ASSUME NEW v \in Workers, NEW f \in Filters, Deletes(v, f) PROVE Deletes(v, f)'
    BY <1>1, <1>7, <2>1, GoesStep DEF Deletes
  <2> QED BY <1>1, <1>3, <1>4, <1>7, <2>1 DEF ListsAreRecent, Deletes
<1> QED BY <1>2, <1>4, <1>5, <1>6, <1>7

\* Entries run out; what was a slip of this tick is one of the last.
LEMMA TimeStep ==
  ASSUME ListsTyped, ListsAreRecent, Tick \/ \E f \in Filters : Expire(f)
  PROVE  ListsTyped' /\ ListsAreRecent'
<1>1. ASSUME NEW g \in Filters, Expire(g) PROVE ListsTyped' /\ ListsAreRecent'
  BY <1>1 DEF Expire, ListsTyped, ListsAreRecent
<1>2. CASE Tick
  <2>1. /\ rows' = rows /\ working' = working
        /\ slips' = [now |-> FALSE, before |-> slips.now]
        /\ cache' = [f \in Filters |-> Aged(cache[f])]
        /\ \A f \in Filters : cache[f] # NoEntry => ~cache[f].old
    BY <1>2 DEF Tick
  <2>2. ASSUME NEW f \in Filters, cache'[f] # NoEntry
        PROVE  /\ cache[f] # NoEntry
               /\ cache'[f] = [list |-> cache[f].list, old |-> TRUE]
    <3>1. cache[f] # NoEntry BY <2>1, <2>2 DEF Aged
    <3>2. cache[f] = [list |-> cache[f].list, old |-> cache[f].old] BY <3>1 DEF ListsTyped
    <3>3. cache'[f] = [cache[f] EXCEPT !.old = TRUE] BY <2>1, <3>1 DEF Aged
    <3> QED BY <3>1, <3>2, <3>3
  <2>3. slips'.before = slips.now /\ slips' \in [now : BOOLEAN, before : BOOLEAN]
    BY <2>1 DEF ListsTyped
  <2>4. ListsTyped' BY <2>1, <2>2, <2>3 DEF ListsTyped
  <2> SUFFICES ASSUME NEW f \in Filters, cache'[f] # NoEntry,
                      cache'[f].list # PoliciesBy(rows, f)
               PROVE  \/ \E v \in Workers : Deletes(v, f)
                      \/ cache'[f].old /\ slips'.before
    BY <2>1, <2>4 DEF ListsAreRecent, Deletes
  <2>5. /\ cache[f] # NoEntry /\ ~cache[f].old
        /\ cache'[f].list = cache[f].list /\ cache'[f].old = TRUE
    <3>1. cache[f] # NoEntry /\ cache'[f] = [list |-> cache[f].list, old |-> TRUE]
      BY <2>2
    <3> QED BY <2>1, <3>1
  <2>6. (\E v \in Workers : Deletes(v, f)) \/ slips.now
    BY <2>5 DEF ListsAreRecent, Deletes
  <2> QED BY <2>3, <2>5, <2>6
<1> QED BY <1>1, <1>2

\* For any number of workers, policies and filters, and wherever a worker stops
\* or Redis does not answer: no list is wrong for another reason, or for longer.
THEOREM ListsExplained == BackendSpec => []ListsAreRecent
<1> DEFINE Inv == ListsTyped /\ ListsAreRecent
<1>1. BackendInit => Inv
  BY DEF BackendInit, PoliciesDeployed, ListsTyped, ListsAreRecent
<1>2. Inv /\ [BackendNext]_vars => Inv'
  <2> SUFFICES ASSUME Inv, [PoliciesNext]_policyVars PROVE Inv'
    BY PartSteps
  <2>1. ASSUME NEW w \in Workers, NEW f \in Filters, ReadPolicies(w, f) PROVE Inv'
    BY <2>1, OtherStep DEF ReadPolicies, AtEase
  <2>2. ASSUME NEW w \in Workers, CacheSet(w) PROVE Inv'
    BY <2>2, CacheSetStep
  <2>3. ASSUME NEW w \in Workers, NEW p \in PolicyIds, CreatePolicy(w, p) PROVE Inv'
    BY <2>3, OtherStep DEF CreatePolicy, Committed
  <2>4. ASSUME NEW w \in Workers, NEW p \in PolicyIds, CheckCancel(w, p) PROVE Inv'
    <3>1. working[w].step = "idle" /\ UNCHANGED <<rows, cache, slips>>
      BY <2>4 DEF CheckCancel, AtEase
    <3>2. PICK to : Goes(w, to) BY <2>4, Zenon DEF CheckCancel
    <3> QED BY <3>1, <3>2, OtherStep
  <2>5. ASSUME NEW w \in Workers, NEW p \in PolicyIds, CheckClaim(w, p) PROVE Inv'
    <3>1. working[w].step = "idle" /\ UNCHANGED <<rows, cache, slips>>
      BY <2>5 DEF CheckClaim, AtEase
    <3>2. PICK to : Goes(w, to) BY <2>5, Zenon DEF CheckClaim
    <3> QED BY <3>1, <3>2, OtherStep
  <2>6. ASSUME NEW w \in Workers, NEW c \in ClaimIds, CheckDecision(w, c) PROVE Inv'
    BY <2>6, OtherStep DEF CheckDecision, AtEase
  <2>7. ASSUME NEW w \in Workers, CommitCancel(w) PROVE Inv'
    BY <2>7, OtherStep DEF CommitCancel, Committed
  <2>8. ASSUME NEW w \in Workers, CommitClaim(w) \/ CommitDecision(w) PROVE Inv'
    BY <2>8, CommitStep
  <2>9. ASSUME NEW w \in Workers, FindKeys(w) \/ DeleteKeys(w) PROVE Inv'
    BY <2>9, FindKeysStep, DeleteKeysStep
  <2>10. ASSUME NEW w \in Workers, WorkerStops(w) PROVE Inv'
    <3> DEFINE slip == working[w].step \in {"committed", "found"}
    <3>1. Goes(w, AtEase) /\ SlipIf(slip) /\ rows' = rows /\ cache' = cache
      BY <2>10 DEF WorkerStops
    <3>2. CASE slip BY <3>1, <3>2, GoesStep, SlipStep DEF ListsTyped, ListsAreRecent
    <3>3. CASE ~slip
      <4>1. slips' = slips BY <3>1, <3>3 DEF SlipIf, ListsTyped
      <4> QED BY <3>1, <3>3, <4>1, OtherStep
    <3> QED BY <3>2, <3>3
  <2>11. ASSUME NEW c \in ClaimIds, DeleteClaim(c) PROVE Inv'
    BY <2>11 DEF DeleteClaim, ListsTyped, ListsAreRecent
  <2>12. CASE DeleteAccount
    <3>1. SlipIf(rows' # rows) /\ cache' = cache /\ working' = working
      BY <2>12 DEF DeleteAccount
    <3> QED BY <3>1, SlipStep DEF ListsTyped, ListsAreRecent
  <2>13. CASE Tick \/ \E f \in Filters : Expire(f) BY <2>13, TimeStep
  <2>14. CASE UNCHANGED policyVars BY <2>14 DEF policyVars, ListsTyped, ListsAreRecent
  <2> QED BY <2>1, <2>2, <2>3, <2>4, <2>5, <2>6, <2>7, <2>8, <2>9, <2>10, <2>11, <2>12,
             <2>13, <2>14 DEF PoliciesNext
<1> QED BY <1>1, <1>2, PTL DEF BackendSpec
-----------------------------------------------------------------------------
(* Webhooks.                                                               *)

\* The steps of a task that is at one webhook.
AtHook == {"posting", "answered", "sleeping", "exhausted"}

TaskType ==
  {t \in [step : {"none", "added", "choosing", "done", "lost"} \cup AtHook,
          matching : SUBSET Hooks, left : SUBSET Hooks, hook : Hooks \cup {NoHook},
          answer : Answers \cup {"none"}] :
     /\ t.step \in AtHook => t.hook \in Hooks
     /\ t.step = "done" => t.left = {}}

RowType == [status : {"none", "pending"} \cup Final, attempts : Nat]

HooksTyped ==
  hooks \in [registered : [Hooks -> {"unused", "active", "inactive", "deleted"}],
             rows : [Events \X Hooks -> RowType],
             task : [Events -> TaskType],
             acknowledged : SUBSET (Events \X Hooks)]

\* A task t, its row for h, whether h acknowledged it, and the state of h.
RowSound(t, h, row, ack, state) ==
  /\ row.attempts <= webhook_max_retries
  /\ state = "deleted" => row = NoRow
  /\ row.status = "delivered" => ack
  /\ row.status = "dead_letter" => ~ack
  /\ row.status = "pending" => t.hook = h /\ t.step \in AtHook \cup {"lost"}
  /\ t.step \in {"none", "added"} \/ h \in t.left => row = NoRow /\ ~ack
  /\ t.step \in AtHook /\ h = t.hook =>
       /\ h \notin t.left
       /\ row.status = "pending" \/ state = "deleted"
       /\ t.step # "exhausted" => row.attempts < webhook_max_retries
       /\ ack <=> t.step = "answered" /\ t.answer = "accepted"
  /\ h \in t.matching /\ t.step # "lost" =>
       \/ h \in t.left
       \/ row.status \in Final
       \/ state = "deleted"
       \/ h = t.hook /\ t.step \in AtHook

RowsSound ==
  \A e \in Events, h \in Hooks :
    RowSound(hooks.task[e], h, hooks.rows[<<e, h>>], <<e, h>> \in hooks.acknowledged,
             hooks.registered[h])

HooksInv == HooksTyped /\ RowsSound

\* A task is the record of its fields.
LEMMA TaskFields ==
  ASSUME NEW t \in TaskType
  PROVE  t = [step |-> t.step, matching |-> t.matching, left |-> t.left,
              hook |-> t.hook, answer |-> t.answer]
BY DEF TaskType

\* Several fields are updated one after the other.
LEMMA FieldsUpdated ==
  ASSUME NEW t, NEW x, NEW y
  PROVE  /\ [t EXCEPT !.step = x, !.answer = y] = [[t EXCEPT !.step = x] EXCEPT !.answer = y]
         /\ [t EXCEPT !.matching = x, !.left = y] =
              [[t EXCEPT !.matching = x] EXCEPT !.left = y]
OBVIOUS

\* The task after an answer.
LEMMA AnsweredTask ==
  ASSUME NEW t \in TaskType, NEW x, NEW y
  PROVE  [t EXCEPT !.step = x, !.answer = y] =
           [step |-> x, matching |-> t.matching, left |-> t.left, hook |-> t.hook,
            answer |-> y]
<1> DEFINE u == [step |-> x, matching |-> t.matching, left |-> t.left, hook |-> t.hook,
                 answer |-> t.answer]
<1>1. u = [t EXCEPT !.step = x] BY TaskFields
<1>2. [u EXCEPT !.answer = y] =
        [step |-> x, matching |-> t.matching, left |-> t.left, hook |-> t.hook, answer |-> y]
  OBVIOUS
<1> HIDE DEF u
<1> QED BY <1>1, <1>2, FieldsUpdated

\* The task after the query for the webhooks to tell.
LEMMA DispatchedTask ==
  ASSUME NEW x
  PROVE  [Task("choosing") EXCEPT !.matching = x, !.left = x] =
           [step |-> "choosing", matching |-> x, left |-> x, hook |-> NoHook,
            answer |-> "none"]
<1> DEFINE t == Task("choosing")
           u == [step |-> "choosing", matching |-> x, left |-> {}, hook |-> NoHook,
                 answer |-> "none"]
<1>1. u = [t EXCEPT !.matching = x] BY DEF Task
<1>2. [u EXCEPT !.left = x] =
        [step |-> "choosing", matching |-> x, left |-> x, hook |-> NoHook, answer |-> "none"]
  OBVIOUS
<1> HIDE DEF u
<1> QED BY <1>1, <1>2, FieldsUpdated

\* What a step of the task of e leaves as it is: the other tasks' rows.
TaskOnly(e) ==
  /\ hooks'.registered = hooks.registered
  /\ \A d \in Events : d # e => hooks'.task[d] = hooks.task[d]
  /\ \A d \in Events, h \in Hooks : d # e =>
       /\ hooks'.rows[<<d, h>>] = hooks.rows[<<d, h>>]
       /\ <<d, h>> \in hooks'.acknowledged <=> <<d, h>> \in hooks.acknowledged

\* The other tasks' rows stay sound.
LEMMA TaskOnlyStep ==
  ASSUME RowsSound, NEW e \in Events, TaskOnly(e),
         \A h \in Hooks :
           RowSound(hooks'.task[e], h, hooks'.rows[<<e, h>>],
                    <<e, h>> \in hooks'.acknowledged, hooks'.registered[h])
  PROVE  RowsSound'
<1> SUFFICES ASSUME NEW d \in Events, NEW h \in Hooks
             PROVE  RowSound(hooks'.task[d], h, hooks'.rows[<<d, h>>],
                             <<d, h>> \in hooks'.acknowledged, hooks'.registered[h])
  BY DEF RowsSound
<1>1. CASE d = e BY <1>1
<1>2. CASE d # e
  <2>1. /\ hooks'.registered = hooks.registered /\ hooks'.task[d] = hooks.task[d]
        /\ hooks'.rows[<<d, h>>] = hooks.rows[<<d, h>>]
        /\ <<d, h>> \in hooks'.acknowledged <=> <<d, h>> \in hooks.acknowledged
    BY <1>2 DEF TaskOnly
  <2>2. RowSound(hooks.task[d], h, hooks.rows[<<d, h>>], <<d, h>> \in hooks.acknowledged,
                 hooks.registered[h])
    BY DEF RowsSound
  <2> QED BY <2>1, <2>2 DEF RowSound
<1> QED BY <1>1, <1>2

\* A task goes on to another step and leaves the rows alone.
LEMMA StepTo ==
  ASSUME HooksInv, NEW e \in Events,
         NEW s \in {"posting", "done", "lost"},
         hooks' = [hooks EXCEPT !.task[e].step = s],
         s = "posting" => hooks.task[e].step = "sleeping",
         s = "done" => hooks.task[e].step = "choosing" /\ hooks.task[e].left = {}
  PROVE  HooksInv'
<1> DEFINE t == hooks.task[e]
           u == [t EXCEPT !.step = s]
<1>1. t \in TaskType BY DEF HooksInv, HooksTyped
<1>2. /\ u \in TaskType /\ u.step = s /\ u.matching = t.matching /\ u.left = t.left
      /\ u.hook = t.hook /\ u.answer = t.answer
  BY <1>1 DEF TaskType, AtHook
<1>3. hooks' = [hooks EXCEPT !.task = [hooks.task EXCEPT ![e] = u]] OBVIOUS
<1> HIDE DEF u
<1>4. /\ hooks'.registered = hooks.registered /\ hooks'.rows = hooks.rows
      /\ hooks'.acknowledged = hooks.acknowledged
      /\ hooks'.task = [hooks.task EXCEPT ![e] = u]
  BY <1>3 DEF HooksInv, HooksTyped
<1>5. HooksTyped'
  <2>1. [hooks.task EXCEPT ![e] = u] \in [Events -> TaskType]
    BY <1>2 DEF HooksInv, HooksTyped
  <2> QED BY <1>3, <2>1 DEF HooksInv, HooksTyped
<1>6. hooks'.task[e] = u /\ TaskOnly(e) BY <1>4 DEF HooksInv, HooksTyped, TaskOnly
<1>7. ASSUME NEW h \in Hooks
      PROVE  RowSound(u, h, hooks.rows[<<e, h>>], <<e, h>> \in hooks.acknowledged,
                      hooks.registered[h])
  <2>1. RowSound(t, h, hooks.rows[<<e, h>>], <<e, h>> \in hooks.acknowledged,
                 hooks.registered[h])
    BY DEF HooksInv, RowsSound
  <2>2. /\ s = "posting" => t.step = "sleeping"
        /\ s = "done" => t.step = "choosing" /\ t.left = {}
    OBVIOUS
  <2> HIDE DEF t
  <2>3. CASE s = "posting" BY <1>2, <2>1, <2>2, <2>3 DEF RowSound, AtHook
  <2>4. CASE s = "done" BY <1>2, <2>1, <2>2, <2>4 DEF RowSound, AtHook
  <2>5. CASE s = "lost" BY <1>2, <2>1, <2>5 DEF RowSound, AtHook
  <2> QED BY <2>3, <2>4, <2>5
<1> QED BY <1>4, <1>5, <1>6, <1>7, TaskOnlyStep DEF HooksInv
\* A task goes on, with the row of one webhook or its acknowledgement.
LEMMA AtHookStep ==
  ASSUME HooksInv, NEW e \in Events, NEW g \in Hooks, NEW u \in TaskType,
         NEW row \in RowType,
         NEW acks \in {hooks.acknowledged, hooks.acknowledged \cup {<<e, g>>}},
         hooks' = [hooks EXCEPT !.task = [hooks.task EXCEPT ![e] = u],
                                !.rows = [hooks.rows EXCEPT ![<<e, g>>] = row],
                                !.acknowledged = acks],
         RowSound(u, g, row, <<e, g>> \in acks, hooks.registered[g]),
         \A h \in Hooks : h # g =>
           RowSound(u, h, hooks.rows[<<e, h>>], <<e, h>> \in hooks.acknowledged,
                    hooks.registered[h])
  PROVE  HooksInv'
<1>1. /\ hooks'.registered = hooks.registered /\ hooks'.acknowledged = acks
      /\ hooks'.task = [hooks.task EXCEPT ![e] = u]
      /\ hooks'.rows = [hooks.rows EXCEPT ![<<e, g>>] = row]
  BY DEF HooksInv, HooksTyped
<1>2. HooksTyped'
  <2>1. [hooks.task EXCEPT ![e] = u] \in [Events -> TaskType]
    BY DEF HooksInv, HooksTyped
  <2>2. [hooks.rows EXCEPT ![<<e, g>>] = row] \in [Events \X Hooks -> RowType]
    BY DEF HooksInv, HooksTyped
  <2>3. acks \in SUBSET (Events \X Hooks) BY DEF HooksInv, HooksTyped
  <2> QED BY <2>1, <2>2, <2>3 DEF HooksInv, HooksTyped
<1>3. ASSUME NEW d \in Events, NEW h \in Hooks, <<d, h>> # <<e, g>>
      PROVE  /\ hooks'.rows[<<d, h>>] = hooks.rows[<<d, h>>]
             /\ <<d, h>> \in hooks'.acknowledged <=> <<d, h>> \in hooks.acknowledged
  BY <1>1, <1>3 DEF HooksInv, HooksTyped
<1>4. hooks'.rows[<<e, g>>] = row BY <1>1 DEF HooksInv, HooksTyped
<1>5. hooks'.task[e] = u /\ TaskOnly(e)
  BY <1>1, <1>3 DEF HooksInv, HooksTyped, TaskOnly
<1>6. ASSUME NEW h \in Hooks
      PROVE  RowSound(hooks'.task[e], h, hooks'.rows[<<e, h>>],
                      <<e, h>> \in hooks'.acknowledged, hooks'.registered[h])
  <2>1. CASE h = g BY <1>1, <1>4, <1>5, <2>1
  <2>2. CASE h # g
    <3>1. /\ hooks'.rows[<<e, h>>] = hooks.rows[<<e, h>>]
          /\ <<e, h>> \in hooks'.acknowledged <=> <<e, h>> \in hooks.acknowledged
      BY <1>3, <2>2
    <3> QED BY <1>1, <1>5, <2>2, <3>1 DEF RowSound
  <2> QED BY <2>1, <2>2
<1> QED BY <1>2, <1>5, <1>6, TaskOnlyStep DEF HooksInv

\* A webhook comes, changes or goes, and its rows go with it.
LEMMA RouteStep ==
  ASSUME HooksInv, NEW g \in Hooks,
         CreateWebhook(g) \/ UpdateWebhook(g) \/ DeleteWebhook(g)
  PROVE  HooksInv'
<1>1. ASSUME NEW state \in {"active", "inactive"}, hooks.registered[g] # "deleted",
             hooks' = [hooks EXCEPT !.registered[g] = state]
      PROVE  HooksInv'
  <2>1. /\ hooks'.registered = [hooks.registered EXCEPT ![g] = state]
        /\ hooks'.rows = hooks.rows /\ hooks'.task = hooks.task
        /\ hooks'.acknowledged = hooks.acknowledged
    BY <1>1 DEF HooksInv, HooksTyped
  <2>2. HooksTyped' BY <1>1 DEF HooksInv, HooksTyped
  <2>3. \A h \in Hooks : hooks'.registered[h] = "deleted" <=> hooks.registered[h] = "deleted"
    BY <1>1, <2>1 DEF HooksInv, HooksTyped
  <2>4. ASSUME NEW e \in Events, NEW h \in Hooks
        PROVE  RowSound(hooks'.task[e], h, hooks'.rows[<<e, h>>],
                        <<e, h>> \in hooks'.acknowledged, hooks'.registered[h])
    <3>1. RowSound(hooks.task[e], h, hooks.rows[<<e, h>>], <<e, h>> \in hooks.acknowledged,
                   hooks.registered[h])
      BY DEF HooksInv, RowsSound
    <3> QED BY <2>1, <2>3, <3>1 DEF RowSound
  <2> QED BY <2>2, <2>4 DEF HooksInv, RowsSound
<1>2. CASE DeleteWebhook(g)
  <2> DEFINE left == [x \in Events \X Hooks |-> IF x[2] = g THEN NoRow ELSE hooks.rows[x]]
  <2>1. /\ hooks'.registered = [hooks.registered EXCEPT ![g] = "deleted"]
        /\ hooks'.rows = left /\ hooks'.task = hooks.task
        /\ hooks'.acknowledged = hooks.acknowledged
    BY <1>2 DEF DeleteWebhook, HooksInv, HooksTyped
  <2>2. left \in [Events \X Hooks -> RowType]
    BY DEF HooksInv, HooksTyped, RowType, NoRow
  <2>3. HooksTyped' BY <1>2, <2>2 DEF DeleteWebhook, HooksInv, HooksTyped
  <2>4. ASSUME NEW e \in Events, NEW h \in Hooks
        PROVE  RowSound(hooks'.task[e], h, hooks'.rows[<<e, h>>],
                        <<e, h>> \in hooks'.acknowledged, hooks'.registered[h])
    <3>1. RowSound(hooks.task[e], h, hooks.rows[<<e, h>>], <<e, h>> \in hooks.acknowledged,
                   hooks.registered[h])
      BY DEF HooksInv, RowsSound
    <3>2. CASE h = g
      <4>1. hooks'.rows[<<e, h>>] = NoRow /\ hooks'.registered[h] = "deleted"
        BY <2>1, <3>2 DEF HooksInv, HooksTyped
      <4> QED BY <2>1, <3>1, <4>1, WebhookAssumption DEF RowSound, NoRow, Final
    <3>3. CASE h # g
      <4>1. hooks'.rows[<<e, h>>] = hooks.rows[<<e, h>>]
        BY <2>1, <3>3
      <4>2. hooks'.registered[h] = hooks.registered[h]
        BY <2>1, <3>3 DEF HooksInv, HooksTyped
      <4> QED BY <2>1, <3>1, <4>1, <4>2
    <3> QED BY <3>2, <3>3
  <2> QED BY <2>3, <2>4 DEF HooksInv, RowsSound
<1> QED BY <1>1, <1>2 DEF CreateWebhook, UpdateWebhook
\* A task begins, or finds whom to tell.
LEMMA BeginStep ==
  ASSUME HooksInv, NEW e \in Events, AddTask(e) \/ Dispatch(e)
  PROVE  HooksInv'
<1> DEFINE t == hooks.task[e]
<1>1. ASSUME NEW v \in TaskType, hooks' = [hooks EXCEPT !.task[e] = v],
             t.step \in {"none", "added"}, v.step \in {"added", "choosing"},
             v.left = v.matching
      PROVE  HooksInv'
  <2>1. /\ hooks'.registered = hooks.registered /\ hooks'.rows = hooks.rows
        /\ hooks'.acknowledged = hooks.acknowledged
        /\ hooks'.task = [hooks.task EXCEPT ![e] = v]
    BY <1>1 DEF HooksInv, HooksTyped
  <2>2. HooksTyped' BY <1>1 DEF HooksInv, HooksTyped
  <2>3. hooks'.task[e] = v /\ TaskOnly(e) BY <2>1 DEF HooksInv, HooksTyped, TaskOnly
  <2>4. ASSUME NEW h \in Hooks
        PROVE  RowSound(v, h, hooks.rows[<<e, h>>], <<e, h>> \in hooks.acknowledged,
                        hooks.registered[h])
    <3>1. RowSound(t, h, hooks.rows[<<e, h>>], <<e, h>> \in hooks.acknowledged,
                   hooks.registered[h])
      BY DEF HooksInv, RowsSound
    <3>2. hooks.rows[<<e, h>>] = NoRow /\ <<e, h>> \notin hooks.acknowledged
      BY <1>1, <3>1 DEF RowSound
    <3> QED BY <1>1, <3>2, WebhookAssumption DEF RowSound, NoRow, AtHook
  <2> QED BY <2>1, <2>2, <2>3, <2>4, TaskOnlyStep DEF HooksInv
<1>2. CASE AddTask(e)
  <2>1. Task("added") \in TaskType /\ Task("added").step = "added"
        /\ Task("added").left = Task("added").matching
    BY DEF Task, TaskType, AtHook
  <2> QED BY <1>1, <1>2, <2>1 DEF AddTask
<1>3. CASE Dispatch(e)
  <2> DEFINE v == [Task("choosing") EXCEPT !.matching = Matching, !.left = Matching]
  <2>1. v = [step |-> "choosing", matching |-> Matching, left |-> Matching,
             hook |-> NoHook, answer |-> "none"]
    BY DispatchedTask
  <2>2. v \in TaskType /\ v.step = "choosing" /\ v.left = v.matching
    BY <2>1 DEF TaskType, AtHook, Matching
  <2> HIDE DEF v
  <2>3. hooks' = [hooks EXCEPT !.task[e] = v] /\ t.step = "added"
    BY <1>3 DEF Dispatch, v
  <2> QED BY <1>1, <2>2, <2>3
<1> QED BY <1>2, <1>3

\* The next webhook's row is new, the other rows are as they were.
LEMMA StartStep ==
  ASSUME HooksInv, NEW e \in Events, NEW g \in Hooks, Start(e, g)
  PROVE  HooksInv'
<1> DEFINE t == hooks.task[e]
           u == [step |-> "posting", matching |-> t.matching, left |-> t.left \ {g},
                 hook |-> g, answer |-> t.answer]
           row == [status |-> "pending", attempts |-> 0]
<1>1. t \in TaskType /\ t.step = "choosing" /\ g \in t.left BY DEF HooksInv, HooksTyped, Start
<1>2. CASE hooks.registered[g] = "deleted"
  <2>1. hooks' = [hooks EXCEPT !.task[e].step = "lost"] BY <1>2 DEF Start
  <2> QED BY <2>1, StepTo
<1>3. CASE hooks.registered[g] # "deleted"
  <2>1. u = [t EXCEPT !.step = "posting", !.hook = g, !.left = t.left \ {g}]
    <3> DEFINE rest == t.left \ {g}
               s == [step |-> "posting", matching |-> t.matching, left |-> t.left,
                     hook |-> t.hook, answer |-> t.answer]
               v == [step |-> "posting", matching |-> t.matching, left |-> t.left,
                     hook |-> g, answer |-> t.answer]
    <3>1. s = [t EXCEPT !.step = "posting"] BY <1>1, TaskFields
    <3>2. v = [s EXCEPT !.hook = g] OBVIOUS
    <3>3. u = [v EXCEPT !.left = rest]
      <4> HIDE DEF rest
      <4>1. [v EXCEPT !.left = rest] =
              [step |-> "posting", matching |-> t.matching, left |-> rest, hook |-> g,
               answer |-> t.answer]
        OBVIOUS
      <4> QED BY <4>1 DEF rest
    <3> HIDE DEF t, u, s, v, rest
    <3>4. [t EXCEPT !.step = "posting", !.hook = g, !.left = rest] =
            [[[t EXCEPT !.step = "posting"] EXCEPT !.hook = g] EXCEPT !.left = rest]
      OBVIOUS
    <3>5. u = [t EXCEPT !.step = "posting", !.hook = g, !.left = rest]
      BY <3>1, <3>2, <3>3, <3>4
    <3> QED BY <3>5 DEF rest
  <2>2. hooks' = [hooks EXCEPT !.task = [hooks.task EXCEPT ![e] = u],
                               !.rows = [hooks.rows EXCEPT ![<<e, g>>] = row],
                               !.acknowledged = hooks.acknowledged]
    BY <1>3, <2>1 DEF Start, HooksInv, HooksTyped
  <2>3. u \in TaskType /\ row \in RowType BY <1>1 DEF TaskType, RowType, AtHook
  <2>4. ASSUME NEW h \in Hooks
        PROVE  RowSound(t, h, hooks.rows[<<e, h>>], <<e, h>> \in hooks.acknowledged,
                        hooks.registered[h])
    BY DEF HooksInv, RowsSound
  <2>5. /\ u.step = "posting" /\ u.matching = t.matching /\ u.left = t.left \ {g}
        /\ u.hook = g /\ row.status = "pending" /\ row.attempts = 0
    OBVIOUS
  <2> HIDE DEF t, u, row
  <2>6. RowSound(u, g, row, <<e, g>> \in hooks.acknowledged, hooks.registered[g])
    <3>1. <<e, g>> \notin hooks.acknowledged BY <1>1, <2>4 DEF RowSound
    <3> QED BY <1>3, <2>5, <3>1, WebhookAssumption DEF RowSound, AtHook, Final
  <2>7. ASSUME NEW h \in Hooks, h # g
        PROVE  RowSound(u, h, hooks.rows[<<e, h>>], <<e, h>> \in hooks.acknowledged,
                        hooks.registered[h])
    BY <1>1, <2>4, <2>5, <2>7 DEF RowSound, AtHook
  <2> QED BY <2>2, <2>3, <2>6, <2>7, AtHookStep
<1> QED BY <1>2, <1>3

\* An answer, and the two commits that may follow it.
LEMMA AnswerStep ==
  ASSUME HooksInv, NEW e \in Events, Post(e) \/ RecordAttempt(e) \/ GiveUp(e)
  PROVE  HooksInv'
<1> DEFINE t == hooks.task[e]
           g == t.hook
           row == hooks.rows[<<e, g>>]
<1>1. t \in TaskType /\ t.step \in {"posting", "answered", "exhausted"}
  BY DEF HooksInv, HooksTyped, Post, RecordAttempt, GiveUp
<1>2. g \in Hooks BY <1>1 DEF TaskType, AtHook
<1>3. row \in RowType BY <1>2 DEF HooksInv, HooksTyped
<1>4. ASSUME NEW h \in Hooks
      PROVE  RowSound(t, h, hooks.rows[<<e, h>>], <<e, h>> \in hooks.acknowledged,
                      hooks.registered[h])
  BY DEF HooksInv, RowsSound
<1>5. RowSound(t, g, row, <<e, g>> \in hooks.acknowledged, hooks.registered[g])
  BY <1>2, <1>4
<1>6. CASE Post(e)
  <2>1. PICK answer \in Answers :
          hooks' = [hooks EXCEPT
                      !.task[e].step = "answered",
                      !.task[e].answer = answer,
                      !.acknowledged = IF answer = "accepted"
                                       THEN hooks.acknowledged \cup {<<e, g>>}
                                       ELSE hooks.acknowledged]
    BY <1>6 DEF Post
  <2> DEFINE u == [step |-> "answered", matching |-> t.matching, left |-> t.left,
                   hook |-> g, answer |-> answer]
             acks == IF answer = "accepted" THEN hooks.acknowledged \cup {<<e, g>>}
                     ELSE hooks.acknowledged
  <2>2. u = [t EXCEPT !.step = "answered", !.answer = answer]
    BY <1>1, AnsweredTask
  <2>3. hooks.rows = [hooks.rows EXCEPT ![<<e, g>>] = row] BY <1>2 DEF HooksInv, HooksTyped
  <2>4. hooks' = [hooks EXCEPT !.task = [hooks.task EXCEPT ![e] = u],
                               !.rows = [hooks.rows EXCEPT ![<<e, g>>] = row],
                               !.acknowledged = acks]
    BY <2>1, <2>2, <2>3 DEF HooksInv, HooksTyped
  <2>5. u \in TaskType BY <1>1, <1>2 DEF TaskType, AtHook
  <2>6. /\ u.step = "answered" /\ u.matching = t.matching /\ u.left = t.left
        /\ u.hook = g /\ u.answer = answer
    OBVIOUS
  <2>7. t.step = "posting" BY <1>6 DEF Post
  <2>8. acks \in {hooks.acknowledged, hooks.acknowledged \cup {<<e, g>>}}
    OBVIOUS
  <2>9. (<<e, g>> \in acks) <=> answer = "accepted" \/ <<e, g>> \in hooks.acknowledged
    OBVIOUS
  <2> HIDE DEF u, acks
  <2>10. RowSound(u, g, row, <<e, g>> \in acks, hooks.registered[g])
    <3>1. t.hook = g OBVIOUS
    <3> HIDE DEF t, g, row
    <3> QED BY <1>5, <2>6, <2>7, <2>9, <3>1 DEF RowSound, AtHook, Final, NoRow
  <2>11. ASSUME NEW h \in Hooks, h # g
         PROVE  RowSound(u, h, hooks.rows[<<e, h>>], <<e, h>> \in hooks.acknowledged,
                         hooks.registered[h])
    <3>1. RowSound(t, h, hooks.rows[<<e, h>>], <<e, h>> \in hooks.acknowledged,
                   hooks.registered[h])
      BY <1>4
    <3> HIDE DEF t
    <3> QED BY <2>6, <2>7, <2>11, <3>1 DEF RowSound, AtHook
  <2> HIDE DEF g, row
  <2> QED BY <1>2, <1>3, <2>4, <2>5, <2>8, <2>10, <2>11, AtHookStep
<1>7. ASSUME NEW status \in {"pending"} \cup Final, NEW n \in Nat, NEW s,
             hooks' = [hooks EXCEPT !.rows[<<e, g>>] = [status |-> status, attempts |-> n],
                                    !.task[e].step = s],
             hooks.registered[g] # "deleted", n <= webhook_max_retries,
             status = "delivered" <=> t.step = "answered" /\ t.answer = "accepted",
             status \in Final => s = "choosing",
             status = "pending" => \/ s = "sleeping" /\ n < webhook_max_retries
                                   \/ s = "exhausted"
      PROVE  HooksInv'
  <2> DEFINE u == [step |-> s, matching |-> t.matching, left |-> t.left,
                   hook |-> g, answer |-> t.answer]
             new == [status |-> status, attempts |-> n]
  <2>1. u = [t EXCEPT !.step = s] BY <1>1 DEF TaskType
  <2>2. hooks' = [hooks EXCEPT !.task = [hooks.task EXCEPT ![e] = u],
                               !.rows = [hooks.rows EXCEPT ![<<e, g>>] = new],
                               !.acknowledged = hooks.acknowledged]
    BY <1>7, <2>1 DEF HooksInv, HooksTyped
  <2>3. s \in {"choosing", "sleeping", "exhausted"} BY <1>7
  <2>4. u \in TaskType BY <1>1, <1>2, <2>3 DEF TaskType, AtHook
  <2>5. new \in RowType BY DEF RowType
  <2>6. /\ u.step = s /\ u.matching = t.matching /\ u.left = t.left
        /\ u.hook = g /\ u.answer = t.answer /\ new.status = status /\ new.attempts = n
    OBVIOUS
  <2>7. <<e, g>> \in hooks.acknowledged <=> t.step = "answered" /\ t.answer = "accepted"
    BY <1>1, <1>5 DEF RowSound, AtHook
  <2>8. g \notin t.left BY <1>1, <1>5 DEF RowSound, AtHook
  <2> HIDE DEF u, new
  <2>9. RowSound(u, g, new, <<e, g>> \in hooks.acknowledged, hooks.registered[g])
    <3> HIDE DEF t, g
    <3> QED BY <1>7, <2>3, <2>6, <2>7, <2>8 DEF RowSound, AtHook, Final
  <2>10. ASSUME NEW h \in Hooks, h # g
         PROVE  RowSound(u, h, hooks.rows[<<e, h>>], <<e, h>> \in hooks.acknowledged,
                         hooks.registered[h])
    <3>1. RowSound(t, h, hooks.rows[<<e, h>>], <<e, h>> \in hooks.acknowledged,
                   hooks.registered[h])
      BY <1>4
    <3> HIDE DEF t
    <3> QED BY <1>1, <2>3, <2>6, <2>10, <3>1 DEF RowSound, AtHook
  <2> HIDE DEF g
  <2> QED BY <1>2, <2>2, <2>4, <2>5, <2>9, <2>10, AtHookStep
<1>8. CASE RecordAttempt(e)
  <2> DEFINE n == row.attempts + 1
             status == DeliveryStatus(t.answer)
  <2>1. t.step = "answered" /\ hooks.registered[g] # "deleted"
    BY <1>8 DEF RecordAttempt, Gone
  <2>2. row.attempts < webhook_max_retries BY <1>5, <2>1 DEF RowSound, AtHook
  <2>3. n \in Nat /\ n <= webhook_max_retries
    BY <1>3, <2>2, WebhookAssumption DEF RowType
  <2>4. status \in {"pending"} \cup Final /\ (status = "delivered" <=> t.answer = "accepted")
    BY DEF DeliveryStatus, Final
  <2>5. hooks' = [hooks EXCEPT !.rows[<<e, g>>] = [status |-> status, attempts |-> n],
                               !.task[e].step = After(t.answer, n)]
    BY <1>8 DEF RecordAttempt, Attempt
  <2>6. /\ status \in Final => After(t.answer, n) = "choosing"
        /\ status = "pending" => \/ After(t.answer, n) = "sleeping" /\ n < webhook_max_retries
                                 \/ After(t.answer, n) = "exhausted"
    BY DEF After, Final
  <2> HIDE DEF n, status, t, g, row
  <2> QED BY <1>7, <2>1, <2>3, <2>4, <2>5, <2>6
<1>9. CASE GiveUp(e)
  <2>1. t.step = "exhausted" /\ hooks.registered[g] # "deleted"
    BY <1>9 DEF GiveUp, Gone
  <2>2. [status |-> "dead_letter", attempts |-> row.attempts] =
          [row EXCEPT !.status = "dead_letter"]
    BY <1>3 DEF RowType
  <2>3. hooks' = [hooks EXCEPT
                    !.rows[<<e, g>>] = [status |-> "dead_letter", attempts |-> row.attempts],
                    !.task[e].step = "choosing"]
    BY <1>9, <2>2 DEF GiveUp
  <2>4. row.attempts \in Nat /\ row.attempts <= webhook_max_retries
    BY <1>3, <1>5 DEF RowType, RowSound
  <2>5. /\ "dead_letter" \in {"pending"} \cup Final
        /\ ~("dead_letter" = "delivered" \/ "dead_letter" = "pending")
        /\ ~(t.step = "answered")
    BY <2>1 DEF Final
  <2> HIDE DEF t, g, row
  <2> QED BY <1>7, <2>1, <2>3, <2>4, <2>5
<1> QED BY <1>6, <1>8, <1>9

\* For any number of webhooks, events and attempts, whatever endpoints answer and
\* whenever webhooks are deleted or workers stop: a delivery's status is what the
\* endpoint said.
THEOREM OutcomesTrue == BackendSpec => []OutcomeAsReceived
<1>1. BackendInit => HooksInv
  BY WebhookAssumption DEF BackendInit, HooksDeployed, HooksInv, HooksTyped, RowsSound,
     RowSound, RowType, TaskType, AtHook, Task, NoRow, Final
<1>2. HooksInv /\ [BackendNext]_vars => HooksInv'
  <2> SUFFICES ASSUME HooksInv, [HooksNext]_hooks PROVE HooksInv'
    BY PartSteps
  <2>1. ASSUME NEW e \in Events, Retry(e) \/ Aborted(e) \/ Done(e) \/ Stopped(e)
        PROVE  HooksInv'
    BY <2>1, StepTo DEF Retry, Aborted, Done, Stopped
  <2>2. ASSUME NEW e \in Events, TaskStep(e) PROVE HooksInv'
    BY <2>1, <2>2, BeginStep, StartStep, AnswerStep DEF TaskStep
  <2>3. CASE UNCHANGED hooks BY <2>3 DEF HooksInv, HooksTyped, RowsSound
  <2> QED BY <2>1, <2>2, <2>3, BeginStep, RouteStep DEF HooksNext
<1>3. ASSUME HooksInv, NEW e \in Events, NEW h \in Hooks
      PROVE  LET row == hooks.rows[<<e, h>>]
                 t == hooks.task[e]
             IN /\ row.attempts <= webhook_max_retries
                /\ row.status = "delivered" => <<e, h>> \in hooks.acknowledged
                /\ row.status = "dead_letter" => <<e, h>> \notin hooks.acknowledged
                /\ row.status = "pending" => t.hook = h /\ t.step # "done"
                /\ t.step = "done" /\ h \in t.matching
                     => row.status \in Final \/ hooks.registered[h] = "deleted"
  <2> DEFINE row == hooks.rows[<<e, h>>]
             t == hooks.task[e]
  <2>1. RowSound(t, h, row, <<e, h>> \in hooks.acknowledged, hooks.registered[h])
    BY <1>3 DEF HooksInv, RowsSound
  <2>2. t.step = "done" => t.left = {} BY <1>3 DEF HooksInv, HooksTyped, TaskType
  <2> HIDE DEF t, row
  <2>3. /\ row.attempts <= webhook_max_retries
        /\ row.status = "delivered" => <<e, h>> \in hooks.acknowledged
        /\ row.status = "dead_letter" => <<e, h>> \notin hooks.acknowledged
        /\ row.status = "pending" => t.hook = h /\ t.step # "done"
        /\ t.step = "done" /\ h \in t.matching
             => row.status \in Final \/ hooks.registered[h] = "deleted"
    BY <2>1, <2>2 DEF RowSound, AtHook
  <2> QED BY <2>3 DEF row, t
<1>4. HooksInv => OutcomeAsReceived BY <1>3, Zenon DEF OutcomeAsReceived
<1> QED BY <1>1, <1>2, <1>4, PTL DEF BackendSpec
=============================================================================
