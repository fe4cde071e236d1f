--------------------------- MODULE PaymentRecords ---------------------------
(***************************************************************************)
(* backend/src/routes/transactions.py, record_premium_payment, with        *)
(* store_transaction_record of services/stellar_service.py: one user's     *)
(* payments, each recorded under a key that the client makes up and may    *)
(* send again.  Several workers serve requests; the transaction and the    *)
(* record of its key are committed one after the other, and a worker may   *)
(* die before, between or after.                                           *)
(*                                                                         *)
(* The fingerprint of a request is its transaction hash: the policy and    *)
(* the amount come with it.  An integrity error of the database (a hash or *)
(* a key that is there already) answers 500 and rolls back that commit     *)
(* only.                                                                   *)
(***************************************************************************)
EXTENDS Naturals, Sequences

CONSTANTS PaymentWorkers, Keys, Hashes,
          MaxPayments   \* checking bound: rows of transactions

Request == [key : Keys, hash : Hashes]

NoRecord == [hash |-> "none", transaction |-> 0]

VARIABLE payments
\* transactions  the table, a row's id being its place
\* records       the idempotency record of each key
\* serving       what each worker is at
\* answers       the answers 200 that were sent: request and transaction

AtRest == [step |-> "idle"]

PaymentsDeployed ==
  [transactions |-> <<>>, records |-> [k \in Keys |-> NoRecord],
   serving |-> [w \in PaymentWorkers |-> AtRest], answers |-> {}]

Answer(request, id) ==
  [key |-> request.key, hash |-> request.hash, transaction |-> id]

\* A key that was used before, for the same request or for another one.
Used(k) == payments.records[k] # NoRecord
Replayed(request) == payments.records[request.key].hash = request.hash

\* The look-up of the key: a replay is answered by the record's transaction,
\* another request under the key by 409, and a new one goes on.
LookUp(w, request) ==
  /\ payments.serving[w] = AtRest
  /\ payments' =
       IF Used(request.key)
       THEN IF Replayed(request)
            THEN [payments EXCEPT !.answers = payments.answers \cup
                    {Answer(request, payments.records[request.key].transaction)}]
            ELSE payments
       ELSE [payments EXCEPT !.serving[w] = [step |-> "new", request |-> request]]

\* transaction_hash is unique: a second row fails.
Unique(hash) == \A i \in 1..Len(payments.transactions) : payments.transactions[i] # hash

Insert(w) ==
  /\ payments.serving[w].step = "new"
  /\ Len(payments.transactions) < MaxPayments
  /\ LET request == payments.serving[w].request IN
       payments' =
         IF Unique(request.hash)
         THEN [payments EXCEPT
                 !.transactions = Append(payments.transactions, request.hash),
                 !.serving[w] = [step |-> "stored", request |-> request,
                                 transaction |-> Len(payments.transactions) + 1]]
         ELSE [payments EXCEPT !.serving[w] = AtRest]

\* The record of the key, unique per user and scope, and the answer.
BadKeyFree(k) == TRUE
KeyFree(k) == ~Used(k)

Record(w) ==
  /\ payments.serving[w].step = "stored"
  /\ LET s == payments.serving[w] IN
       payments' =
         IF KeyFree(s.request.key)
         THEN [payments EXCEPT
                 !.records[s.request.key] =
                    [hash |-> s.request.hash, transaction |-> s.transaction],
                 !.serving[w] = AtRest,
                 !.answers = payments.answers \cup {Answer(s.request, s.transaction)}]
         ELSE [payments EXCEPT !.serving[w] = AtRest]

\* The worker dies; what it committed stays.
WorkerDies(w) ==
  /\ payments.serving[w] # AtRest
  /\ payments' = [payments EXCEPT !.serving[w] = AtRest]

PaymentsNext ==
  \E w \in PaymentWorkers :
    \/ \E request \in Request : LookUp(w, request)
    \/ Insert(w)
    \/ Record(w)
    \/ WorkerDies(w)

-----------------------------------------------------------------------------
\* routes/transactions.py: `replaying the same request with the same key returns
\* the original transaction record'.  Once a request was answered, the key names
\* that transaction for good and the transaction is the request's, whatever
\* requests run beside it and wherever workers die.
AnsweredForGood ==
  \A a \in payments.answers :
    /\ payments.records[a.key] = [hash |-> a.hash, transaction |-> a.transaction]
    /\ a.transaction \in 1..Len(payments.transactions)
    /\ payments.transactions[a.transaction] = a.hash
=============================================================================
