---------------------------- MODULE InvoiceStore -----------------------------
(***************************************************************************)
(* SQLiteInvoiceStore: the table of invoices and the transactions on it.   *)
(* Every operation opens a connection and runs inside BEGIN IMMEDIATE, so  *)
(* it is one atomic step; an exception raised inside rolls back everything *)
(* the transaction did, the sweep of expired invoices included.            *)
(*                                                                         *)
(* The table is a set of rows, as SQL has it: that ids, keys and consumed  *)
(* transactions are unique is what the constraints of the schema enforce,  *)
(* not the shape of the model.  "answer" is what the last operation gave   *)
(* back to the process that called it, until the process picks it up.      *)
(*                                                                         *)
(* The clock is the service's wall clock: between two steps it may move    *)
(* anywhere, backwards too.                                                *)
(***************************************************************************)
EXTENDS Integers, FiniteSets, WalletNetworks

CONSTANTS Processes,      \* threads and processes that share the database file
          InvoiceIds,     \* invoice ids, numbered in the order SQLite sorts them
          Amounts,
          Keys, NoKey,    \* idempotency keys, and the absent one
          Fingerprints,   \* digests of the creation parameters
          NoTx,
          Requests,       \* the payment requests that callers present
          MaxInvoices,    \* max_invoices: capacity of the table
          PageSizes,      \* the limits callers ask a list for
          MaxConfirmations,
          MaxTime         \* MAX_TIMESTAMP

Times == 0..MaxTime
NoTime == -1

Request == [invoice_id : InvoiceIds, network : Networks, recipient_address : Addresses,
            amount_atomic : Amounts, created_at : Times, expires_at : Times]

ASSUME StoreConstants ==
  /\ InvoiceIds \subseteq Nat \ {0}
  /\ Amounts \subseteq Nat \ {0}
  /\ MaxInvoices \in Nat \ {0} /\ MaxConfirmations \in Nat \ {0} /\ MaxTime \in Nat
  /\ PageSizes \subseteq Nat \ {0}
  /\ NoKey \notin Keys /\ NoTx \notin TxIds
  /\ Requests \subseteq {r \in Request : r.created_at < r.expires_at}

States == {"PENDING", "PAID", "EXPIRED"}

Row == [request : Requests, state : States, required_confirmations : 1..MaxConfirmations,
        idempotency_key : Keys \cup {NoKey}, creation_fingerprint : Fingerprints,
        txid : TxIds \cup {NoTx}, received_atomic : Amounts \cup {0},
        confirmations : 0..MaxConfirmations, paid_at : Times \cup {NoTime}]

Observation == [eligible : BOOLEAN, txid : TxIds, request_message : Requests,
                received_atomic : Amounts \cup {0}, confirmations : 0..MaxConfirmations]

VARIABLES invoices,   \* the table: a set of rows
          now,        \* the wall clock
          answer      \* [Processes -> what the last operation returned]

storeVars == <<invoices, now, answer>>

Failures == {"invoice_conflict", "invoice_not_found", "input_error", "invoice_storage_error"}

Nothing == [outcome |-> "none", rows |-> {}]
Answers == [outcome : {"none", "ok"} \cup Failures, rows : SUBSET Row]

(***************************************************************************)
(* Rows and queries                                                        *)
(***************************************************************************)

(* InvoiceRecord.__post_init__: an unpaid record carries no evidence, a    *)
(* paid one carries all of it: the exact amount, enough confirmations and  *)
(* a decision taken inside the lifetime of the request.                    *)
RecordValid(r) ==
  IF r.state # "PAID"
  THEN r.txid = NoTx /\ r.received_atomic = 0 /\ r.confirmations = 0 /\ r.paid_at = NoTime
  ELSE /\ r.txid # NoTx
       /\ r.received_atomic = r.request.amount_atomic
       /\ r.confirmations >= r.required_confirmations
       /\ r.request.created_at <= r.paid_at /\ r.paid_at < r.request.expires_at

(* _expire: UPDATE ... WHERE state='PENDING' AND expires_at<=now.          *)
LapsesInAnyState(r) == r.request.expires_at <= now                 \* mutant
Lapses(r) == r.state = "PENDING" /\ r.request.expires_at <= now
AfterExpire(r) == IF Lapses(r) THEN [r EXCEPT !.state = "EXPIRED"] ELSE r
Swept == {AfterExpire(r) : r \in invoices}

WithId(table, i) == {r \in table : r.request.invoice_id = i}
WithKeyPending(table, k) ==                                        \* mutant
  {r \in table : r.idempotency_key = k /\ k # NoKey /\ r.state = "PENDING"}
WithKey(table, k) == {r \in table : r.idempotency_key = k /\ k # NoKey}

HasRoom == Cardinality(invoices) < MaxInvoices

PreviousWhileRoom(key) == IF HasRoom THEN WithKey(Swept, key) ELSE {}    \* mutant
Previous(key) == WithKey(Swept, key)

(* UNIQUE(network, txid) *)
ConsumedUnconstrained(n, t) == FALSE                               \* mutant
Consumed(n, t) == \E r \in invoices : r.state = "PAID" /\ r.request.network = n /\ r.txid = t

(* SELECT ... WHERE network=? AND invoice_id>? ORDER BY invoice_id LIMIT ? *)
Page(table, n, after, limit) ==
  LET match == {r \in table : r.request.network = n /\ r.request.invoice_id > after}
  IN  {r \in match : Cardinality({s \in match : s.request.invoice_id <= r.request.invoice_id})
                        <= limit}

NewRow(request, required, key, print) ==
  [request |-> request, state |-> "PENDING", required_confirmations |-> required,
   idempotency_key |-> key, creation_fingerprint |-> print,
   txid |-> NoTx, received_atomic |-> 0, confirmations |-> 0, paid_at |-> NoTime]

PaidRow(r, obs) ==
  [r EXCEPT !.state = "PAID", !.txid = obs.txid, !.received_atomic = obs.received_atomic,
            !.confirmations = obs.confirmations, !.paid_at = now]

(***************************************************************************)
(* How a transaction ends                                                  *)
(***************************************************************************)

Commit(p, table, rows) ==
  /\ invoices' = table
  /\ answer' = [answer EXCEPT ![p] = [outcome |-> "ok", rows |-> rows]]
  /\ UNCHANGED now

Rollback(p, failure) ==
  /\ answer' = [answer EXCEPT ![p] = [outcome |-> failure, rows |-> {}]]
  /\ UNCHANGED <<invoices, now>>

Free(p) == answer[p] = Nothing

(***************************************************************************)
(* The operations                                                          *)
(***************************************************************************)

(* create: a known key answers from the table or conflicts; otherwise the  *)
(* request must be payable now, there must be room, and the constraints of *)
(* the table must hold: its id and its key are unique.  (A pending row     *)
(* meets the CHECK on its columns, which RecordValid includes.)            *)
Create(p, request, required, key, print) ==
  LET previous == Previous(key)
      payable  == request.created_at <= now /\ now < request.expires_at
      fresh    == \A r \in invoices :
                    /\ r.request.invoice_id # request.invoice_id
                    /\ r.idempotency_key = key => key = NoKey
      new      == NewRow(request, required, key, print)
  IN  \/ /\ \E r \in previous : r.creation_fingerprint # print
         /\ Rollback(p, "invoice_conflict")
      \/ /\ previous # {} /\ \A r \in previous : r.creation_fingerprint = print
         /\ Commit(p, Swept, previous)
      \/ previous = {} /\ ~payable /\ Rollback(p, "input_error")
      \/ previous = {} /\ payable /\ ~HasRoom /\ Rollback(p, "invoice_storage_error")
      \/ previous = {} /\ payable /\ HasRoom /\ ~fresh /\ Rollback(p, "invoice_conflict")
      \/ /\ previous = {} /\ payable /\ HasRoom /\ fresh
         /\ Commit(p, Swept \cup {new}, {new})

Get(p, i) ==
  \/ WithId(invoices, i) = {} /\ Rollback(p, "invoice_not_found")
  \/ WithId(invoices, i) # {} /\ Commit(p, Swept, WithId(Swept, i))

List(p, n, after, limit) == Commit(p, Swept, Page(Swept, n, after, limit))

Expire(p) == Commit(p, Swept, {})

(* _finalize, the trusted boundary of the billing service.  The clock is   *)
(* read again under the write lock; the record that would be stored is     *)
(* built, and so validated, before the UPDATE.                             *)
Finalize(p, request, obs) ==
  LET trusted == obs.eligible /\ obs.request_message = request
      found   == WithId(Swept, request.invoice_id)
      Paid(r) == PaidRow(r, obs)
  IN  \/ ~trusted /\ Rollback(p, "input_error")
      \/ trusted /\ found = {} /\ Rollback(p, "invoice_not_found")
      \/ \E r \in found :
           /\ trusted
           /\ \/ r.request # request /\ Rollback(p, "invoice_conflict")
              \/ /\ r.request = request /\ r.state # "PENDING"
                 /\ Commit(p, Swept, {r})
              \/ /\ r.request = request /\ r.state = "PENDING"
                 /\ ~RecordValid(Paid(r))
                 /\ Rollback(p, "input_error")
              \/ /\ r.request = request /\ r.state = "PENDING"
                 /\ RecordValid(Paid(r)) /\ Consumed(request.network, obs.txid)
                 /\ Rollback(p, "invoice_conflict")
              \/ /\ r.request = request /\ r.state = "PENDING"
                 /\ RecordValid(Paid(r)) /\ ~Consumed(request.network, obs.txid)
                 /\ Commit(p, (Swept \ {r}) \cup {Paid(r)}, {Paid(r)})

(* SQLite gives up: the write lock was not free within five seconds, the   *)
(* disk is full, the file is unreadable.                                   *)
TransactionFails(p) == Rollback(p, "invoice_storage_error")

(* The caller goes on with what it was told, or dies.                      *)
PickUp(p) ==
  /\ ~Free(p)
  /\ answer' = [answer EXCEPT ![p] = Nothing]
  /\ UNCHANGED <<invoices, now>>

ClockMoves(t) == t # now /\ now' = t /\ UNCHANGED <<invoices, answer>>

-----------------------------------------------------------------------------

StoreInit ==
  /\ invoices = {}
  /\ now \in Times
  /\ answer = [p \in Processes |-> Nothing]

Operation(p) ==
  /\ Free(p)
  /\ \/ \E request \in Requests, required \in 1..MaxConfirmations,
           key \in Keys \cup {NoKey}, print \in Fingerprints :
          Create(p, request, required, key, print)
     \/ \E i \in InvoiceIds : Get(p, i)
     \/ \E n \in Networks, after \in InvoiceIds \cup {0}, limit \in PageSizes :
          List(p, n, after, limit)
     \/ Expire(p)
     \/ \E request \in Requests, obs \in Observation : Finalize(p, request, obs)
     \/ TransactionFails(p)

StoreNext ==
  \/ \E p \in Processes : Operation(p) \/ PickUp(p)
  \/ \E t \in Times : ClockMoves(t)

StoreSpec == StoreInit /\ [][StoreNext]_storeVars

(***************************************************************************)
(* Properties                                                              *)
(***************************************************************************)

(* Every variable has its type.                                            *)
StoreTypeOK ==
  /\ invoices \subseteq Row
  /\ now \in Times
  /\ answer \in [Processes -> Answers]

(* Every stored row can be read back: _decode, which validates the record  *)
(* of each row it returns, never meets one that it must refuse.  A row it  *)
(* refused would make every later get, list and verification fail.         *)
EveryRowDecodes == \A r \in invoices : RecordValid(r)

(* One transaction of a network pays at most one invoice of the database,  *)
(* whatever the order of the finalizations (UNIQUE(network,txid)).         *)
TransactionConsumedOnce ==
  \A r, s \in invoices :
     /\ r.state = "PAID" /\ s.state = "PAID"
     /\ r.txid = s.txid /\ r.request.network = s.request.network
     => r = s

(* Two rows never share an invoice id or an idempotency key.               *)
RowsIdentified ==
  \A r, s \in invoices :
     \/ r.request.invoice_id = s.request.invoice_id
     \/ r.idempotency_key = s.idempotency_key /\ r.idempotency_key # NoKey
     => r = s

(* A stored invoice is never deleted and its terms never change; PENDING   *)
(* may become PAID or EXPIRED, and those two are final, even when the      *)
(* clock goes back (docs/invoices.md, "Lifecycle and time").               *)
Succeeds(r, s) ==
  /\ <<s.request, s.required_confirmations, s.idempotency_key, s.creation_fingerprint>>
       = <<r.request, r.required_confirmations, r.idempotency_key, r.creation_fingerprint>>
  /\ r.state # "PENDING" => s = r

LegalTransitions == [][\A r \in invoices : \E s \in invoices' : Succeeds(r, s)]_storeVars

(* The database implements the ledger.                                     *)
IdsIn(state) == {r.request.invoice_id : r \in {q \in invoices : q.state = state}}
Settled == {[network |-> r.request.network, txid |-> r.txid,
             invoice_id |-> r.request.invoice_id] : r \in {q \in invoices : q.state = "PAID"}}

Ledger == INSTANCE InvoiceLedger
            WITH pending <- IdsIn("PENDING"), expired <- IdsIn("EXPIRED"), spent <- Settled

LedgerSpec == Ledger!LedgerSpec
=============================================================================
