---------------------------- MODULE InvoiceLedger ----------------------------
(***************************************************************************)
(* What the invoice database promises to the services that share it, with  *)
(* no clock, no requests and no transactions of SQLite.  An invoice is     *)
(* unknown, then pending, then for ever paid or for ever expired; a wallet *)
(* transaction of a network settles at most one invoice of the ledger.     *)
(* docs/invoices.md, "Lifecycle and time" and "Persistence, concurrency    *)
(* and idempotency", states these promises in words.                       *)
(***************************************************************************)
CONSTANTS InvoiceIds, Networks, TxIds

VARIABLES pending,   \* ids of the invoices that can still be paid
          expired,   \* ids of the invoices that lapsed
          spent      \* which transaction of which network settled which invoice

ledgerVars == <<pending, expired, spent>>

Settlement == [network : Networks, txid : TxIds, invoice_id : InvoiceIds]

Paid == {s.invoice_id : s \in spent}

LedgerInit == pending = {} /\ expired = {} /\ spent = {}

(* Any access may find that the time of some pending invoices has passed.  *)
Lapse(late) ==
  /\ pending' = pending \ late
  /\ expired' = expired \cup late
  /\ UNCHANGED spent

Issue(late, i) ==
  /\ i \notin pending \cup expired \cup Paid
  /\ pending' = (pending \ late) \cup {i}
  /\ expired' = expired \cup late
  /\ UNCHANGED spent

Settle(late, s) ==
  /\ s.invoice_id \in pending \ late
  /\ \A old \in spent : <<old.network, old.txid>> # <<s.network, s.txid>>
  /\ pending' = (pending \ late) \ {s.invoice_id}
  /\ expired' = expired \cup late
  /\ spent' = spent \cup {s}

LedgerNext ==
  \E late \in SUBSET pending :
     \/ Lapse(late)
     \/ \E i \in InvoiceIds : Issue(late, i)
     \/ \E s \in Settlement : Settle(late, s)

LedgerSpec == LedgerInit /\ [][LedgerNext]_ledgerVars
=============================================================================
