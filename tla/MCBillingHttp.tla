---------------------------- MODULE MCBillingHttp ----------------------------
(* One application with two workers, and three clients at a time.           *)
EXTENDS BillingHttp, TLC

CONSTANTS main, ours, foreign, k1, f1, f2, f3, f4, t1, p1, p2, a, b, d

Terms(to, amount, i) ==
  [network |-> main, recipient_address |-> to, amount_atomic |-> amount,
   expires_in |-> 1, invoice_id |-> i, required_confirmations |-> 1]

MCTerms == f1 :> Terms(ours, 1, 1) @@ f2 :> Terms(ours, 2, 2) @@
           f3 :> Terms(ours, 1, GeneratedId) @@ f4 :> Terms(foreign, 1, 1)
MCRequests == {r \in {RequestFor(f, i, t) : f \in Fingerprints, i \in InvoiceIds, t \in Times} :
                 r.expires_at <= MaxTime}
MCNetworks == [w \in Processes |-> main]
MCPays == [n \in Networks |-> [t \in TxIds |-> [address |-> ours, amount |-> 1]]]

Workers == Permutations({p1, p2})

None == [kind |-> "none", flaw |-> 0, print |-> NoKey, key |-> NoKey, invoice_id |-> 0,
         limit |-> 0, retries |-> 0]
Creates(f, k, n) == [None EXCEPT !.kind = "create", !.print = f, !.key = k, !.retries = n]
Verifies(i) == [None EXCEPT !.kind = "verify", !.invoice_id = i, !.retries = 1]
Reads(i) == [None EXCEPT !.kind = "read", !.invoice_id = i]
Walks(n, again) == [None EXCEPT !.kind = "walk", !.limit = n, !.retries = again]

(* Clients create under one key, with other terms or again and with a drawn *)
(* id, while another reads; an invoice is created and verified; requests    *)
(* are refused; a keyed creation is sent again while another without a key, *)
(* sent again too, fills the table; and a client pages through the list     *)
(* while another creates.                                                   *)
For(x, y, z) == a :> x @@ b :> y @@ d :> z
MCErrands ==
  {For(Creates(f1, k1, 1), Creates(f2, k1, 0), None),
   For(Creates(f3, k1, 1), Reads(1), None),
   For(Creates(f1, k1, 1), Reads(1), None),
   For(Creates(f1, k1, 0), Verifies(1), None),
   For([Creates(f1, k1, 0) EXCEPT !.flaw = 401], Creates(f4, NoKey, 1), Reads(1)),
   For(Creates(f1, k1, 1), Creates(f3, NoKey, 1), None),
   For(Creates(f3, NoKey, 1), Walks(1, 1), None),
   For(Creates(f3, NoKey, 1), Walks(2, 0), None)}
=============================================================================
