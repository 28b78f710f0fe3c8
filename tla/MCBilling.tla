------------------------------ MODULE MCBilling ------------------------------
(* Small services for TLC.  Requests last one or two ticks of the clock.   *)
EXTENDS Billing, TLC

CONSTANTS main, test, ours, other, foreign, k1, f1, f2, f3, f4, t1, t2, p1, p2

Terms(n, to, amount, lifetime, i, required) ==
  [network |-> n, recipient_address |-> to, amount_atomic |-> amount,
   expires_in |-> lifetime, invoice_id |-> i, required_confirmations |-> required]

MCRequests == {RequestFor(f, i, t) : f \in Fingerprints, i \in InvoiceIds, t \in Times}
                \cap [invoice_id : InvoiceIds, network : Networks, recipient_address : Addresses,
                      amount_atomic : Amounts, created_at : Times, expires_at : Times]

(* The two processes of one service are interchangeable. *)
AlikeProcesses == Permutations({p1, p2})

(* Two verifications race: both invoices ask for the same amount, and both *)
(* transactions pay it.                                                    *)
RaceNetworks == [c \in Processes |-> main]
RaceTerms == f1 :> Terms(main, ours, 1, 1, 1, 1) @@ f2 :> Terms(main, ours, 1, 2, 2, 1)
RacePays == [n \in Networks |-> [t \in TxIds |-> [address |-> ours, amount |-> 1]]]

(* Two services of two networks share the file.  Beside the two invoices   *)
(* that t1 pays, each on its network, callers ask for one to an address    *)
(* that t1 does not pay and for one to an address the wallet refuses.      *)
MixedNetworks == p1 :> main @@ p2 :> test
MixedTerms == f1 :> Terms(main, ours, 1, 1, 1, 2) @@ f2 :> Terms(test, ours, 2, 1, 2, 1) @@
              f3 :> Terms(main, other, 1, 1, 2, 1) @@ f4 :> Terms(test, foreign, 1, 1, 1, 1)
MixedPays == main :> (t1 :> [address |-> ours, amount |-> 1]) @@
             test :> (t1 :> [address |-> ours, amount |-> 2])
=============================================================================
