---------------------------- MODULE EndToEnd_proofs ----------------------------
(***************************************************************************)
(* The billing service and the reputation stores together: the ledger that *)
(* record_verified_settlement reads is the table of invoices that billing  *)
(* keeps.  The two are composed as their specifications are conjoined,     *)
(* with an invariant that says where they meet; their other variables,     *)
(* two databases among them, are apart.  InterleavedSpec is the same as a  *)
(* program: a step of the service or one of the bridge, never both.        *)
(*                                                                         *)
(* An invoice of the bridge is a payment request: the evidence holds the   *)
(* digest of the whole request, not of its id.                             *)
(***************************************************************************)
EXTENDS BillingHttp_proofs, Reputation_proofs

(* The invoices of the bridge are the requests of the service, and each is *)
(* to be paid to the address that it names.                                *)
SharedInvoices ==
  /\ Invoices = Requests
  /\ Recipient = [request \in Requests |-> request.recipient_address]

(* What the bridge sees of a table: the requests of a state, and those paid*)
(* with the transactions that settled them.                                *)
RequestsOf(T, state) == {r.request : r \in {q \in T : q.state = state}}
SettledRequests(T) ==
  {[network |-> r.request.network, txid |-> r.txid, invoice_id |-> r.request]
     : r \in {q \in T : q.state = "PAID"}}

(* The ledger of the bridge shows the table of the service.                *)
Joined ==
  /\ pending = RequestsOf(invoices, "PENDING")
  /\ expired = RequestsOf(invoices, "EXPIRED")
  /\ spent = SettledRequests(invoices)

(* Both databases with everything that uses them.                          *)
System == BillingSpec /\ BridgeSpec /\ []Joined

(* A process of the bridge, or an import into a store, runs.               *)
BridgeRuns ==
  \/ \E c \in Recorders :
       \/ \E s \in Stores, rec \in spent, b \in Bindings : BeginRecord(c, s, rec, b)
       \/ NativeVerified(c) \/ Recheck(c) \/ RecordEvidence(c) \/ RecordingInterrupted(c)
  \/ \E s \in Stores, a \in Artifacts : ImportStep(s, a)

InterleavedNext ==
  \/ BillingNext /\ Joined' /\ UNCHANGED <<reputationVars, bridge, inserted>>
  \/ BridgeRuns /\ UNCHANGED billingVars

InterleavedSpec ==
  /\ BillingInit /\ BridgeInit
  /\ [][InterleavedNext]_<<billingVars, bridgeVars>>

-----------------------------------------------------------------------------

(* What the next transaction of the service sweeps.                        *)
LateRequests == {r.request : r \in {q \in invoices : Lapses(q)}}

(* The sweep moves the late requests from pending to expired.              *)
LEMMA SweptRequests ==
  ASSUME StoreInv
  PROVE  /\ LateRequests \in SUBSET RequestsOf(invoices, "PENDING")
         /\ RequestsOf(Swept, "PENDING") = RequestsOf(invoices, "PENDING") \ LateRequests
         /\ RequestsOf(Swept, "EXPIRED") = RequestsOf(invoices, "EXPIRED") \cup LateRequests
         /\ SettledRequests(Swept) = SettledRequests(invoices)
<1> USE DEF StoreInv, TableOK
<1>1. LateRequests \in SUBSET RequestsOf(invoices, "PENDING")
  BY DEF LateRequests, RequestsOf, Lapses
<1>2. RequestsOf(Swept, "PENDING") = RequestsOf(invoices, "PENDING") \ LateRequests
  BY SweptRow DEF RequestsOf, LateRequests, Swept, AfterExpire, Identified, Lapses, Row, States
<1>3. RequestsOf(Swept, "EXPIRED") = RequestsOf(invoices, "EXPIRED") \cup LateRequests
  <2>1. ASSUME NEW r \in invoices
        PROVE  /\ AfterExpire(r).request = r.request
               /\ AfterExpire(r).state = "EXPIRED" <=> r.state = "EXPIRED" \/ Lapses(r)
    BY SweptRow DEF AfterExpire, Lapses, Row, States, Succeeds
  <2> QED BY <2>1 DEF RequestsOf, LateRequests, Swept
<1>4. {q \in Swept : q.state = "PAID"} = {q \in invoices : q.state = "PAID"}
  BY SweptRow DEF Swept, AfterExpire, Lapses, Row, States
<1> QED BY <1>1, <1>2, <1>3, <1>4 DEF SettledRequests

(* A table that evolves issues a request or settles one.                   *)
LEMMA EvolvedRequests ==
  ASSUME NEW T, TableOK(T), NEW U, Evolves(T, U)
  PROVE  \/ /\ \A state \in States : RequestsOf(U, state) = RequestsOf(T, state)
            /\ SettledRequests(U) = SettledRequests(T)
         \/ \E request \in Requests :
              /\ \A state \in States : request \notin RequestsOf(T, state)
              /\ RequestsOf(U, "PENDING") = RequestsOf(T, "PENDING") \cup {request}
              /\ RequestsOf(U, "EXPIRED") = RequestsOf(T, "EXPIRED")
              /\ SettledRequests(U) = SettledRequests(T)
         \/ \E paid \in Row :
              LET s == [network |-> paid.request.network, txid |-> paid.txid,
                        invoice_id |-> paid.request]
              IN  /\ paid.txid \in TxIds
                  /\ paid.request \in RequestsOf(T, "PENDING")
                  /\ \A e \in SettledRequests(T) : <<e.network, e.txid>> # <<s.network, s.txid>>
                  /\ RequestsOf(U, "PENDING") = RequestsOf(T, "PENDING") \ {paid.request}
                  /\ RequestsOf(U, "EXPIRED") = RequestsOf(T, "EXPIRED")
                  /\ SettledRequests(U) = SettledRequests(T) \cup {s}
<1>1. CASE U = T
  BY <1>1
<1>2. ASSUME NEW new \in Row, Inserts(T, new), U = T \cup {new}
      PROVE  \E request \in Requests :
               /\ \A state \in States : request \notin RequestsOf(T, state)
               /\ RequestsOf(U, "PENDING") = RequestsOf(T, "PENDING") \cup {request}
               /\ RequestsOf(U, "EXPIRED") = RequestsOf(T, "EXPIRED")
               /\ SettledRequests(U) = SettledRequests(T)
  <2>1. new.request \in Requests /\ new.state = "PENDING"
    BY <1>2 DEF Row, Inserts
  <2>2. \A state \in States : new.request \notin RequestsOf(T, state)
    BY <1>2 DEF Inserts, RequestsOf
  <2>3. /\ {q \in U : q.state = "PENDING"} = {q \in T : q.state = "PENDING"} \cup {new}
        /\ {q \in U : q.state = "EXPIRED"} = {q \in T : q.state = "EXPIRED"}
        /\ {q \in U : q.state = "PAID"} = {q \in T : q.state = "PAID"}
    BY <1>2, <2>1
  <2>4. /\ RequestsOf(U, "PENDING") = RequestsOf(T, "PENDING") \cup {new.request}
        /\ RequestsOf(U, "EXPIRED") = RequestsOf(T, "EXPIRED")
        /\ SettledRequests(U) = SettledRequests(T)
    BY <2>3 DEF RequestsOf, SettledRequests
  <2> QED BY <2>1, <2>2, <2>4
<1>3. ASSUME NEW old \in Row, NEW paid \in Row, Settles(T, old, paid),
             U = (T \ {old}) \cup {paid}
      PROVE  LET s == [network |-> paid.request.network, txid |-> paid.txid,
                       invoice_id |-> paid.request]
             IN  /\ paid.txid \in TxIds
                 /\ paid.request \in RequestsOf(T, "PENDING")
                 /\ \A e \in SettledRequests(T) : <<e.network, e.txid>> # <<s.network, s.txid>>
                 /\ RequestsOf(U, "PENDING") = RequestsOf(T, "PENDING") \ {paid.request}
                 /\ RequestsOf(U, "EXPIRED") = RequestsOf(T, "EXPIRED")
                 /\ SettledRequests(U) = SettledRequests(T) \cup {s}
  <2>1. /\ paid.request = old.request /\ old \in T
        /\ old.state = "PENDING" /\ paid.state = "PAID"
    BY <1>3 DEF Settles, Succeeds
  <2>2. paid.txid \in TxIds
    BY StoreConstants, <1>3, <2>1 DEF Settles, RecordValid, Row
  <2>3. \A q \in T : q.request = old.request => q = old
    BY <2>1 DEF TableOK, Identified
  <2>4. /\ {q \in U : q.state = "PENDING"} = {q \in T : q.state = "PENDING"} \ {old}
        /\ {q \in U : q.state = "EXPIRED"} = {q \in T : q.state = "EXPIRED"}
        /\ {q \in U : q.state = "PAID"} = {q \in T : q.state = "PAID"} \cup {paid}
    BY <1>3, <2>1
  <2>5. RequestsOf(U, "PENDING") = RequestsOf(T, "PENDING") \ {paid.request}
    BY <2>1, <2>3, <2>4 DEF RequestsOf
  <2>6. paid.request \in RequestsOf(T, "PENDING")
    BY <2>1 DEF RequestsOf
  <2>7. /\ RequestsOf(U, "EXPIRED") = RequestsOf(T, "EXPIRED")
        /\ SettledRequests(U) = SettledRequests(T) \cup
             {[network |-> paid.request.network, txid |-> paid.txid, invoice_id |-> paid.request]}
    BY <2>4 DEF RequestsOf, SettledRequests
  <2>8. \A e \in SettledRequests(T) : <<e.network, e.txid>> # <<paid.request.network, paid.txid>>
    BY <1>3 DEF Settles, SettledRequests
  <2> QED BY <2>2, <2>5, <2>6, <2>7, <2>8
<1> QED BY <1>1, <1>2, <1>3 DEF Evolves

(* A step of the store is one of the ledger as the bridge sees it.         *)
LEMMA StoreStepsLedger ==
  ASSUME SharedInvoices, StoreInv, [StoreNext]_storeVars, Joined, Joined'
  PROVE  [Billed!LedgerNext]_ledgerVars
<1>1. CASE invoices' = invoices
  BY <1>1 DEF Joined, RequestsOf, SettledRequests, ledgerVars
<1>2. CASE Evolves(Swept, invoices')
  <2>1. /\ LateRequests \in SUBSET pending
        /\ RequestsOf(Swept, "PENDING") = pending \ LateRequests
        /\ RequestsOf(Swept, "EXPIRED") = expired \cup LateRequests
        /\ SettledRequests(Swept) = spent
    BY SweptRequests DEF Joined
  <2>2. /\ pending' = RequestsOf(invoices', "PENDING")
        /\ expired' = RequestsOf(invoices', "EXPIRED")
        /\ spent' = SettledRequests(invoices')
    BY DEF Joined, RequestsOf, SettledRequests
  <2>3. TableOK(Swept)
    BY SweptTable DEF StoreInv
  <2>4. Billed!Paid = RequestsOf(Swept, "PAID")
    <3>1. Billed!Paid = {s.invoice_id : s \in SettledRequests(Swept)}
      BY <2>1 DEF Billed!Paid
    <3>2. \A r : [network |-> r.request.network, txid |-> r.txid,
                  invoice_id |-> r.request].invoice_id = r.request
      OBVIOUS
    <3> QED BY <3>1, <3>2 DEF RequestsOf, SettledRequests
  <2>5. ASSUME \A state \in States : RequestsOf(invoices', state) = RequestsOf(Swept, state),
               SettledRequests(invoices') = SettledRequests(Swept)
        PROVE  Billed!LedgerNext
    BY <2>1, <2>2, <2>5 DEF States, Billed!LedgerNext, Billed!Lapse
  <2>6. ASSUME NEW request \in Requests,
               \A state \in States : request \notin RequestsOf(Swept, state),
               RequestsOf(invoices', "PENDING") = RequestsOf(Swept, "PENDING") \cup {request},
               RequestsOf(invoices', "EXPIRED") = RequestsOf(Swept, "EXPIRED"),
               SettledRequests(invoices') = SettledRequests(Swept)
        PROVE  Billed!LedgerNext
    <3>1. request \notin pending \cup expired \cup Billed!Paid
      BY <2>1, <2>4, <2>6 DEF States
    <3>2. Billed!Issue(LateRequests, request)
      BY <2>1, <2>2, <2>6, <3>1 DEF Billed!Issue
    <3> QED BY <2>1, <3>2 DEF Billed!LedgerNext, SharedInvoices
  <2>7. ASSUME NEW paid \in Row, NEW s,
               s = [network |-> paid.request.network, txid |-> paid.txid,
                    invoice_id |-> paid.request],
               paid.txid \in TxIds, paid.request \in RequestsOf(Swept, "PENDING"),
               \A e \in SettledRequests(Swept) : <<e.network, e.txid>> # <<s.network, s.txid>>,
               RequestsOf(invoices', "PENDING") = RequestsOf(Swept, "PENDING") \ {paid.request},
               RequestsOf(invoices', "EXPIRED") = RequestsOf(Swept, "EXPIRED"),
               SettledRequests(invoices') = SettledRequests(Swept) \cup {s}
        PROVE  Billed!LedgerNext
    <3>1. paid.request \in Requests /\ paid.request.network \in Networks
      BY StoreConstants DEF Row, Request
    <3>2. s \in Billed!Settlement
      BY <2>7, <3>1 DEF Billed!Settlement, SharedInvoices
    <3>3. Billed!Settle(LateRequests, s)
      BY <2>1, <2>2, <2>7 DEF Billed!Settle
    <3> QED BY <2>1, <3>2, <3>3 DEF Billed!LedgerNext
  <2> QED BY <1>2, <2>3, <2>5, <2>6, <2>7, EvolvedRequests
<1> QED BY <1>1, <1>2, StepOutcome DEF Outcome

(* What the bridge assumes of the ledger of invoices, the billing service  *)
(* does, whatever its processes, clock, wallets and crashes do: the bridge *)
(* may be studied over the ledger alone.                                   *)
THEOREM BillingDrivesLedger ==
  ASSUME SharedInvoices
  PROVE  BillingSpec /\ []Joined => Billed!LedgerSpec
<1>1. BillingInit /\ Joined => Billed!LedgerInit
  BY DEF BillingInit, StoreInit, Joined, RequestsOf, SettledRequests, Billed!LedgerInit
<1>2. StoreInv /\ [StoreNext]_storeVars /\ Joined /\ Joined' => [Billed!LedgerNext]_(Billed!ledgerVars)
  BY StoreStepsLedger DEF ledgerVars, Billed!ledgerVars
<1>3. BillingSpec => [][StoreNext]_storeVars /\ []StoreInv
  BY BillingImplementsStore, StoreInvariant, PTL DEF StoreSpec
<1>4. BillingSpec => BillingInit
  BY DEF BillingSpec
<1> QED BY <1>1, <1>2, <1>3, <1>4, PTL DEF Billed!LedgerSpec

(* In turns, the service and the bridge are such a system.                 *)
THEOREM InterleavingsCompose ==
  ASSUME SharedInvoices
  PROVE  InterleavedSpec => System
<1>1. BillingInit /\ BridgeInit => Joined
  BY DEF BillingInit, StoreInit, BridgeInit, Billed!LedgerInit, Joined, RequestsOf,
         SettledRequests
<1>2. Joined /\ [InterleavedNext]_<<billingVars, bridgeVars>> => Joined' /\ [BillingNext]_billingVars
  <2> SUFFICES ASSUME Joined, [InterleavedNext]_<<billingVars, bridgeVars>>
               PROVE  Joined' /\ [BillingNext]_billingVars
    OBVIOUS
  <2>1. CASE BillingNext /\ Joined'
    BY <2>1
  <2>2. ASSUME UNCHANGED billingVars, UNCHANGED ledgerVars
        PROVE  Joined'
    BY <2>2 DEF Joined, RequestsOf, SettledRequests, billingVars, ledgerVars
  <2>3. CASE BridgeRuns /\ UNCHANGED billingVars
    <3>1. UNCHANGED ledgerVars
      BY <2>3 DEF BridgeRuns, BeginRecord, NativeVerified, Recheck, RecordEvidence,
                  RecordingInterrupted, ImportStep
    <3> QED BY <2>2, <2>3, <3>1
  <2>4. CASE UNCHANGED <<billingVars, bridgeVars>>
    BY <2>2, <2>4 DEF bridgeVars
  <2> QED BY <2>1, <2>3, <2>4 DEF InterleavedNext
<1>3. ServiceInv /\ Joined /\ [InterleavedNext]_<<billingVars, bridgeVars>> => [BridgeNext]_bridgeVars
  <2> SUFFICES ASSUME ServiceInv, Joined, [InterleavedNext]_<<billingVars, bridgeVars>>
               PROVE  [BridgeNext]_bridgeVars
    OBVIOUS
  <2>1. CASE BillingNext /\ Joined' /\ UNCHANGED <<reputationVars, bridge, inserted>>
    <3>1. [StoreNext]_storeVars /\ StoreInv
      BY <2>1, ServiceStepsStore DEF ServiceInv
    <3>2. [Billed!LedgerNext]_ledgerVars
      BY <2>1, <3>1, StoreStepsLedger
    <3> QED BY <2>1, <3>2 DEF BridgeNext, LedgerStep, bridgeVars
  <2>2. CASE BridgeRuns
    BY <2>2 DEF BridgeRuns, BridgeNext
  <2>3. CASE UNCHANGED <<billingVars, bridgeVars>>
    BY <2>3 DEF bridgeVars
  <2> QED BY <2>1, <2>2, <2>3 DEF InterleavedNext
<1> QED BY <1>1, <1>2, <1>3, ServiceInvariant, PTL
        DEF InterleavedSpec, System, BillingSpec, BridgeSpec

-----------------------------------------------------------------------------

(* A settlement e is the paid invoice r: a wallet saw its transaction pay  *)
(* that amount to the address, as deep as required, and both the machine's *)
(* key and the wallet's spend key bound the address to the machine.        *)
Buried(e, r) ==
  /\ r.state = "PAID" /\ r.request = e.invoice /\ r.txid = e.txid
  /\ r.request.network = e.network
  /\ Pays[e.network][e.txid] =
       [address |-> BindingTerms[e.binding].address, amount |-> r.request.amount_atomic]
  /\ depth[e.network][e.txid] >= r.required_confirmations
  /\ BindingTerms[e.binding].machine = e.subject
  /\ BindingTerms[e.binding].identity_signed /\ BindingTerms[e.binding].wallet_signature = "spend"

(* Every settlement counted as evidence is one paid invoice, and no other  *)
(* invoice was paid by its transaction.                                    *)
CountedIsBuried ==
  \A s \in Stores : \A e \in settlements[s] :
     \E r \in invoices :
        /\ Buried(e, r)
        /\ \A q \in invoices :
             q.state = "PAID" /\ q.request.network = e.network /\ q.txid = e.txid => q = r

(* From the chain to the evidence that reputation rests on, across two     *)
(* databases that share no transaction: no race of verifications, clocks,  *)
(* crashes, reorganisations or recordings counts a payment that was not    *)
(* made, or that paid for something else.                                  *)
THEOREM CountedPaymentsAreReal ==
  ASSUME SharedInvoices
  PROVE  System => []CountedIsBuried
<1>1. Joined /\ StoreInv /\ PaidIsBacked /\ TransactionConsumedOnce /\ EvidenceBacked
      => CountedIsBuried
  <2> SUFFICES ASSUME Joined, StoreInv, PaidIsBacked, TransactionConsumedOnce, EvidenceBacked,
                      NEW s \in Stores, NEW e \in settlements[s]
               PROVE  \E r \in invoices :
                        /\ Buried(e, r)
                        /\ \A q \in invoices :
                             /\ q.state = "PAID" /\ q.request.network = e.network
                             /\ q.txid = e.txid
                             => q = r
    BY DEF CountedIsBuried
  <2>1. [network |-> e.network, txid |-> e.txid, invoice_id |-> e.invoice] \in spent
    BY DEF EvidenceBacked
  <2>2. PICK r \in invoices :
          /\ r.state = "PAID" /\ r.request = e.invoice /\ r.txid = e.txid
          /\ r.request.network = e.network
    BY <2>1 DEF Joined, SettledRequests
  <2>s. BindingTerms[e.binding] =
          [address |-> Recipient[e.invoice], network |-> e.network, machine |-> e.subject,
           identity_signed |-> TRUE, wallet_signature |-> "spend"]
    BY DEF EvidenceBacked
  <2>3. /\ BindingTerms[e.binding].address = Recipient[e.invoice]
        /\ BindingTerms[e.binding].machine = e.subject
        /\ BindingTerms[e.binding].identity_signed
        /\ BindingTerms[e.binding].wallet_signature = "spend"
    BY <2>s
  <2>4. r.request \in Requests
    BY DEF StoreInv, TableOK, Row
  <2>5. Recipient[e.invoice] = r.request.recipient_address
    BY <2>2, <2>4 DEF SharedInvoices
  <2>6. Buried(e, r)
    BY <2>2, <2>3, <2>5 DEF Buried, PaidIsBacked
  <2> QED BY <2>2, <2>6 DEF TransactionConsumedOnce
<1>2. BillingSpec => []StoreInv
  BY BillingImplementsStore, StoreInvariant, PTL
<1> QED BY <1>1, <1>2, PaymentsBackInvoices, BillingConsumesOnce, CountedIsPaid, PTL DEF System

(* Under a policy that requires settlement every accepted opinion of every *)
(* evaluator names such a payment to the machine that it is about.         *)
AcceptedIsBuried ==
  \A s \in Stores, n \in Networks, m \in Machines, p \in Policies, t \in Dates :
    p.require_settlement =>
      \A a \in Accepted(s, n, m, p, t) :
        \E r \in invoices :
          Buried(a.evidence, r) /\ a.evidence.subject = m /\ r.request.network = n

(* Opinions that need a settlement rest on transactions that wallets saw.  *)
THEOREM OpinionsRestOnPayments ==
  ASSUME SharedInvoices
  PROVE  System => []AcceptedIsBuried
<1>1. CountedIsBuried /\ AcceptedIsPaid => AcceptedIsBuried
  <2> SUFFICES ASSUME CountedIsBuried, AcceptedIsPaid,
                      NEW s \in Stores, NEW n \in Networks, NEW m \in Machines,
                      NEW p \in Policies, NEW t \in Dates, p.require_settlement,
                      NEW a \in Accepted(s, n, m, p, t)
               PROVE  \E r \in invoices :
                        /\ Buried(a.evidence, r) /\ a.evidence.subject = m
                        /\ r.request.network = n
    BY DEF AcceptedIsBuried
  <2>1. a.evidence \in settlements[s] /\ a.evidence.subject = m /\ a.evidence.network = n
    BY DEF AcceptedIsPaid, Observed
  <2>2. PICK r \in invoices : Buried(a.evidence, r)
    BY <2>1 DEF CountedIsBuried
  <2> QED BY <2>1, <2>2 DEF Buried
<1> QED BY <1>1, CountedPaymentsAreReal, OpinionsArePaid, PTL DEF System

(* The same behind HTTP, however clients repeat and give up requests.      *)
THEOREM HttpPaymentsAreReal ==
  ASSUME SharedInvoices
  PROVE  HttpSpec /\ BridgeSpec /\ []Joined => []CountedIsBuried /\ []AcceptedIsBuried
<1>1. HttpSpec /\ BridgeSpec /\ []Joined => System
  BY HttpImplementsBilling, PTL DEF System
<1> QED BY <1>1, CountedPaymentsAreReal, OpinionsRestOnPayments, PTL
=============================================================================
