---------------------------- MODULE SettlementBridge ----------------------------
(***************************************************************************)
(* record_verified_settlement: turns a paid invoice of the billing         *)
(* database into an observation of the reputation database.  The two       *)
(* databases share no transaction; between the first look at the invoice   *)
(* and the recording the wallet verifies binding and proof anew, other     *)
(* processes run, and the call may die.                                    *)
(*                                                                         *)
(* The billing side is the ledger, which the invoice store implements.     *)
(***************************************************************************)
EXTENDS ReputationStore, Sequences

CONSTANTS Recorders,      \* processes that run record_verified_settlement
          Recipient,      \* [Invoices -> Addresses]: whom the request of an invoice pays
          BindingTerms,   \* [Bindings -> what it says, and what its signatures are]
          AddressFacts,   \* [Addresses -> what a wallet says of it on any network]
          WalletNetwork,  \* the network of the wallet that verifies
          NoRecord

VARIABLES pending, expired, spent,   \* the ledger
          bridge,                    \* [Recorders -> the call it runs]
          inserted                   \* history: recordings answered "inserted"

Billed == INSTANCE InvoiceLedger WITH InvoiceIds <- Invoices

ledgerVars == <<pending, expired, spent>>
bridgeVars == <<reputationVars, ledgerVars, bridge, inserted>>

(* A binding may be forged, or signed by a wallet in another way than as a  *)
(* version 2 spend signature.                                              *)
Binding == [address : Addresses, network : Networks, machine : Machines,
            identity_signed : BOOLEAN,
            wallet_signature : {"none", "spend", "view", "spend_v1"}]

ASSUME BridgeConstants ==
  /\ Recipient \in [Invoices -> Addresses]
  /\ BindingTerms \in [Bindings -> Binding]
  /\ AddressFacts \in [Addresses -> [network : Networks, valid : BOOLEAN,
                                    type : {"standard", "subaddress", "integrated"}]]
  /\ WalletNetwork \in Networks
  /\ NoRecord \notin Billed!Settlement

NoRecording == [at |-> "idle", store |-> NoRecord, record |-> NoRecord, binding |-> NoRecord]

(***************************************************************************)
(* AddressBindingService.verify                                            *)
(***************************************************************************)
BindingValidAnySignature(b) ==                                      \* mutant
  LET binding == BindingTerms[b]
      facts   == AddressFacts[binding.address]
  IN  /\ facts.valid /\ facts.type # "integrated"
      /\ facts.network = binding.network
      /\ binding.identity_signed
      /\ binding.wallet_signature # "none"

(* binding_valid: an address of the claimed network that can be bound, and *)
(* the signatures of the machine and, as a version 2 spend signature, of   *)
(* the wallet that owns it.                                                *)
BindingValid(b) ==
  LET binding == BindingTerms[b]
      facts   == AddressFacts[binding.address]
  IN  /\ facts.valid /\ facts.type # "integrated"
      /\ facts.network = binding.network
      /\ binding.identity_signed
      /\ binding.wallet_signature = "spend"

(* A wallet opened on another network than the address's cannot verify:    *)
(* the call raises, and so does the verification of the payment.           *)
WalletVerifies(call) ==
  /\ BindingValid(call.binding)
  /\ WalletNetwork = call.record.network

Owns(b, n, i) == BindingTerms[b].address = Recipient[i] /\ BindingTerms[b].network = n

(* The invoice is PAID here and on the caller's network, the binding is of *)
(* its recipient and the expected machine, which signed it, and the proof  *)
(* names the transaction that paid it.                                     *)
BeginRecord(c, s, rec, b) ==
  /\ bridge[c] = NoRecording
  /\ rec \in spent
  /\ Owns(b, rec.network, rec.invoice_id) /\ BindingTerms[b].identity_signed
  /\ bridge' = [bridge EXCEPT ![c] = [at |-> "verify", store |-> s, record |-> rec,
                                        binding |-> b]]
  /\ UNCHANGED <<reputationVars, ledgerVars, inserted>>

(* The binding is valid, and WalletPaymentVerifier.verify answered that    *)
(* the payment is; any other answer ends the call.                         *)
NativeVerified(c) ==
  /\ bridge[c].at = "verify" /\ WalletVerifies(bridge[c])
  /\ bridge' = [bridge EXCEPT ![c].at = "recheck"]
  /\ UNCHANGED <<reputationVars, ledgerVars, inserted>>

(* The invoice is read again and must not have changed.                    *)
Recheck(c) ==
  /\ bridge[c].at = "recheck"
  /\ bridge[c].record \in spent
  /\ bridge' = [bridge EXCEPT ![c].at = "record"]
  /\ UNCHANGED <<reputationVars, ledgerVars, inserted>>

Evidence(call) ==
  [network |-> call.record.network, subject |-> BindingTerms[call.binding].machine,
   txid |-> call.record.txid, invoice |-> call.record.invoice_id, binding |-> call.binding]

RecordEvidenceForgetful(c) ==                                       \* mutant
  LET call == bridge[c]
      e    == Evidence(call)
  IN  /\ call.at = "record"
      /\ Record(call.store, e)
      /\ inserted' = IF e \in settlements'[call.store]
                     THEN Append(inserted, <<call.store, e>>) ELSE inserted
      /\ bridge' = [bridge EXCEPT ![c] = NoRecording]
      /\ UNCHANGED ledgerVars

(* The store answers whether it inserted the evidence, found it, or        *)
(* refused it; the answer may be lost.                                     *)
RecordEvidence(c) ==
  LET call == bridge[c]
      e    == Evidence(call)
  IN  /\ call.at = "record"
      /\ Record(call.store, e)
      /\ \/ inserted' = IF Recordable(call.store, e)
                        THEN Append(inserted, <<call.store, e>>) ELSE inserted
         \/ UNCHANGED inserted
      /\ bridge' = [bridge EXCEPT ![c] = NoRecording]
      /\ UNCHANGED ledgerVars

RecordingInterrupted(c) ==
  /\ bridge[c] # NoRecording
  /\ bridge' = [bridge EXCEPT ![c] = NoRecording]
  /\ UNCHANGED <<reputationVars, ledgerVars, inserted>>

LedgerStep == Billed!LedgerNext /\ UNCHANGED <<reputationVars, bridge, inserted>>

(* Meanwhile artifacts are imported, and take up the same capacity.        *)
ImportStep(s, a) ==
  /\ \E n \in Networks : Import(s, a, n)
  /\ UNCHANGED <<ledgerVars, bridge, inserted>>

BridgeInit ==
  /\ ReputationInit /\ Billed!LedgerInit
  /\ bridge = [c \in Recorders |-> NoRecording]
  /\ inserted = <<>>

BridgeNext ==
  \/ \E c \in Recorders :
       \/ \E s \in Stores, rec \in spent, b \in Bindings : BeginRecord(c, s, rec, b)
       \/ NativeVerified(c) \/ Recheck(c) \/ RecordEvidence(c) \/ RecordingInterrupted(c)
  \/ LedgerStep
  \/ \E s \in Stores, a \in Artifacts : ImportStep(s, a)

BridgeSpec == BridgeInit /\ [][BridgeNext]_bridgeVars

(***************************************************************************)
(* Properties                                                              *)
(***************************************************************************)

(* Every settlement that a reputation store counts is, for good, a paid    *)
(* invoice of the billing database, paid by that very transaction to an    *)
(* address of that network which machine and wallet both signed to be the  *)
(* subject's.                                                              *)
EvidenceBacked ==
  \A s \in Stores : \A e \in settlements[s] :
     /\ [network |-> e.network, txid |-> e.txid, invoice_id |-> e.invoice] \in spent
     /\ BindingTerms[e.binding] =
          [address |-> Recipient[e.invoice], network |-> e.network, machine |-> e.subject,
           identity_signed |-> TRUE, wallet_signature |-> "spend"]
     /\ AddressFacts[Recipient[e.invoice]].network = e.network

(* However often a settlement is recorded, by however many processes and   *)
(* for however many machines that bind the address, one call at most is    *)
(* told that it inserted it.                                               *)
InsertedOnce ==
  \A i, j \in DOMAIN inserted :
     /\ inserted[i][1] = inserted[j][1]
     /\ inserted[i][2].network = inserted[j][2].network
     /\ inserted[i][2].txid = inserted[j][2].txid
     => i = j
=============================================================================
