------------------------------- MODULE Billing -------------------------------
(***************************************************************************)
(* BillingService and WalletPaymentVerifier on top of the invoice store.   *)
(* Each process runs one call of the service at a time.  A call is several *)
(* steps: transactions of the store and RPCs of a wallet that only reads;  *)
(* between two of them other processes run, the clock moves, blocks are    *)
(* mined, and the call may end there (an RPC error, a timeout, a locked or *)
(* full database, the death of the process).                               *)
(***************************************************************************)
EXTENDS InvoiceStore

CONSTANTS ServiceNetwork,  \* [Processes -> Networks]: the network a service is configured for
          TermsOf,         \* [Fingerprints -> creation parameters]; the digest has no collisions
          GeneratedId,     \* invoice_id |-> None in the parameters: a UUID is drawn
          Pays,            \* [Networks -> [TxIds -> what the transaction pays, and to whom]]
          ValidAddresses,  \* what the wallet accepts as recipient of its network
          NoRequest, NoObservation

ASSUME BillingConstants ==
  /\ ServiceNetwork \in [Processes -> Networks]
  /\ GeneratedId \notin InvoiceIds
  /\ TermsOf \in [Fingerprints ->
        [network : Networks, recipient_address : Addresses, amount_atomic : Amounts,
         expires_in : Nat \ {0}, invoice_id : InvoiceIds \cup {GeneratedId},
         required_confirmations : 1..MaxConfirmations]]
  /\ Pays \in [Networks -> [TxIds -> [address : Addresses, amount : Amounts]]]
  /\ ValidAddresses \subseteq Addresses
  /\ NoRequest \notin Requests /\ NoObservation \notin Observation

Reasons == {"none", "wrong_recipient", "wrong_request", "invalid_recipient", "invalid_proof",
            "wrong_amount", "awaiting_confirmations", "confirmed"}

Call == [at : {"idle", "validate", "create", "verify", "finalize", "reread", "reply"},
         op : {"none", "create", "verify", "read", "require"},
         key : Keys \cup {NoKey}, print : Fingerprints \cup {NoKey},
         request : Requests \cup {NoRequest},
         obs : Observation \cup {NoObservation}, reason : Reasons]

VARIABLES call,     \* [Processes -> the call it runs and its local variables]
          depth,    \* [Networks -> [TxIds -> confirmations the chain has ever shown]]
          told,     \* history: the final states that callers were given
          issued    \* history: the invoices that creations returned, with their key

billingVars == <<invoices, now, answer, call, depth, told, issued>>

Idle == [at |-> "idle", op |-> "none", key |-> NoKey, print |-> NoKey,
         request |-> NoRequest, obs |-> NoObservation, reason |-> "none"]

Statement == [invoice_id : InvoiceIds, state : {"PAID", "EXPIRED"}, txid : TxIds \cup {NoTx}]
Issue == [key : Keys \cup {NoKey}, print : Fingerprints, invoice_id : InvoiceIds]

Goto(c, place) == call' = [call EXCEPT ![c].at = place]
World == <<depth, told, issued>>

(* create_payment_request *)
RequestFor(print, i, t) ==
  [invoice_id |-> i, network |-> TermsOf[print].network,
   recipient_address |-> TermsOf[print].recipient_address,
   amount_atomic |-> TermsOf[print].amount_atomic,
   created_at |-> t, expires_at |-> t + TermsOf[print].expires_in]

IdsFor(print) == IF TermsOf[print].invoice_id = GeneratedId THEN InvoiceIds
                 ELSE {TermsOf[print].invoice_id}

(* The requests that this service can build are among those of the store.  *)
ASSUME BuildableRequests ==
  \A print \in Fingerprints, i \in InvoiceIds, t \in Times :
     RequestFor(print, i, t).expires_at <= MaxTime => RequestFor(print, i, t) \in Requests

(***************************************************************************)
(* create_invoice                                                          *)
(***************************************************************************)

BeginCreateUnbounded(c, print, key, i) ==                          \* mutant
  /\ call[c] = Idle
  /\ TermsOf[print].network = ServiceNetwork[c]
  /\ i \in IdsFor(print)
  /\ call' = [call EXCEPT ![c] = [Idle EXCEPT !.at = "validate", !.op = "create", !.key = key,
                                    !.print = print, !.request = RequestFor(print, i, now)]]
  /\ UNCHANGED <<storeVars, World>>

(* The clock is read, and the request built, before the wallet is asked.   *)
(* A request that would outlive MAX_TIMESTAMP is refused at once.          *)
BeginCreate(c, print, key, i) ==
  /\ call[c] = Idle
  /\ TermsOf[print].network = ServiceNetwork[c]
  /\ i \in IdsFor(print)
  /\ RequestFor(print, i, now).expires_at <= MaxTime
  /\ call' = [call EXCEPT ![c] = [Idle EXCEPT !.at = "validate", !.op = "create", !.key = key,
                                    !.print = print, !.request = RequestFor(print, i, now)]]
  /\ UNCHANGED <<storeVars, World>>

(* validate_request: an RPC.  An invalid recipient raises InputError.      *)
ValidateRecipient(c) ==
  /\ call[c].at = "validate"
  /\ \/ /\ call[c].request.recipient_address \in ValidAddresses
        /\ Goto(c, "create")
     \/ /\ call[c].request.recipient_address \notin ValidAddresses
        /\ call' = [call EXCEPT ![c] = Idle]
  /\ UNCHANGED <<storeVars, World>>

StoreInvoice(c) ==
  /\ call[c].at = "create"
  /\ Create(c, call[c].request, TermsOf[call[c].print].required_confirmations,
            call[c].key, call[c].print)
  /\ Goto(c, "reply")
  /\ UNCHANGED World

(***************************************************************************)
(* verify_invoice                                                          *)
(***************************************************************************)

BeginVerify(c, i) ==
  /\ call[c] = Idle
  /\ Get(c, i)
  /\ call' = [call EXCEPT ![c] = [Idle EXCEPT !.at = "verify", !.op = "verify"]]
  /\ UNCHANGED World

(* The rows of the answer that get_invoice lets through: those of the      *)
(* network of the service (any other raises ConfigurationError).           *)
Visible(c) == {r \in answer[c].rows : r.request.network = ServiceNetwork[c]}

(* _prepare_invoice_proof and WalletPaymentVerifier.verify: what the       *)
(* verifier says of a proof.  A proof names a transaction, an address and  *)
(* the request it was made for; the wallet says whether it is sound, what  *)
(* the transaction paid to the address, and how deep it is now (0 in the   *)
(* pool), which after a reorganisation is less than it once was.           *)
VerdictAnyRecipient(n, request, required, proof, confirmations) == \* mutant
  IF proof.message # request THEN "wrong_request"
  ELSE IF ~proof.sound THEN "invalid_proof"
  ELSE IF Pays[n][proof.txid].address # proof.address
          \/ Pays[n][proof.txid].amount # request.amount_atomic THEN "wrong_amount"
  ELSE IF confirmations = 0 \/ confirmations < required THEN "awaiting_confirmations"
  ELSE "confirmed"

Verdict(n, request, required, proof, confirmations) ==
  CASE proof.address # request.recipient_address -> "wrong_recipient"
    [] proof.address = request.recipient_address /\ proof.message # request -> "wrong_request"
    [] OTHER ->
       IF request.recipient_address \notin ValidAddresses THEN "invalid_recipient"
       ELSE IF ~proof.sound THEN "invalid_proof"
       ELSE IF Pays[n][proof.txid].address # proof.address
               \/ Pays[n][proof.txid].amount # request.amount_atomic THEN "wrong_amount"
       ELSE IF confirmations = 0 \/ confirmations < required THEN "awaiting_confirmations"
       ELSE "confirmed"

Proof == [txid : TxIds, address : Addresses, message : Requests, sound : BOOLEAN]

(* The verifier's answer is held while the call goes back to the store.    *)
Observe(c) ==
  LET n == ServiceNetwork[c]
  IN  /\ call[c].at = "verify"
      /\ \E r \in Visible(c), proof \in Proof, confirmations \in 0..MaxConfirmations :
           LET verdict == Verdict(n, r.request, r.required_confirmations, proof, confirmations)
           IN  /\ r.state = "PENDING"
               /\ confirmations <= depth[n][proof.txid]
               /\ \/ /\ verdict = "confirmed"
                     /\ call' = [call EXCEPT ![c].at = "finalize", ![c].request = r.request,
                                   ![c].reason = verdict,
                                   ![c].obs = [eligible |-> TRUE, txid |-> proof.txid,
                                               request_message |-> proof.message,
                                               received_atomic |-> Pays[n][proof.txid].amount,
                                               confirmations |-> confirmations]]
                  \/ /\ verdict # "confirmed"
                     /\ call' = [call EXCEPT ![c].at = "reread", ![c].request = r.request,
                                   ![c].reason = verdict]
      /\ PickUp(c)
      /\ UNCHANGED World

FinalizeObservation(c) ==
  /\ call[c].at = "finalize"
  /\ Finalize(c, call[c].request, call[c].obs)
  /\ Goto(c, "reply")
  /\ UNCHANGED World

Reread(c) ==
  /\ call[c].at = "reread"
  /\ Get(c, call[c].request.invoice_id)
  /\ Goto(c, "reply")
  /\ UNCHANGED World

(***************************************************************************)
(* get_invoice, invoice_status, require_paid, list_invoices, store.expire  *)
(***************************************************************************)

BeginRead(c, i, op) ==
  /\ call[c] = Idle
  /\ Get(c, i)
  /\ call' = [call EXCEPT ![c] = [Idle EXCEPT !.at = "reply", !.op = op]]
  /\ UNCHANGED World

ListInvoices(c, after, limit) ==
  /\ call[c] = Idle
  /\ List(c, ServiceNetwork[c], after, limit)
  /\ call' = [call EXCEPT ![c] = [Idle EXCEPT !.at = "reply", !.op = "read"]]
  /\ UNCHANGED World

ExpireInvoices(c) ==
  /\ call[c] = Idle
  /\ Expire(c)
  /\ call' = [call EXCEPT ![c] = [Idle EXCEPT !.at = "reply", !.op = "read"]]
  /\ UNCHANGED World

(***************************************************************************)
(* How a call ends                                                         *)
(***************************************************************************)

(* What a call gives its caller: the rows it was shown; require_paid shows *)
(* a paid one or raises InvoiceNotPaid.                                    *)
Shown(c) == {r \in Visible(c) : call[c].op = "require" => r.state = "PAID"}

(* verify_invoice's reason. *)
ReasonOfObservation(c) ==                                          \* mutant
  IF call[c].reason = "none" THEN "already_paid" ELSE call[c].reason
Reason(c) ==
  IF \E r \in Visible(c) : r.state = "EXPIRED" THEN "expired"
  ELSE IF call[c].reason = "none" THEN "already_paid" ELSE call[c].reason

Finished(c) ==
  \/ call[c].at = "reply"
  \/ call[c].at = "verify" /\ \A r \in Visible(c) : r.state # "PENDING"

Reply(c) ==
  /\ Finished(c)
  /\ told' = told \cup {[invoice_id |-> r.request.invoice_id, state |-> r.state, txid |-> r.txid]
                          : r \in {q \in Shown(c) : q.state # "PENDING"}}
  /\ issued' = IF call[c].op = "create"
               THEN issued \cup {[key |-> call[c].key, print |-> call[c].print,
                                  invoice_id |-> r.request.invoice_id] : r \in Shown(c)}
               ELSE issued
  /\ call' = [call EXCEPT ![c] = Idle]
  /\ PickUp(c)
  /\ UNCHANGED depth

(* The call ends with an exception or the process dies: the RPC fails or   *)
(* times out, the store raises, or the answer never reaches the caller.    *)
(* Nothing retries; whoever called may call again.                         *)
Interrupted(c) ==
  /\ call[c] # Idle
  /\ call' = [call EXCEPT ![c] = Idle]
  /\ answer' = [answer EXCEPT ![c] = Nothing]
  /\ UNCHANGED <<invoices, now, World>>

-----------------------------------------------------------------------------

(* A block on top of the transaction: external. *)
Mine(n, t) ==
  /\ depth[n][t] < MaxConfirmations
  /\ depth' = [depth EXCEPT ![n][t] = @ + 1]
  /\ UNCHANGED <<storeVars, call, told, issued>>

ClockStep(t) == ClockMoves(t) /\ UNCHANGED <<call, World>>

BillingInit ==
  /\ StoreInit
  /\ call = [c \in Processes |-> Idle]
  /\ depth = [n \in Networks |-> [t \in TxIds |-> 0]]
  /\ told = {} /\ issued = {}

CreateSteps(c) ==
  \/ \E print \in Fingerprints, key \in Keys \cup {NoKey}, i \in InvoiceIds :
       BeginCreate(c, print, key, i)
  \/ ValidateRecipient(c)
  \/ StoreInvoice(c)

VerifySteps(c) ==
  \/ \E i \in InvoiceIds : BeginVerify(c, i)
  \/ Observe(c)
  \/ FinalizeObservation(c)
  \/ Reread(c)

ReadSteps(c) ==
  \/ \E i \in InvoiceIds, op \in {"read", "require"} : BeginRead(c, i, op)
  \/ \E after \in InvoiceIds \cup {0}, limit \in PageSizes : ListInvoices(c, after, limit)
  \/ ExpireInvoices(c)

BillingNext ==
  \/ \E c \in Processes :
       CreateSteps(c) \/ VerifySteps(c) \/ ReadSteps(c) \/ Reply(c) \/ Interrupted(c)
  \/ \E n \in Networks, t \in TxIds : Mine(n, t)
  \/ \E t \in Times : ClockStep(t)

BillingSpec == BillingInit /\ [][BillingNext]_billingVars

(***************************************************************************)
(* Properties                                                              *)
(***************************************************************************)

(* Every variable has its type.                                            *)
BillingTypeOK ==
  /\ StoreTypeOK
  /\ call \in [Processes -> Call]
  /\ depth \in [Networks -> [TxIds -> 0..MaxConfirmations]]
  /\ told \subseteq Statement
  /\ issued \subseteq Issue

(* A paid invoice rests on a payment of its own: a transaction of its      *)
(* network that pays exactly its amount to its recipient and that the      *)
(* chain once buried as deep as the invoice required, however many calls,  *)
(* proofs for other requests and clock changes came in between.            *)
PaidIsBacked ==
  \A r \in invoices : r.state = "PAID" =>
     /\ Pays[r.request.network][r.txid] =
          [address |-> r.request.recipient_address, amount |-> r.request.amount_atomic]
     /\ depth[r.request.network][r.txid] >= r.required_confirmations

(* What a caller was told stays true: an invoice reported paid stays paid  *)
(* by the same transaction, and one reported expired is never paid, though *)
(* the caller was answered after the transaction had committed and the     *)
(* clock may have gone back since.                                         *)
AnswersStand ==
  \A s \in told : \E r \in invoices :
     r.request.invoice_id = s.invoice_id /\ r.state = s.state /\ r.txid = s.txid

(* A creation retried with its idempotency key, after a lost answer or at  *)
(* the same time as the first, is given the same invoice; one with other   *)
(* terms is never given it (docs/invoices.md:90-91).  When the table is    *)
(* full that stays so: a creation is refused for want of room only if no   *)
(* invoice has its key, and none gets it while it is being told so.        *)
OneInvoicePerKey ==
  /\ \A a, b \in issued : a.key = b.key /\ a.key # NoKey => a = b
  /\ \A c \in Processes :
       /\ call[c].at = "reply" /\ call[c].op = "create" /\ call[c].key # NoKey
       /\ answer[c].outcome = "invoice_storage_error"
       => ~\E r \in invoices : r.idempotency_key = call[c].key

(* verify_invoice answers with the reason of an observation and the record *)
(* of a later transaction: "confirmed" and "already_paid" come only with a *)
(* paid invoice, "expired" only with an expired one, whoever won the race. *)
ReasonAgrees ==
  \A c \in Processes : Finished(c) /\ call[c].op = "verify" =>
     \A r \in Visible(c) :
        /\ Reason(c) \in {"confirmed", "already_paid"} => r.state = "PAID"
        /\ Reason(c) = "expired" <=> r.state = "EXPIRED"
=============================================================================
