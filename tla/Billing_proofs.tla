--------------------------- MODULE Billing_proofs ----------------------------
(***************************************************************************)
(* Proofs about the billing service, for any number of processes, invoices,*)
(* networks, transactions and keys.  First: every step of the service is a *)
(* step of the database or leaves it alone, so all that is proved of the   *)
(* database holds of it while services share it.  Then: what the service   *)
(* adds, which is about what a call holds while others run.                *)
(***************************************************************************)
EXTENDS Billing, InvoiceStore_proofs, FiniteSetTheorems

CallTypes ==
  /\ call \in [Processes -> Call]
  /\ depth \in [Networks -> [TxIds -> 0..MaxConfirmations]]
  /\ told \subseteq Statement
  /\ issued \subseteq Issue

(* A process whose call has not reached a transaction, or has gone past    *)
(* it, holds no answer; in the first steps of a call it holds a request.   *)
Waiting(c) == call[c].at \notin {"verify", "reply"}
AnswersPickedUp == \A c \in Processes : Waiting(c) => answer[c] = Nothing
CallsHold ==
  \A c \in Processes :
     /\ call[c].at \in {"validate", "create"} =>
          call[c].request \in Requests /\ call[c].print \in Fingerprints
     /\ call[c].op = "create" => call[c].print \in Fingerprints
     /\ call[c].at \in {"finalize", "reread"} =>
          call[c].request \in Requests /\ call[c].op = "verify"
     /\ call[c].at = "verify" => call[c].op = "verify"

(* The observation that a process brings to _finalize is of a payment of   *)
(* the request it holds, at a depth that the chain has shown.              *)
SoundObservation(c) ==
  LET n == ServiceNetwork[c]
      request == call[c].request
      obs == call[c].obs
  IN  /\ obs \in Observation /\ obs.eligible /\ obs.request_message = request
      /\ request.network = n
      /\ Pays[n][obs.txid] = [address |-> request.recipient_address,
                              amount |-> request.amount_atomic]
      /\ obs.confirmations <= depth[n][obs.txid]
ObservationsSound == \A c \in Processes : call[c].at = "finalize" => SoundObservation(c)

ServiceInv == StoreInv /\ CallTypes /\ AnswersPickedUp /\ CallsHold /\ ObservationsSound

-----------------------------------------------------------------------------

(* What the invariant says of one process.                                 *)
Local(c) ==
  /\ Waiting(c) => answer[c] = Nothing
  /\ call[c].at \in {"validate", "create"} =>
       call[c].request \in Requests /\ call[c].print \in Fingerprints
  /\ call[c].op = "create" => call[c].print \in Fingerprints
  /\ call[c].at \in {"finalize", "reread"} =>
       call[c].request \in Requests /\ call[c].op = "verify"
  /\ call[c].at = "verify" => call[c].op = "verify"
  /\ call[c].at = "finalize" => SoundObservation(c)

(* A step of one process leaves what the others hold as it was.            *)
LEMMA OneMoves ==
  ASSUME ServiceInv, StoreInv', NEW c \in Processes, NEW new \in Call, NEW got,
         call' = [call EXCEPT ![c] = new], answer' = [answer EXCEPT ![c] = got],
         depth' = depth, told' \subseteq Statement, issued' \subseteq Issue, Local(c)'
  PROVE  ServiceInv'
<1>1. CallTypes'
  BY DEF ServiceInv, CallTypes
<1>2. ASSUME NEW d \in Processes
      PROVE  Local(d)'
  <2>1. CASE d = c
    BY <2>1
  <2>2. CASE d # c
    <3>1. call'[d] = call[d] /\ answer'[d] = answer[d]
      BY <2>2 DEF ServiceInv, CallTypes, StoreInv
    <3>2. SoundObservation(d) => SoundObservation(d)'
      BY <3>1 DEF SoundObservation
    <3>3. Local(d)
      BY DEF Local, ServiceInv, AnswersPickedUp, CallsHold, ObservationsSound
    <3> HIDE DEF SoundObservation
    <3> QED BY <3>1, <3>2, <3>3 DEF Local, Waiting
  <2> QED BY <2>1, <2>2
<1> QED BY <1>1, <1>2 DEF ServiceInv, AnswersPickedUp, CallsHold, ObservationsSound, Local

LEMMA IdleTyped == Idle \in Call
  BY DEF Idle, Call, Reasons

LEMMA BuiltRequest ==
  ASSUME NEW c \in Processes, NEW print \in Fingerprints, NEW key, NEW i \in InvoiceIds,
         now \in Times, BeginCreate(c, print, key, i)
  PROVE  RequestFor(print, i, now) \in Requests
  BY BuildableRequests DEF BeginCreate

(* Each step of the service is a step of the database or a stutter.        *)
LEMMA ServiceStepsStore ==
  ASSUME ServiceInv, [BillingNext]_billingVars
  PROVE  [StoreNext]_storeVars
<1> USE DEF ServiceInv, CallTypes
<1>1. ASSUME NEW c \in Processes, Operation(c)
      PROVE  StoreNext
  BY <1>1 DEF StoreNext
<1>2. ASSUME NEW c \in Processes, CreateSteps(c)
      PROVE  [StoreNext]_storeVars
  <2>1. CASE StoreInvoice(c)
    <3>1. /\ call[c].request \in Requests /\ call[c].print \in Fingerprints
          /\ call[c].key \in Keys \cup {NoKey} /\ Free(c)
      BY <2>1 DEF StoreInvoice, CallsHold, AnswersPickedUp, Waiting, Free, Call
    <3>2. TermsOf[call[c].print].required_confirmations \in 1..MaxConfirmations
      BY <3>1, BillingConstants
    <3> QED BY <1>1, <2>1, <3>1, <3>2 DEF StoreInvoice, Operation
  <2>2. CASE UNCHANGED storeVars
    BY <2>2
  <2> QED BY <1>2, <2>1, <2>2 DEF CreateSteps, BeginCreate, ValidateRecipient
<1>3. ASSUME NEW c \in Processes, call[c] = Idle
      PROVE  Free(c)
  BY <1>3 DEF AnswersPickedUp, Waiting, Idle, Free
<1>4. ASSUME NEW c \in Processes, VerifySteps(c)
      PROVE  [StoreNext]_storeVars
  <2>1. ASSUME NEW i \in InvoiceIds, BeginVerify(c, i)
        PROVE  StoreNext
    BY <1>1, <1>3, <2>1 DEF BeginVerify, Operation
  <2>2. CASE Observe(c)
    BY <2>2 DEF Observe, StoreNext
  <2>3. CASE FinalizeObservation(c)
    <3>1. Free(c) /\ call[c].request \in Requests /\ call[c].obs \in Observation
      BY <2>3 DEF FinalizeObservation, AnswersPickedUp, Waiting, Free, CallsHold,
                  ObservationsSound, SoundObservation
    <3> QED BY <1>1, <2>3, <3>1 DEF FinalizeObservation, Operation
  <2>4. CASE Reread(c)
    <3>1. Free(c) /\ call[c].request.invoice_id \in InvoiceIds
      BY <2>4, StoreConstants DEF Reread, AnswersPickedUp, Waiting, Free, CallsHold, Request
    <3> QED BY <1>1, <2>4, <3>1 DEF Reread, Operation
  <2> QED BY <1>4, <2>1, <2>2, <2>3, <2>4 DEF VerifySteps
<1>5. ASSUME NEW c \in Processes, ReadSteps(c)
      PROVE  StoreNext
  <2>1. ASSUME NEW i \in InvoiceIds, NEW op, BeginRead(c, i, op)
        PROVE  StoreNext
    BY <1>1, <1>3, <2>1 DEF BeginRead, Operation
  <2>2. ASSUME NEW after \in InvoiceIds \cup {0}, NEW limit \in PageSizes,
               ListInvoices(c, after, limit)
        PROVE  StoreNext
    <3>1. ServiceNetwork[c] \in Networks
      BY BillingConstants
    <3> QED BY <1>1, <1>3, <2>2, <3>1 DEF ListInvoices, Operation
  <2>3. CASE ExpireInvoices(c)
    BY <1>1, <1>3, <2>3 DEF ExpireInvoices, Operation
  <2> QED BY <1>5, <2>1, <2>2, <2>3 DEF ReadSteps
<1>6. ASSUME NEW c \in Processes, Reply(c)
      PROVE  StoreNext
  BY <1>6 DEF Reply, StoreNext
<1>7. ASSUME NEW c \in Processes, Interrupted(c)
      PROVE  [StoreNext]_storeVars
  <2>1. CASE Free(c)
    <3>1. answer' = answer
      BY <1>7, <2>1 DEF Interrupted, Free, StoreInv
    <3> QED BY <1>7, <3>1 DEF Interrupted, storeVars
  <2>2. CASE ~Free(c)
    BY <1>7, <2>2 DEF Interrupted, PickUp, StoreNext
  <2> QED BY <2>1, <2>2
<1>8. ASSUME NEW n \in Networks, NEW t \in TxIds, Mine(n, t)
      PROVE  [StoreNext]_storeVars
  BY <1>8 DEF Mine
<1>9. ASSUME NEW t \in Times, ClockStep(t)
      PROVE  StoreNext
  BY <1>9 DEF ClockStep, StoreNext
<1>10. CASE UNCHANGED billingVars
  BY <1>10 DEF billingVars, storeVars
<1> QED BY <1>2, <1>4, <1>5, <1>6, <1>7, <1>8, <1>9, <1>10 DEF BillingNext

-----------------------------------------------------------------------------

(* A call that rests at its reply, or at the record it read, holds nothing *)
(* that the invariant speaks of.                                           *)
LEMMA Resting ==
  ASSUME ServiceInv, StoreInv', NEW c \in Processes, NEW new \in Call, NEW got,
         call' = [call EXCEPT ![c] = new], answer' = [answer EXCEPT ![c] = got],
         new.at \in {"verify", "reply"}, new.op = "create" => new.print \in Fingerprints,
         new.at = "verify" => new.op = "verify", UNCHANGED World
  PROVE  ServiceInv'
<1>1. call'[c] = new
  BY DEF ServiceInv, CallTypes
<1>2. Local(c)'
  BY <1>1 DEF Local, Waiting
<1> QED BY <1>2, OneMoves DEF World, ServiceInv, CallTypes

(* A transaction of the store answers the process that ran it.             *)
Answered(c) == \E got : answer' = [answer EXCEPT ![c] = got]

LEMMA TransactionsAnswer ==
  ASSUME NEW c \in Processes
  PROVE  /\ \A request, required, key, print :
              Create(c, request, required, key, print) => Answered(c)
         /\ \A i : Get(c, i) => Answered(c)
         /\ \A n, after, limit : List(c, n, after, limit) => Answered(c)
         /\ Expire(c) => Answered(c)
         /\ \A request, obs : Finalize(c, request, obs) => Answered(c)
<1>1. ASSUME NEW failure, Rollback(c, failure)
      PROVE  Answered(c)
  BY <1>1 DEF Rollback, Answered
<1>2. ASSUME NEW T, NEW rows, Commit(c, T, rows)
      PROVE  Answered(c)
  BY <1>2 DEF Commit, Answered
<1> HIDE DEF Answered
<1>3. ASSUME NEW request, NEW required, NEW key, NEW print,
             Create(c, request, required, key, print)
      PROVE  Answered(c)
  BY <1>1, <1>2, <1>3 DEF Create
<1>4. ASSUME NEW request, NEW obs, Finalize(c, request, obs)
      PROVE  Answered(c)
  BY <1>1, <1>2, <1>4 DEF Finalize
<1> QED BY <1>1, <1>2, <1>3, <1>4 DEF Get, List, Expire

LEMMA ReplyTyped ==
  ASSUME ServiceInv, NEW c \in Processes, Reply(c)
  PROVE  told' \subseteq Statement /\ issued' \subseteq Issue
<1>1. Shown(c) \subseteq Row
  BY DEF Shown, Visible, ServiceInv, StoreInv, Answers
<1>2. \A r \in Shown(c) : r.request.invoice_id \in InvoiceIds
  BY <1>1, StoreConstants DEF Row, Request
<1>3. told' \subseteq Statement
  BY <1>1, <1>2 DEF Reply, ServiceInv, CallTypes, Statement, Row, States
<1>4. issued' \subseteq Issue
  <2>1. call[c].key \in Keys \cup {NoKey}
        /\ (call[c].op = "create" => call[c].print \in Fingerprints)
    BY DEF ServiceInv, CallTypes, CallsHold, Call
  <2> QED BY <1>2, <2>1 DEF Reply, ServiceInv, CallTypes, Issue
<1> QED BY <1>3, <1>4

LEMMA ServiceStep ==
  ASSUME ServiceInv, [BillingNext]_billingVars
  PROVE  ServiceInv'
<1> USE DEF ServiceInv, CallTypes
<1>0. StoreInv'
  BY ServiceStepsStore, StepOutcome
<1>1. ASSUME NEW c \in Processes, NEW print \in Fingerprints, NEW key \in Keys \cup {NoKey},
             NEW i \in InvoiceIds, BeginCreate(c, print, key, i)
      PROVE  ServiceInv'
  <2> DEFINE new == [Idle EXCEPT !.at = "validate", !.op = "create", !.key = key,
                                 !.print = print, !.request = RequestFor(print, i, now)]
  <2>1. RequestFor(print, i, now) \in Requests
    BY <1>1, BuiltRequest DEF StoreInv
  <2>2. new \in Call
    BY <2>1 DEF Idle, Call, Reasons
  <2>3. Local(c)'
    <3>1. call'[c] = new /\ answer'[c] = Nothing
      BY <1>1 DEF BeginCreate, storeVars, AnswersPickedUp, Waiting, Idle
    <3> QED BY <2>1, <3>1 DEF Local, Idle, Waiting
  <2>4. answer' = [answer EXCEPT ![c] = answer[c]]
    BY <1>1 DEF BeginCreate, storeVars, StoreInv
  <2> QED BY <1>0, <1>1, <2>2, <2>3, <2>4, OneMoves DEF BeginCreate, World
<1>2. ASSUME NEW c \in Processes, ValidateRecipient(c)
      PROVE  ServiceInv'
  <2>1. PICK new \in {[call[c] EXCEPT !.at = "create"], Idle} :
          call' = [call EXCEPT ![c] = new]
    BY <1>2 DEF ValidateRecipient, Goto
  <2>2. new \in Call
    BY <2>1, IdleTyped DEF Call
  <2>3. Local(c)'
    <3>1. call'[c] = new /\ answer'[c] = Nothing
      BY <1>2, <2>1 DEF ValidateRecipient, storeVars, AnswersPickedUp, Waiting
    <3>2. call[c].request \in Requests /\ call[c].print \in Fingerprints
      BY <1>2 DEF ValidateRecipient, CallsHold
    <3> QED BY <2>1, <3>1, <3>2 DEF Local, Idle, Waiting, Call
  <2>4. answer' = [answer EXCEPT ![c] = answer[c]]
    BY <1>2 DEF ValidateRecipient, storeVars, StoreInv
  <2> QED BY <1>0, <1>2, <2>1, <2>2, <2>3, <2>4, OneMoves DEF ValidateRecipient, World
<1>3. ASSUME NEW c \in Processes, Answered(c), NEW new \in Call,
             call' = [call EXCEPT ![c] = new], new.at \in {"verify", "reply"},
             new.op = "create" => new.print \in Fingerprints,
             new.at = "verify" => new.op = "verify", UNCHANGED World
      PROVE  ServiceInv'
  BY <1>0, <1>3, Resting DEF Answered
<1>4. ASSUME NEW c \in Processes, Answered(c), Goto(c, "reply"), UNCHANGED World
      PROVE  ServiceInv'
  <2>1. [call[c] EXCEPT !.at = "reply"] \in Call
    BY DEF Call
  <2>2. call[c].op = "create" => call[c].print \in Fingerprints
    BY DEF CallsHold
  <2> QED BY <1>3, <1>4, <2>1, <2>2 DEF Goto, Call
<1>5. ASSUME NEW c \in Processes, CreateSteps(c)
      PROVE  ServiceInv'
  BY <1>1, <1>2, <1>4, <1>5, TransactionsAnswer DEF CreateSteps, StoreInvoice
<1>6. ASSUME NEW c \in Processes, Observe(c)
      PROVE  ServiceInv'
  <2> DEFINE n == ServiceNetwork[c]
  <2>1. PICK r \in Visible(c), proof \in Proof, confirmations \in 0..MaxConfirmations :
          LET verdict == Verdict(n, r.request, r.required_confirmations, proof, confirmations)
          IN  /\ r.state = "PENDING"
              /\ confirmations <= depth[n][proof.txid]
              /\ \/ /\ verdict = "confirmed"
                    /\ call' = [call EXCEPT ![c].at = "finalize", ![c].request = r.request,
                                  ![c].reason = verdict,
                                  ![c].obs = [eligible |-> TRUE, txid |-> proof.txid,
                                              request_message |-> proof.message,
                                              received_atomic |-> Pays[n][proof.txid].amount,
                                              confirmations |-> confirmations]]
                 \/ /\ verdict # "confirmed"
                    /\ call' = [call EXCEPT ![c].at = "reread", ![c].request = r.request,
                                  ![c].reason = verdict]
    BY <1>6 DEF Observe
  <2> DEFINE verdict == Verdict(n, r.request, r.required_confirmations, proof, confirmations)
             obs == [eligible |-> TRUE, txid |-> proof.txid, request_message |-> proof.message,
                     received_atomic |-> Pays[n][proof.txid].amount,
                     confirmations |-> confirmations]
             sure == [call[c] EXCEPT !.at = "finalize", !.request = r.request,
                                     !.reason = verdict, !.obs = obs]
             unsure == [call[c] EXCEPT !.at = "reread", !.request = r.request,
                                       !.reason = verdict]
  <2>2. r.request \in Requests /\ r.request.network = n /\ n \in Networks /\ proof.txid \in TxIds
    BY BillingConstants DEF Visible, StoreInv, Answers, Row, Proof
  <2>3. verdict \in Reasons
    BY DEF Verdict, Reasons
  <2>4. /\ answer' = [answer EXCEPT ![c] = Nothing] /\ UNCHANGED World
        /\ call[c].op = "verify"
    BY <1>6 DEF Observe, PickUp, CallsHold
  <2>5. CASE verdict = "confirmed"
    <3>1. /\ proof.address = r.request.recipient_address /\ proof.message = r.request
          /\ Pays[n][proof.txid].address = proof.address
          /\ Pays[n][proof.txid].amount = r.request.amount_atomic
      BY <2>5 DEF Verdict
    <3>2. Pays[n][proof.txid] \in [address : Addresses, amount : Amounts]
      BY <2>2, BillingConstants
    <3>3. obs \in Observation
      BY <2>2, <3>1, <3>2 DEF Observation, Proof
    <3>4. call' = [call EXCEPT ![c] = sure]
      BY <2>1, <2>5
    <3>5. sure \in Call
      BY <2>2, <2>3, <3>3 DEF Call
    <3>6. /\ call'[c].at = "finalize" /\ call'[c].request = r.request /\ call'[c].obs = obs
          /\ call'[c].op = "verify" /\ call'[c].print = call[c].print
      BY <2>4, <3>4, <3>5 DEF Call
    <3>7. Pays[n][proof.txid] = [address |-> r.request.recipient_address,
                                 amount |-> r.request.amount_atomic]
      BY <3>1, <3>2
    <3> HIDE DEF sure
    <3>8. Local(c)'
      BY <2>1, <2>2, <2>4, <3>1, <3>3, <3>6, <3>7
         DEF Local, SoundObservation, World, StoreInv, CallsHold
    <3> QED BY <1>0, <2>4, <3>4, <3>5, <3>8, OneMoves DEF World
  <2>6. CASE verdict # "confirmed"
    <3>0. call' = [call EXCEPT ![c] = unsure]
      BY <2>1, <2>6
    <3>1. call' = [call EXCEPT ![c] = unsure] /\ unsure \in Call
      BY <2>2, <2>3, <3>0 DEF Call
    <3>2. /\ call'[c].at = "reread" /\ call'[c].request = r.request
          /\ call'[c].op = "verify" /\ call'[c].print = call[c].print
      BY <2>4, <3>1 DEF Call
    <3>3. Local(c)'
      BY <2>2, <2>4, <3>2 DEF Local, StoreInv, CallsHold
    <3> QED BY <1>0, <2>4, <3>1, <3>3, OneMoves DEF World
  <2> QED BY <2>5, <2>6
<1>7. ASSUME NEW c \in Processes, VerifySteps(c)
      PROVE  ServiceInv'
  <2>1. [Idle EXCEPT !.at = "verify", !.op = "verify"] \in Call
    BY DEF Idle, Call, Reasons
  <2> QED
    BY <1>3, <1>4, <1>6, <1>7, <2>1, TransactionsAnswer
       DEF VerifySteps, BeginVerify, FinalizeObservation, Reread, Idle
<1>8. ASSUME NEW c \in Processes, ReadSteps(c)
      PROVE  ServiceInv'
  <2>1. \A op \in {"read", "require"} : [Idle EXCEPT !.at = "reply", !.op = op] \in Call
    BY DEF Idle, Call, Reasons
  <2> QED
    BY <1>3, <1>8, <2>1, TransactionsAnswer
       DEF ReadSteps, BeginRead, ListInvoices, ExpireInvoices, Idle
<1>9. ASSUME NEW c \in Processes, call' = [call EXCEPT ![c] = Idle],
             answer' = [answer EXCEPT ![c] = Nothing], depth' = depth,
             told' \subseteq Statement, issued' \subseteq Issue
      PROVE  ServiceInv'
  <2>1. call'[c] = Idle /\ answer'[c] = Nothing
    BY <1>9 DEF StoreInv
  <2>2. Local(c)'
    BY <2>1 DEF Local, Idle
  <2> QED BY <1>0, <1>9, <2>2, IdleTyped, OneMoves
<1>10. ASSUME NEW c \in Processes, Reply(c)
       PROVE  ServiceInv'
  BY <1>9, <1>10, ReplyTyped DEF Reply, PickUp
<1>11. ASSUME NEW c \in Processes, Interrupted(c)
       PROVE  ServiceInv'
  BY <1>9, <1>11 DEF Interrupted, World
<1>12. ASSUME NEW n \in Networks, NEW t \in TxIds, Mine(n, t)
       PROVE  ServiceInv'
  <2>1. /\ depth' \in [Networks -> [TxIds -> 0..MaxConfirmations]]
        /\ \A m \in Networks, u \in TxIds : depth[m][u] <= depth'[m][u]
    BY <1>12, StoreConstants DEF Mine
  <2>2. ASSUME NEW c \in Processes, call[c].at = "finalize"
        PROVE  SoundObservation(c)'
    <3>1. ServiceNetwork[c] \in Networks /\ call[c].obs.txid \in TxIds
          /\ call[c].obs.confirmations \in Int
      <4>1. call[c].obs \in Observation
        BY <2>2 DEF ObservationsSound, SoundObservation
      <4>2. call[c].obs.confirmations \in 0..MaxConfirmations /\ call[c].obs.txid \in TxIds
        BY <4>1 DEF Observation
      <4>3. ServiceNetwork[c] \in Networks
        BY BillingConstants
      <4> QED BY <4>2, <4>3
    <3>2. depth[ServiceNetwork[c]][call[c].obs.txid] \in Int
          /\ depth'[ServiceNetwork[c]][call[c].obs.txid] \in Int
      BY <2>1, <3>1
    <3> QED BY <1>12, <2>1, <2>2, <3>1, <3>2
            DEF Mine, storeVars, ObservationsSound, SoundObservation
  <2> QED BY <1>0, <1>12, <2>1, <2>2
          DEF Mine, storeVars, AnswersPickedUp, Waiting, CallsHold, ObservationsSound
<1>13. ASSUME UNCHANGED <<answer, call, World>>
       PROVE  ServiceInv'
  BY <1>0, <1>13 DEF World, AnswersPickedUp, Waiting, CallsHold, ObservationsSound, SoundObservation
<1> QED
  BY <1>5, <1>7, <1>8, <1>10, <1>11, <1>12, <1>13
     DEF BillingNext, ClockStep, ClockMoves, billingVars, World

-----------------------------------------------------------------------------

LEMMA ServiceInitially ==
  ASSUME BillingInit
  PROVE  ServiceInv
<1>1. StoreInv
  BY DEF BillingInit, StoreInit, StoreInv, TableOK, Decodes, ConsumedOnce, Identified,
         Answers, Nothing
<1>2. CallTypes
  BY IdleTyped, StoreConstants DEF BillingInit, CallTypes
<1>3. AnswersPickedUp /\ CallsHold /\ ObservationsSound
  BY DEF BillingInit, StoreInit, AnswersPickedUp, CallsHold, ObservationsSound, Idle
<1> QED BY <1>1, <1>2, <1>3 DEF ServiceInv

LEMMA ServiceInvariant == BillingSpec => []ServiceInv
<1>1. BillingInit => ServiceInv
  BY ServiceInitially
<1>2. ServiceInv /\ [BillingNext]_billingVars => ServiceInv'
  BY ServiceStep
<1> QED BY <1>1, <1>2, PTL DEF BillingSpec

(* Every variable of the service keeps its type.                           *)
THEOREM BillingTypeCorrect == BillingSpec => []BillingTypeOK
<1>1. ServiceInv => BillingTypeOK
  BY DEF ServiceInv, StoreInv, TableOK, CallTypes, BillingTypeOK, StoreTypeOK
<1> QED BY <1>1, ServiceInvariant, PTL

(* Processes of services of any networks that share the file, with crashes,*)
(* lost answers and RPCs between their transactions, use the database as   *)
(* its specification says.                                                 *)
THEOREM BillingImplementsStore == BillingSpec => StoreSpec
<1>1. BillingInit => StoreInit
  BY DEF BillingInit
<1>2. ServiceInv /\ [BillingNext]_billingVars => [StoreNext]_storeVars
  BY ServiceStepsStore
<1> QED BY <1>1, <1>2, ServiceInvariant, PTL DEF BillingSpec, StoreSpec

(* So they implement the ledger: no transaction of a network settles two   *)
(* invoices, and PAID and EXPIRED are final.                               *)
THEOREM BillingImplementsLedger == BillingSpec => LedgerSpec
  BY BillingImplementsStore, StoreImplementsLedger, PTL

(* So no transaction pays two invoices.                                    *)
THEOREM BillingConsumesOnce == BillingSpec => []TransactionConsumedOnce
  BY BillingImplementsStore, NoDoubleConsumption, PTL

-----------------------------------------------------------------------------
(* Where paid rows come from.                                              *)

PaidRows(T) == {r \in T : r.state = "PAID"}

LEMMA SweptPaid ==
  ASSUME StoreInv
  PROVE  PaidRows(Swept) = PaidRows(invoices)
  BY SweptRow DEF StoreInv, TableOK, PaidRows, Swept, AfterExpire, Lapses

(* Only _finalize makes a paid row, out of the observation it was given.   *)
LEMMA OtherTransactionsPayNothing ==
  ASSUME StoreInv, NEW c \in Processes
  PROVE  /\ \A request, required, key, print :
              Create(c, request, required, key, print)
                => PaidRows(invoices') = PaidRows(invoices)
         /\ \A i : Get(c, i) => PaidRows(invoices') = PaidRows(invoices)
         /\ \A n, after, limit :
              List(c, n, after, limit) => PaidRows(invoices') = PaidRows(invoices)
         /\ Expire(c) => PaidRows(invoices') = PaidRows(invoices)
<1>1. ASSUME NEW failure, Rollback(c, failure)
      PROVE  PaidRows(invoices') = PaidRows(invoices)
  BY <1>1 DEF Rollback
<1>2. ASSUME NEW rows, Commit(c, Swept, rows)
      PROVE  PaidRows(invoices') = PaidRows(invoices)
  BY <1>2, SweptPaid DEF Commit
<1>3. ASSUME NEW request, NEW required, NEW key, NEW print,
             Create(c, request, required, key, print)
      PROVE  PaidRows(invoices') = PaidRows(invoices)
  <2> DEFINE new == NewRow(request, required, key, print)
  <2>1. CASE Commit(c, Swept \cup {new}, {new})
    <3>1. PaidRows(Swept \cup {new}) = PaidRows(Swept)
      BY DEF PaidRows, NewRow
    <3> QED BY <2>1, <3>1, SweptPaid DEF Commit
  <2> QED BY <1>1, <1>2, <1>3, <2>1 DEF Create
<1> QED BY <1>1, <1>2, <1>3 DEF Get, List, Expire

LEMMA FinalizePays ==
  ASSUME StoreInv, NEW c \in Processes, NEW request \in Requests, NEW obs \in Observation,
         Finalize(c, request, obs), NEW r \in PaidRows(invoices'), r \notin invoices
  PROVE  /\ r.request = request /\ r.txid = obs.txid /\ r.confirmations = obs.confirmations
         /\ r.confirmations >= r.required_confirmations
<1>1. PaidRows(Swept) \subseteq invoices
  BY SweptPaid DEF PaidRows
<1>2. PICK old \in WithId(Swept, request.invoice_id) :
        /\ old.request = request /\ RecordValid(PaidRow(old, obs))
        /\ Commit(c, (Swept \ {old}) \cup {PaidRow(old, obs)}, {PaidRow(old, obs)})
  BY <1>1 DEF Finalize, Commit, Rollback, PaidRows
<1>3. r = PaidRow(old, obs)
  BY <1>1, <1>2 DEF Commit, PaidRows
<1>4. old \in Row
  BY <1>2, SweptTable DEF WithId, StoreInv, TableOK
<1>5. /\ r.state = "PAID" /\ r.request = old.request /\ r.txid = obs.txid
      /\ r.confirmations = obs.confirmations
  BY <1>3, <1>4 DEF PaidRow, Row
<1> QED BY <1>2, <1>3, <1>5 DEF RecordValid

Backed(r) ==
  /\ Pays[r.request.network][r.txid] =
       [address |-> r.request.recipient_address, amount |-> r.request.amount_atomic]
  /\ depth[r.request.network][r.txid] >= r.required_confirmations

(* A paid invoice rests on a payment of exactly its amount to its          *)
(* recipient, once buried as deep as it required, for any number of racing *)
(* verifications, proofs made for other requests and moves of the clock.   *)
THEOREM PaymentsBackInvoices == BillingSpec => []PaidIsBacked
<1>1. BillingInit => PaidIsBacked
  BY DEF BillingInit, StoreInit, PaidIsBacked
<1>2. ServiceInv /\ PaidIsBacked /\ [BillingNext]_billingVars => PaidIsBacked'
  <2> SUFFICES ASSUME ServiceInv, PaidIsBacked, [BillingNext]_billingVars,
                      NEW r \in invoices', r.state = "PAID"
               PROVE  Backed(r)'
    BY DEF PaidIsBacked, Backed
  <2> USE DEF ServiceInv
  <2>1. /\ r \in Row /\ r.request.network \in Networks /\ r.txid \in TxIds
        /\ r.required_confirmations \in Int
    <3>1. r \in Row /\ RecordValid(r)
      BY ServiceStep DEF StoreInv, TableOK, Decodes
    <3> QED BY <3>1, StoreConstants DEF Row, RecordValid, Request
  <2>2. \A n \in Networks, t \in TxIds :
          depth[n][t] \in Int /\ depth'[n][t] \in Int /\ depth[n][t] <= depth'[n][t]
    <3>1. CASE depth' = depth
      BY <3>1 DEF CallTypes
    <3>2. ASSUME NEW n \in Networks, NEW t \in TxIds, Mine(n, t)
          PROVE  \A m \in Networks, u \in TxIds :
                   /\ depth[m][u] \in Int /\ depth'[m][u] \in Int
                   /\ depth[m][u] <= depth'[m][u]
      BY <3>2 DEF Mine, CallTypes
    <3> QED
      BY <3>1, <3>2
         DEF BillingNext, CreateSteps, BeginCreate, ValidateRecipient, StoreInvoice, VerifySteps,
             BeginVerify, Observe, FinalizeObservation, Reread, ReadSteps, BeginRead,
             ListInvoices, ExpireInvoices, Reply, Interrupted, ClockStep, World, billingVars
  <2>3. CASE r \in invoices
    <3>1. Backed(r)
      BY <2>3 DEF PaidIsBacked, Backed
    <3> QED BY <2>1, <2>2, <3>1 DEF Backed
  <2>4. ASSUME NEW c \in Processes, FinalizeObservation(c), r \notin invoices
        PROVE  Backed(r)'
    <3>1. SoundObservation(c) /\ call[c].request \in Requests
      BY <2>4 DEF FinalizeObservation, ObservationsSound, CallsHold
    <3>2. /\ r.request = call[c].request /\ r.txid = call[c].obs.txid
          /\ r.confirmations = call[c].obs.confirmations
          /\ r.confirmations >= r.required_confirmations
      BY <2>4, <3>1, FinalizePays DEF FinalizeObservation, SoundObservation, PaidRows
    <3>3. /\ Pays[r.request.network][r.txid] =
               [address |-> r.request.recipient_address, amount |-> r.request.amount_atomic]
          /\ r.confirmations <= depth[r.request.network][r.txid]
      BY <3>1, <3>2 DEF SoundObservation
    <3>4. r.confirmations \in Int
      BY <2>1 DEF Row
    <3> QED BY <2>1, <2>2, <3>2, <3>3, <3>4 DEF Backed
  <2>5. CASE PaidRows(invoices') = PaidRows(invoices)
    BY <2>3, <2>5 DEF PaidRows
  <2>6. \/ PaidRows(invoices') = PaidRows(invoices)
        \/ \E c \in Processes : FinalizeObservation(c)
    BY OtherTransactionsPayNothing
       DEF BillingNext, CreateSteps, BeginCreate, ValidateRecipient, StoreInvoice, VerifySteps,
           BeginVerify, Observe, Reread, ReadSteps, BeginRead, ListInvoices, ExpireInvoices,
           Reply, Interrupted, Mine, ClockStep, ClockMoves, PickUp, storeVars, billingVars
  <2> QED BY <2>3, <2>4, <2>5, <2>6
<1> QED BY <1>1, <1>2, ServiceInvariant, PTL DEF BillingSpec

-----------------------------------------------------------------------------
(* What callers are told.                                                  *)

(* Every row that a process holds has a successor in the table.            *)
RowsHeld == \A c \in Processes : \A r \in answer[c].rows : \E s \in invoices : Succeeds(r, s)

(* Every row of the table has a successor after a step.                    *)
LEMMA RowsSucceed ==
  ASSUME ServiceInv, [BillingNext]_billingVars, NEW r \in invoices
  PROVE  \E s \in invoices' : Succeeds(r, s)
<1>1. CASE invoices' = invoices
  BY <1>1 DEF Succeeds
<1>2. CASE Evolves(Swept, invoices')
  <2>1. AfterExpire(r) \in Swept /\ Succeeds(r, AfterExpire(r))
    BY SweptSucceeds DEF ServiceInv, StoreInv
  <2>2. PICK s \in invoices' : Succeeds(AfterExpire(r), s)
    BY <1>2, <2>1, EvolvedSucceeds
  <2> QED BY <2>1, <2>2, SuccessionIsTransitive
<1> QED BY <1>1, <1>2, ServiceStepsStore, StepOutcome DEF ServiceInv, Outcome

LEMMA RowsStayHeld ==
  ASSUME ServiceInv, RowsHeld, [BillingNext]_billingVars
  PROVE  RowsHeld'
<1> SUFFICES ASSUME NEW c \in Processes, NEW r \in answer'[c].rows
             PROVE  \E s \in invoices' : Succeeds(r, s)
  BY DEF RowsHeld
<1>1. CASE answer'[c] = answer[c]
  <2>1. PICK s \in invoices : Succeeds(r, s)
    BY <1>1 DEF RowsHeld
  <2>2. PICK u \in invoices' : Succeeds(s, u)
    BY RowsSucceed
  <2> QED BY <2>1, <2>2, SuccessionIsTransitive
<1>2. CASE answer'[c].rows \subseteq invoices'
  BY <1>2 DEF Succeeds
<1> QED BY <1>1, <1>2, ServiceStepsStore, StepAnswers DEF ServiceInv

(* The history variables change only when a call replies.                  *)
LEMMA OnlyRepliesTell ==
  ASSUME [BillingNext]_billingVars, ~(\E c \in Processes : Reply(c))
  PROVE  UNCHANGED <<told, issued>>
  BY DEF BillingNext, CreateSteps, BeginCreate, ValidateRecipient, StoreInvoice, VerifySteps,
         BeginVerify, Observe, FinalizeObservation, Reread, ReadSteps, BeginRead, ListInvoices,
         ExpireInvoices, Interrupted, Mine, ClockStep, World, billingVars

(* An invoice that any caller was told is paid stays paid by the same      *)
(* transaction, and one it was told has expired is never paid.             *)
THEOREM ToldStatesStand == BillingSpec => []AnswersStand
<1> DEFINE Said(s, T) == \E r \in T :
             r.request.invoice_id = s.invoice_id /\ r.state = s.state /\ r.txid = s.txid
<1>1. BillingInit => RowsHeld /\ AnswersStand
  BY DEF BillingInit, StoreInit, RowsHeld, AnswersStand, Nothing
<1>2. ServiceInv /\ RowsHeld /\ AnswersStand /\ [BillingNext]_billingVars
        => (RowsHeld /\ AnswersStand)'
  <2> SUFFICES ASSUME ServiceInv, RowsHeld, AnswersStand, [BillingNext]_billingVars,
                      NEW s \in told'
               PROVE  Said(s, invoices')
    BY RowsStayHeld DEF AnswersStand
  <2>1. ASSUME Said(s, invoices), s.state # "PENDING"
        PROVE  Said(s, invoices')
    BY <2>1, ServiceStepsStore, FinalRowsStay DEF ServiceInv
  <2>2. CASE s \in told
    <3>1. s.state # "PENDING"
      BY <2>2 DEF ServiceInv, CallTypes, Statement
    <3> QED BY <2>1, <2>2, <3>1 DEF AnswersStand
  <2>3. ASSUME NEW c \in Processes, Reply(c), s \notin told
        PROVE  Said(s, invoices')
    <3>1. PICK r \in answer[c].rows :
            /\ r.state # "PENDING"
            /\ s = [invoice_id |-> r.request.invoice_id, state |-> r.state, txid |-> r.txid]
      BY <2>3 DEF Reply, Shown, Visible
    <3>2. r \in invoices
      BY <3>1 DEF RowsHeld, Succeeds
    <3> QED BY <2>1, <3>1, <3>2
  <2> QED BY <2>2, <2>3, OnlyRepliesTell
<1> QED BY <1>1, <1>2, ServiceInvariant, PTL DEF BillingSpec

-----------------------------------------------------------------------------
(* How the table grows.                                                    *)

LEMMA SweptFinite ==
  ASSUME IsFiniteSet(invoices)
  PROVE  IsFiniteSet(Swept)
<1> DEFINE f == [r \in invoices |-> AfterExpire(r)]
<1>1. f \in Surjection(invoices, Swept)
  BY DEF Surjection, Swept
<1> QED BY <1>1, FS_Surjection

LEMMA TableStaysFinite ==
  ASSUME ServiceInv, IsFiniteSet(invoices), [BillingNext]_billingVars
  PROVE  IsFiniteSet(invoices')
<1>1. Outcome
  BY ServiceStepsStore, StepOutcome DEF ServiceInv
<1>2. IsFiniteSet(Swept)
  BY SweptFinite
<1>3. ASSUME NEW T, IsFiniteSet(T), NEW r PROVE IsFiniteSet(T \cup {r}) /\ IsFiniteSet(T \ {r})
  BY <1>3, FS_AddElement, FS_RemoveElement
<1>4. ASSUME NEW r, NEW s PROVE IsFiniteSet((Swept \ {r}) \cup {s})
  BY <1>2, <1>3
<1>5. CASE invoices' = invoices \/ invoices' = Swept
  BY <1>2, <1>5
<1>6. CASE \E new \in Row : invoices' = Swept \cup {new}
  BY <1>2, <1>3, <1>6
<1>7. CASE \E old, paid \in Row : invoices' = (Swept \ {old}) \cup {paid}
  <2>1. PICK old \in Row, paid \in Row : invoices' = (Swept \ {old}) \cup {paid}
    BY <1>7
  <2> QED BY <1>4, <2>1
<1> QED BY <1>1, <1>5, <1>6, <1>7 DEF Outcome, Evolves

(* No row is lost, so there are never fewer.                               *)
LEMMA TableGrows ==
  ASSUME ServiceInv, IsFiniteSet(invoices), [BillingNext]_billingVars
  PROVE  /\ Cardinality(invoices) \in Nat /\ Cardinality(invoices') \in Nat
         /\ Cardinality(invoices) <= Cardinality(invoices')
<1> DEFINE f == [r \in invoices |-> CHOOSE s \in invoices' : Succeeds(r, s)]
<1>1. \A r \in invoices : f[r] \in invoices' /\ Succeeds(r, f[r])
  BY RowsSucceed
<1>2. \A q, r \in invoices : q.request.invoice_id = r.request.invoice_id => q = r
  BY DEF ServiceInv, StoreInv, TableOK, Identified
<1>3. f \in [invoices -> invoices']
  BY <1>1
<1>4. ASSUME NEW q \in invoices, NEW r \in invoices, f[q] = f[r] PROVE q = r
  <2>1. q.request = r.request
    BY <1>1, <1>4 DEF Succeeds
  <2> QED BY <1>2, <2>1
<1> HIDE DEF f
<1>5. f \in Injection(invoices, invoices')
  BY <1>3, <1>4 DEF Injection, IsInjective
<1>6. IsFiniteSet(invoices')
  BY TableStaysFinite
<1> QED BY <1>5, <1>6, FS_Injection, FS_CardinalityType

(* The rows after a step have the terms of rows before it, but for the one *)
(* that a creation adds while there is room.                               *)
SameTerms(q, r) ==
  /\ q.request = r.request /\ q.idempotency_key = r.idempotency_key
  /\ q.creation_fingerprint = r.creation_fingerprint

LEMMA CreateAdds ==
  ASSUME ServiceInv, NEW c \in Processes, NEW request, NEW required, NEW key, NEW print,
         Create(c, request, required, key, print), NEW r \in invoices'
  PROVE  \/ \E q \in invoices : SameTerms(q, r)
         \/ /\ HasRoom /\ r.request.invoice_id = request.invoice_id
            /\ r.creation_fingerprint = print
<1>1. ASSUME NEW q \in Swept
      PROVE  \E o \in invoices : SameTerms(o, q)
  BY SweptRow DEF Swept, Succeeds, SameTerms, ServiceInv, StoreInv, TableOK
<1>2. \A q \in invoices : SameTerms(q, q)
  BY DEF SameTerms
<1> QED BY <1>1, <1>2 DEF Create, Commit, Rollback, NewRow, Previous, WithKey

LEMMA OthersAddNothing ==
  ASSUME ServiceInv, [BillingNext]_billingVars, ~(\E c \in Processes : StoreInvoice(c)),
         NEW r \in invoices'
  PROVE  \E q \in invoices : SameTerms(q, r)
<1>1. ASSUME NEW q \in Swept
      PROVE  \E o \in invoices : SameTerms(o, q)
  BY <1>1, SweptRow DEF Swept, Succeeds, SameTerms, ServiceInv, StoreInv, TableOK
<1>2. invoices' = invoices \/ invoices' = Swept
        \/ \E q \in Swept : \E obs : invoices' = (Swept \ {q}) \cup {PaidRow(q, obs)}
  <2>1. ASSUME NEW c \in Processes, NEW request, NEW obs, Finalize(c, request, obs)
        PROVE  invoices' = invoices \/ invoices' = Swept
                 \/ \E q \in Swept : \E o : invoices' = (Swept \ {q}) \cup {PaidRow(q, o)}
    BY <2>1 DEF Finalize, Commit, Rollback, WithId
  <2>2. ASSUME NEW c \in Processes, NEW i, Get(c, i)
        PROVE  invoices' = invoices \/ invoices' = Swept
    BY <2>2 DEF Get, Commit, Rollback
  <2>3. ASSUME NEW c \in Processes, CreateSteps(c)
        PROVE  invoices' = invoices
    <3>1. ~StoreInvoice(c)
      OBVIOUS
    <3>2. (\E print, key, i : BeginCreate(c, print, key, i)) => invoices' = invoices
      BY DEF BeginCreate, storeVars
    <3>3. ValidateRecipient(c) => invoices' = invoices
      BY DEF ValidateRecipient, storeVars
    <3> QED BY <2>3, <3>1, <3>2, <3>3 DEF CreateSteps
  <2>4. ASSUME NEW c \in Processes, VerifySteps(c)
        PROVE  invoices' = invoices \/ invoices' = Swept
                 \/ \E q \in Swept : \E o : invoices' = (Swept \ {q}) \cup {PaidRow(q, o)}
    <3>1. Observe(c) => invoices' = invoices
      BY DEF Observe, PickUp
    <3> QED BY <2>1, <2>2, <2>4, <3>1 DEF VerifySteps, BeginVerify, FinalizeObservation, Reread
  <2>5. ASSUME NEW c \in Processes, ReadSteps(c)
        PROVE  invoices' = invoices \/ invoices' = Swept
    BY <2>2, <2>5 DEF ReadSteps, BeginRead, ListInvoices, ExpireInvoices, List, Expire, Commit
  <2>6. ASSUME NEW c \in Processes, Reply(c) \/ Interrupted(c)
        PROVE  invoices' = invoices
    BY <2>6 DEF Reply, Interrupted, PickUp
  <2>7. ASSUME ~(\E c \in Processes :
                   CreateSteps(c) \/ VerifySteps(c) \/ ReadSteps(c) \/ Reply(c) \/ Interrupted(c))
        PROVE  invoices' = invoices
    BY <2>7 DEF BillingNext, Mine, ClockStep, ClockMoves, storeVars, billingVars
  <2> QED BY <2>3, <2>4, <2>5, <2>6, <2>7
<1>3. \A q \in Swept : \A obs :
         SameTerms(q, PaidRow(q, obs))
  BY SweptTable DEF PaidRow, SameTerms, ServiceInv, StoreInv, TableOK, Row
<1>4. \A q \in invoices : SameTerms(q, q)
  BY DEF SameTerms
<1> QED BY <1>1, <1>2, <1>3, <1>4 DEF SameTerms

-----------------------------------------------------------------------------
(* Idempotent creation.                                                    *)

(* What a creation is about to return was created under its key and terms. *)
CreationsAnswered ==
  \A c \in Processes : call[c].at = "reply" /\ call[c].op = "create" =>
     \A r \in answer[c].rows : /\ r.idempotency_key = call[c].key
                               /\ r.creation_fingerprint = call[c].print

(* What creations have returned is in the table under that key and terms.  *)
IssuedStored ==
  \A a \in issued : \E r \in invoices :
     /\ r.request.invoice_id = a.invoice_id
     /\ r.idempotency_key = a.key /\ r.creation_fingerprint = a.print

LEMMA CreateAnswersForKey ==
  ASSUME ServiceInv, NEW c \in Processes, NEW request, NEW required, NEW key, NEW print,
         Create(c, request, required, key, print), NEW r \in answer'[c].rows
  PROVE  r.idempotency_key = key /\ r.creation_fingerprint = print
<1>1. ASSUME NEW failure, Rollback(c, failure)
      PROVE  FALSE
  BY <1>1 DEF Rollback, ServiceInv, StoreInv
<1>2. ASSUME NEW T, NEW rows, Commit(c, T, rows)
      PROVE  r \in rows
  BY <1>2 DEF Commit, ServiceInv, StoreInv
<1> QED BY <1>1, <1>2 DEF Create, Previous, WithKey, NewRow

LEMMA CallAssigned ==
  ASSUME NEW c \in Processes, Observe(c)
  PROVE  \E new : call' = [call EXCEPT ![c] = new]
  BY DEF Observe

(* A step of one process leaves the call of another, and what it was       *)
(* answered, as they are.                                                  *)
LEMMA OthersUntouched ==
  ASSUME ServiceInv, NEW c \in Processes, NEW d \in Processes, d # c,
         CreateSteps(d) \/ VerifySteps(d) \/ ReadSteps(d) \/ Reply(d) \/ Interrupted(d)
  PROVE  call'[c] = call[c] /\ answer'[c] = answer[c]
<1> USE DEF ServiceInv, CallTypes
<1>1. \E new : call' = [call EXCEPT ![d] = new]
  <2>1. CASE CreateSteps(d)
    BY <2>1 DEF CreateSteps, BeginCreate, ValidateRecipient, StoreInvoice, Goto
  <2>2. CASE VerifySteps(d)
    BY <2>2, CallAssigned DEF VerifySteps, BeginVerify, FinalizeObservation, Reread, Goto
  <2>3. CASE ReadSteps(d) \/ Reply(d) \/ Interrupted(d)
    BY <2>3 DEF ReadSteps, BeginRead, ListInvoices, ExpireInvoices, Reply, Interrupted
  <2> QED BY <2>1, <2>2, <2>3
<1>2. call'[c] = call[c]
  BY <1>1
<1>3. Answered(d) \/ answer' = answer
  BY TransactionsAnswer
     DEF CreateSteps, BeginCreate, ValidateRecipient, StoreInvoice, VerifySteps, BeginVerify,
         Observe, FinalizeObservation, Reread, ReadSteps, BeginRead, ListInvoices,
         ExpireInvoices, Reply, Interrupted, PickUp, storeVars, Answered
<1>4. answer'[c] = answer[c]
  BY <1>3 DEF Answered, StoreInv
<1> QED BY <1>2, <1>4

LEMMA StepsAreOfOne ==
  ASSUME ServiceInv, [BillingNext]_billingVars, NEW c \in Processes
  PROVE  \/ call'[c] = call[c] /\ answer'[c] = answer[c]
         \/ CreateSteps(c) \/ VerifySteps(c) \/ ReadSteps(c) \/ Reply(c) \/ Interrupted(c)
<1>1. CASE \E d \in Processes :
             CreateSteps(d) \/ VerifySteps(d) \/ ReadSteps(d) \/ Reply(d) \/ Interrupted(d)
  BY <1>1, OthersUntouched
<1>2. CASE UNCHANGED <<call, answer>>
  BY <1>2
<1> QED BY <1>1, <1>2 DEF BillingNext, Mine, ClockStep, ClockMoves, storeVars, billingVars

(* A creation comes to its reply by the transaction, and stays there.      *)
LEMMA CreationsRest ==
  ASSUME ServiceInv, [BillingNext]_billingVars, NEW c \in Processes,
         call'[c].at = "reply", call'[c].op = "create"
  PROVE  StoreInvoice(c) \/ (call'[c] = call[c] /\ answer'[c] = answer[c])
<1> USE DEF ServiceInv, CallTypes
<1>1. ASSUME NEW d \in Processes,
             CreateSteps(d) \/ VerifySteps(d) \/ ReadSteps(d) \/ Reply(d) \/ Interrupted(d)
      PROVE  StoreInvoice(c) \/ (call'[c] = call[c] /\ answer'[c] = answer[c])
  <2>1. CASE d = c
    <3>1. CASE CreateSteps(c)
      <4>1. ASSUME NEW new \in Call, call' = [call EXCEPT ![c] = new]
            PROVE  new.at = "reply" /\ new.op = "create"
        BY <4>1
      <4>2. CASE \E print \in Fingerprints, key \in Keys \cup {NoKey}, i \in InvoiceIds :
                   BeginCreate(c, print, key, i)
        BY <4>2 DEF BeginCreate, Idle
      <4>3. CASE ValidateRecipient(c)
        <5>1. [call[c] EXCEPT !.at = "create"] \in Call
          BY DEF Call
        <5>2. [call[c] EXCEPT !.at = "create"].at = "create"
          BY DEF Call
        <5> QED BY <4>1, <4>3, <5>1, <5>2, IdleTyped DEF ValidateRecipient, Goto, Idle
      <4> QED BY <3>1, <4>2, <4>3 DEF CreateSteps
    <3>2. CASE VerifySteps(c)
      <4>1. CASE \E i \in InvoiceIds : BeginVerify(c, i)
        BY <4>1 DEF BeginVerify, Idle
      <4>2. CASE Observe(c)
        <5>1. call'[c].at \in {"finalize", "reread"}
          BY <4>2 DEF Observe, Call
        <5> QED BY <5>1
      <4>3. ASSUME call[c].at \in {"finalize", "reread"}
            PROVE  call[c].op # "create"
        BY <4>3 DEF CallsHold
      <4> QED
        BY <3>2, <4>1, <4>2, <4>3 DEF VerifySteps, FinalizeObservation, Reread, Goto, Call
    <3>3. CASE ReadSteps(c)
      BY <3>3 DEF ReadSteps, BeginRead, ListInvoices, ExpireInvoices, Idle
    <3>4. CASE Reply(c) \/ Interrupted(c)
      BY <3>4 DEF Reply, Interrupted, Idle
    <3> QED BY <1>1, <2>1, <3>1, <3>2, <3>3, <3>4
  <2> QED BY <1>1, <2>1, OthersUntouched
<1>2. CASE UNCHANGED <<call, answer>>
  BY <1>2
<1> QED
  BY <1>1, <1>2 DEF BillingNext, Mine, ClockStep, ClockMoves, storeVars, billingVars

LEMMA CreationsStayAnswered ==
  ASSUME ServiceInv, CreationsAnswered, [BillingNext]_billingVars
  PROVE  CreationsAnswered'
<1> SUFFICES ASSUME NEW c \in Processes, call'[c].at = "reply", call'[c].op = "create",
                    NEW r \in answer'[c].rows
             PROVE  r.idempotency_key = call'[c].key /\ r.creation_fingerprint = call'[c].print
  BY DEF CreationsAnswered
<1> USE DEF ServiceInv, CallTypes
<1>1. CASE StoreInvoice(c)
  <2>1. call'[c].key = call[c].key /\ call'[c].print = call[c].print
    BY <1>1 DEF StoreInvoice, Goto, Call
  <2> QED BY <1>1, <2>1, CreateAnswersForKey DEF StoreInvoice
<1>2. CASE call'[c] = call[c] /\ answer'[c] = answer[c]
  BY <1>2 DEF CreationsAnswered
<1> QED BY <1>1, <1>2, CreationsRest

(* A creation that was refused for want of room: the table is full, and    *)
(* has no row with its key.                                                *)
Unmet(key) == ~HasRoom /\ (key # NoKey => \A r \in invoices : r.idempotency_key # key)
RefusalsHold ==
  \A c \in Processes :
     /\ call[c].at = "reply" /\ call[c].op = "create"
     /\ answer[c].outcome = "invoice_storage_error"
     => Unmet(call[c].key)

LEMMA FullForGood ==
  ASSUME ServiceInv, IsFiniteSet(invoices), [BillingNext]_billingVars, NEW key, Unmet(key)
  PROVE  Unmet(key)'
<1>1. ~HasRoom'
  BY TableGrows, StoreConstants DEF Unmet, HasRoom
<1>2. ASSUME NEW r \in invoices'
      PROVE  \E q \in invoices : q.idempotency_key = r.idempotency_key
  <2>1. \E q \in invoices : SameTerms(q, r)
    BY CreateAdds, OthersAddNothing DEF Unmet, StoreInvoice
  <2> QED BY <2>1 DEF SameTerms
<1> QED BY <1>1, <1>2 DEF Unmet

LEMMA CreateRefuses ==
  ASSUME ServiceInv, NEW c \in Processes, NEW request, NEW required, NEW key, NEW print,
         Create(c, request, required, key, print),
         answer'[c].outcome = "invoice_storage_error"
  PROVE  Unmet(key)'
<1>1. ASSUME NEW T, NEW rows, Commit(c, T, rows)
      PROVE  FALSE
  BY <1>1 DEF Commit, ServiceInv, StoreInv
<1>2. ASSUME NEW failure, Rollback(c, failure)
      PROVE  invoices' = invoices /\ failure = "invoice_storage_error"
  BY <1>2 DEF Rollback, ServiceInv, StoreInv
<1>3. Previous(key) = {} /\ ~HasRoom /\ invoices' = invoices
  BY <1>1, <1>2 DEF Create
<1>4. ASSUME NEW r \in invoices, key # NoKey, r.idempotency_key = key
      PROVE  FALSE
  <2>1. AfterExpire(r) \in Previous(key)
    BY <1>4, SweptSucceeds DEF Previous, WithKey, Succeeds, ServiceInv, StoreInv
  <2> QED BY <1>3, <2>1
<1> QED BY <1>3, <1>4 DEF Unmet, HasRoom

LEMMA RefusalsStayHeld ==
  ASSUME ServiceInv, IsFiniteSet(invoices), RefusalsHold, [BillingNext]_billingVars
  PROVE  RefusalsHold'
<1> SUFFICES ASSUME NEW c \in Processes, call'[c].at = "reply", call'[c].op = "create",
                    answer'[c].outcome = "invoice_storage_error"
             PROVE  Unmet(call[c].key)'
    BY DEF RefusalsHold
<1>1. CASE StoreInvoice(c)
  <2>1. call'[c].key = call[c].key
    BY <1>1 DEF StoreInvoice, Goto, Call, ServiceInv, CallTypes
  <2>2. ASSUME NEW key, key = call[c].key PROVE Unmet(key)'
    BY <1>1, <2>2, CreateRefuses DEF StoreInvoice
  <2> QED BY <2>1, <2>2 DEF Unmet
<1>2. CASE call'[c] = call[c] /\ answer'[c] = answer[c]
  <2>1. ASSUME NEW key, key = call[c].key PROVE Unmet(key)'
    BY <1>2, <2>1, FullForGood DEF RefusalsHold
  <2> QED BY <1>2, <2>1 DEF Unmet
<1> QED BY <1>1, <1>2, CreationsRest

(* Under one idempotency key, callers are only ever given one invoice,     *)
(* through lost answers, repeated and simultaneous calls and expiry; and   *)
(* no creation is refused for want of room while an invoice has its key.   *)
THEOREM KeysNameOneInvoice == BillingSpec => []OneInvoicePerKey
<1> DEFINE KeyInv == /\ RowsHeld /\ CreationsAnswered /\ IssuedStored
                     /\ IsFiniteSet(invoices) /\ RefusalsHold
<1>1. BillingInit => KeyInv
  BY FS_EmptySet DEF BillingInit, StoreInit, RowsHeld, CreationsAnswered, IssuedStored,
                     RefusalsHold, Nothing, Idle
<1>2. ServiceInv /\ KeyInv /\ [BillingNext]_billingVars => KeyInv'
  <2> SUFFICES ASSUME ServiceInv, KeyInv, [BillingNext]_billingVars
               PROVE  IssuedStored'
    BY RowsStayHeld, CreationsStayAnswered, TableStaysFinite, RefusalsStayHeld
  <2>1. ASSUME NEW a \in issued',
               \E r \in invoices : /\ r.request.invoice_id = a.invoice_id
                                   /\ r.idempotency_key = a.key
                                   /\ r.creation_fingerprint = a.print
        PROVE  \E s \in invoices' : /\ s.request.invoice_id = a.invoice_id
                                    /\ s.idempotency_key = a.key
                                    /\ s.creation_fingerprint = a.print
    BY <2>1, RowsSucceed DEF Succeeds
  <2>2. ASSUME NEW c \in Processes, Reply(c), NEW a \in issued', a \notin issued
        PROVE  \E r \in invoices : /\ r.request.invoice_id = a.invoice_id
                                   /\ r.idempotency_key = a.key
                                   /\ r.creation_fingerprint = a.print
    <3>1. /\ call[c].op = "create"
          /\ \E r \in Shown(c) : a = [key |-> call[c].key, print |-> call[c].print,
                                      invoice_id |-> r.request.invoice_id]
      BY <2>2 DEF Reply
    <3>2. PICK r \in answer[c].rows :
            a = [key |-> call[c].key, print |-> call[c].print,
                 invoice_id |-> r.request.invoice_id]
      BY <3>1 DEF Shown, Visible
    <3>3. call[c].at = "reply"
      BY <2>2, <3>1 DEF Reply, Finished, ServiceInv, CallsHold
    <3>4. PICK s \in invoices : Succeeds(r, s)
      BY <3>2 DEF RowsHeld
    <3> QED BY <3>1, <3>2, <3>3, <3>4 DEF CreationsAnswered, Succeeds
  <2> QED BY <2>1, <2>2, OnlyRepliesTell DEF IssuedStored
<1>3. ServiceInv /\ KeyInv => OneInvoicePerKey
  BY DEF ServiceInv, StoreInv, TableOK, Identified, CallTypes, Issue, IssuedStored,
         RefusalsHold, Unmet, OneInvoicePerKey
<1> QED BY <1>1, <1>2, <1>3, ServiceInvariant, PTL DEF BillingSpec

-----------------------------------------------------------------------------
(* Reasons.                                                                *)

(* What a verification knows: nothing before it has asked the wallet, the  *)
(* confirmation while it finalizes, another reason while it reads again;   *)
(* and after a confirmation it is not answered with a pending invoice.     *)
Alike(rows) == \A r, s \in rows : r = s
Decided(rows) == \A r \in rows : r.state # "PENDING"
ReasonKnown(c) ==
  /\ call[c].at \in {"validate", "create"} => call[c].op # "verify"
  /\ call[c].op = "verify" =>
       /\ call[c].at = "verify" => call[c].reason = "none" /\ Alike(answer[c].rows)
       /\ call[c].at = "finalize" => call[c].reason = "confirmed"
       /\ call[c].at = "reread" => call[c].reason \notin {"none", "confirmed"}
       /\ call[c].at = "reply" =>
            /\ call[c].reason # "none" /\ Alike(answer[c].rows)
            /\ call[c].reason = "confirmed" => Decided(answer[c].rows)
ReasonsKnown == \A c \in Processes : ReasonKnown(c)

LEMMA GetAnswersAlike ==
  ASSUME StoreInv, NEW c \in Processes, NEW i, Get(c, i)
  PROVE  Alike(answer'[c].rows)
<1>1. CASE Rollback(c, "invoice_not_found")
  BY <1>1 DEF Rollback, Alike, StoreInv
<1>2. CASE Commit(c, Swept, WithId(Swept, i))
  <2>1. answer'[c].rows = WithId(Swept, i)
    BY <1>2 DEF Commit, StoreInv
  <2> QED BY <2>1, SweptTable DEF Alike, WithId, StoreInv, TableOK, Identified
<1> QED BY <1>1, <1>2 DEF Get

LEMMA FinalizeAnswersDecided ==
  ASSUME StoreInv, NEW c \in Processes, NEW request, NEW obs, Finalize(c, request, obs)
  PROVE  Alike(answer'[c].rows) /\ Decided(answer'[c].rows)
<1>1. ASSUME NEW failure, Rollback(c, failure)
      PROVE  Alike(answer'[c].rows) /\ Decided(answer'[c].rows)
  BY <1>1 DEF Rollback, Alike, Decided, StoreInv
<1>2. ASSUME NEW T, NEW r, r.state # "PENDING", Commit(c, T, {r})
      PROVE  Alike(answer'[c].rows) /\ Decided(answer'[c].rows)
  BY <1>2 DEF Commit, Alike, Decided, StoreInv
<1>3. \A r \in Swept : PaidRow(r, obs).state # "PENDING"
  BY SweptTable DEF PaidRow, StoreInv, TableOK, Row
<1> QED BY <1>1, <1>2, <1>3 DEF Finalize, WithId

LEMMA StepKnowsReasons ==
  ASSUME ServiceInv, ReasonsKnown, [BillingNext]_billingVars
  PROVE  ReasonsKnown'
<1> SUFFICES ASSUME NEW c \in Processes PROVE ReasonKnown(c)'
  BY DEF ReasonsKnown
<1> USE DEF ServiceInv, CallTypes
<1>1. CASE call'[c] = call[c] /\ answer'[c] = answer[c]
  BY <1>1 DEF ReasonsKnown, ReasonKnown
<1>2. CASE CreateSteps(c) \/ ReadSteps(c) \/ Reply(c) \/ Interrupted(c)
  <2>1. ASSUME call'[c].op # "verify" PROVE ReasonKnown(c)'
    BY <2>1 DEF ReasonKnown
  <2>2. CASE ReadSteps(c) \/ Reply(c) \/ Interrupted(c)
    <3>1. ASSUME NEW op \in {"read", "require"},
                 call' = [call EXCEPT ![c] = [Idle EXCEPT !.at = "reply", !.op = op]]
          PROVE  ReasonKnown(c)'
      BY <2>1, <3>1 DEF Idle
    <3>2. CASE ReadSteps(c)
      <4>1. PICK op \in {"read", "require"} :
              call' = [call EXCEPT ![c] = [Idle EXCEPT !.at = "reply", !.op = op]]
        BY <3>2 DEF ReadSteps, BeginRead, ListInvoices, ExpireInvoices
      <4> QED BY <3>1, <4>1
    <3>3. CASE Reply(c) \/ Interrupted(c)
      BY <2>1, <3>3 DEF Reply, Interrupted, Idle
    <3> QED BY <2>2, <3>2, <3>3
  <2>3. ASSUME NEW print, NEW key, NEW i, BeginCreate(c, print, key, i)
        PROVE  ReasonKnown(c)'
    BY <2>1, <2>3 DEF BeginCreate, Idle
  <2>4. CASE ValidateRecipient(c) \/ StoreInvoice(c)
    <3>1. call[c].op # "verify"
      BY <2>4 DEF ValidateRecipient, StoreInvoice, ReasonsKnown, ReasonKnown
    <3>2. call'[c].op \in {call[c].op, "none"}
      BY <2>4 DEF ValidateRecipient, StoreInvoice, Goto, Idle, Call
    <3> QED BY <2>1, <3>1, <3>2
  <2> QED BY <1>2, <2>2, <2>3, <2>4 DEF CreateSteps
<1>3. ASSUME NEW i \in InvoiceIds, BeginVerify(c, i)
      PROVE  ReasonKnown(c)'
  <2>1. call'[c].at = "verify" /\ call'[c].reason = "none"
    BY <1>3 DEF BeginVerify, Idle
  <2> QED BY <1>3, <2>1, GetAnswersAlike DEF BeginVerify, ReasonKnown
<1>4. CASE Observe(c)
  BY <1>4 DEF Observe, ReasonKnown, Verdict, Call
<1>5. CASE FinalizeObservation(c)
  <2>1. /\ call'[c].at = "reply" /\ call'[c].reason = call[c].reason
        /\ call[c].op = "verify" /\ call[c].at = "finalize"
    BY <1>5 DEF FinalizeObservation, Goto, Call, CallsHold
  <2> QED BY <1>5, <2>1, FinalizeAnswersDecided DEF FinalizeObservation, ReasonsKnown, ReasonKnown
<1>6. CASE Reread(c)
  <2>1. /\ call'[c].at = "reply" /\ call'[c].reason = call[c].reason
        /\ call[c].op = "verify" /\ call[c].at = "reread"
    BY <1>6 DEF Reread, Goto, Call, CallsHold
  <2> QED BY <1>6, <2>1, GetAnswersAlike DEF Reread, ReasonsKnown, ReasonKnown
<1>7. CASE UNCHANGED <<call, answer>>
  BY <1>1, <1>7
<1> QED
  BY <1>1, <1>2, <1>3, <1>4, <1>5, <1>6, <1>7, OthersUntouched
     DEF BillingNext, VerifySteps, Mine, ClockStep, ClockMoves, storeVars, billingVars

(* verify_invoice's reason, which it forms from an observation and the     *)
(* record of a later transaction, never contradicts that record.           *)
THEOREM ReasonsAgree == BillingSpec => []ReasonAgrees
<1>1. BillingInit => ReasonsKnown
  BY DEF BillingInit, ReasonsKnown, ReasonKnown, Idle
<1>2. ServiceInv /\ ReasonsKnown /\ [BillingNext]_billingVars => ReasonsKnown'
  BY StepKnowsReasons
<1>3. ServiceInv /\ ReasonsKnown => ReasonAgrees
  <2> SUFFICES ASSUME ServiceInv, ReasonsKnown, NEW c \in Processes, Finished(c),
                      call[c].op = "verify", NEW r \in Visible(c)
               PROVE  /\ Reason(c) \in {"confirmed", "already_paid"} => r.state = "PAID"
                      /\ Reason(c) = "expired" <=> r.state = "EXPIRED"
    BY DEF ReasonAgrees
  <2>1. r \in answer[c].rows /\ r.state \in States /\ call[c].reason \in Reasons
    BY DEF Visible, ServiceInv, StoreInv, Answers, Row, CallTypes, Call
  <2>2. \A s \in Visible(c) : s = r
    BY <2>1 DEF ReasonsKnown, ReasonKnown, Finished, Alike, Visible
  <2>3. call[c].reason \in {"none", "confirmed"} => r.state # "PENDING"
    BY <2>1 DEF ReasonsKnown, ReasonKnown, Finished, Decided
  <2> QED BY <2>1, <2>2, <2>3 DEF Reason, Reasons, States
<1> QED BY <1>1, <1>2, <1>3, ServiceInvariant, PTL DEF BillingSpec
=============================================================================
