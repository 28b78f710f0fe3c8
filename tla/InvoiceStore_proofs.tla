------------------------- MODULE InvoiceStore_proofs -------------------------
(***************************************************************************)
(* Proofs about the invoice database, for all processes, ids, networks,    *)
(* transactions, keys, requests, capacities and clocks.                    *)
(*                                                                         *)
(* A transaction of the store leaves the table swept, or swept with a new  *)
(* row, or swept with one pending row paid; three lemmas say that each of  *)
(* these keeps a good table good, and that it contains a successor of      *)
(* every row.  One lemma says that every step is one of these three or     *)
(* leaves the table alone; the theorems follow from the four.              *)
(***************************************************************************)
EXTENDS InvoiceStore, TLAPS

(* The inductive invariant, of any table.                                  *)
Decodes(T) == \A r \in T : RecordValid(r)
ConsumedOnce(T) ==
  \A r, s \in T :
     /\ r.state = "PAID" /\ s.state = "PAID"
     /\ r.txid = s.txid /\ r.request.network = s.request.network
     => r = s
Identified(T) ==
  \A r, s \in T :
     \/ r.request.invoice_id = s.request.invoice_id
     \/ r.idempotency_key = s.idempotency_key /\ r.idempotency_key # NoKey
     => r = s
TableOK(T) == T \subseteq Row /\ Decodes(T) /\ ConsumedOnce(T) /\ Identified(T)

StoreInv == TableOK(invoices) /\ now \in Times /\ answer \in [Processes -> Answers]

(* What can become of the table: the row that a creation adds is pending   *)
(* with an id and a key that no row has; the row that a finalization pays  *)
(* was pending, and its transaction was not consumed on its network.       *)
Inserts(T, new) ==
  /\ new \in Row /\ RecordValid(new) /\ new.state = "PENDING"
  /\ \A r \in T : r.request.invoice_id # new.request.invoice_id
  /\ \A r \in T : r.idempotency_key = new.idempotency_key => r.idempotency_key = NoKey

Settles(T, old, paid) ==
  /\ old \in T /\ old.state = "PENDING"
  /\ paid \in Row /\ RecordValid(paid) /\ paid.state = "PAID" /\ Succeeds(old, paid)
  /\ \A r \in T : r.state = "PAID" =>
       r.txid # paid.txid \/ r.request.network # paid.request.network

Evolves(T, U) ==
  \/ U = T
  \/ \E new \in Row : Inserts(T, new) /\ U = T \cup {new}
  \/ \E old, paid \in Row : Settles(T, old, paid) /\ U = (T \ {old}) \cup {paid}

-----------------------------------------------------------------------------

(* The sweep changes nothing but the state of a pending row.               *)
LEMMA SweptRow ==
  ASSUME NEW r \in Row
  PROVE  /\ AfterExpire(r) \in Row
         /\ Succeeds(r, AfterExpire(r))
         /\ AfterExpire(r).state \in {r.state, "EXPIRED"}
         /\ AfterExpire(r).state = "PAID" <=> r.state = "PAID"
         /\ AfterExpire(r).state = "PENDING" => AfterExpire(r) = r
         /\ RecordValid(r) => RecordValid(AfterExpire(r))
  BY DEF Row, AfterExpire, Lapses, Succeeds, RecordValid, States

(* A good table swept is a good table.                                     *)
LEMMA SweptTable ==
  ASSUME TableOK(invoices)
  PROVE  TableOK(Swept)
<1>1. Swept \subseteq Row
  BY SweptRow DEF TableOK, Swept
<1>2. Decodes(Swept)
  BY SweptRow DEF TableOK, Decodes, Swept
<1>3. ConsumedOnce(Swept)
  <2> SUFFICES ASSUME NEW r \in invoices, NEW s \in invoices,
                      AfterExpire(r).state = "PAID", AfterExpire(s).state = "PAID",
                      AfterExpire(r).txid = AfterExpire(s).txid,
                      AfterExpire(r).request.network = AfterExpire(s).request.network
               PROVE  AfterExpire(r) = AfterExpire(s)
    BY DEF ConsumedOnce, Swept
  <2>1. AfterExpire(r) = r /\ AfterExpire(s) = s
    BY SweptRow DEF TableOK, Succeeds
  <2> QED BY <2>1 DEF TableOK, ConsumedOnce
<1>4. Identified(Swept)
  BY SweptRow DEF TableOK, Identified, Swept, Succeeds
<1> QED BY <1>1, <1>2, <1>3, <1>4 DEF TableOK

(* A good table stays good when it evolves.                                *)
LEMMA EvolvedTable ==
  ASSUME NEW T, NEW U, TableOK(T), Evolves(T, U)
  PROVE  TableOK(U)
<1>1. CASE U = T
  BY <1>1
<1>2. ASSUME NEW new \in Row, Inserts(T, new), U = T \cup {new}
      PROVE  TableOK(U)
  BY <1>2 DEF TableOK, Decodes, ConsumedOnce, Identified, Inserts
<1>3. ASSUME NEW old \in Row, NEW paid \in Row, Settles(T, old, paid),
             U = (T \ {old}) \cup {paid}
      PROVE  TableOK(U)
  <2>1. U \subseteq Row /\ Decodes(U)
    BY <1>3 DEF TableOK, Decodes, Settles
  <2>2. ConsumedOnce(U)
    BY <1>3 DEF TableOK, ConsumedOnce, Settles
  <2>3. Identified(U)
    <3>1. /\ paid.request = old.request /\ paid.idempotency_key = old.idempotency_key
      BY <1>3 DEF Settles, Succeeds
    <3> QED BY <1>3, <3>1 DEF TableOK, Identified, Settles
  <2> QED BY <2>1, <2>2, <2>3 DEF TableOK
<1> QED BY <1>1, <1>2, <1>3 DEF Evolves

-----------------------------------------------------------------------------

(* The swept table holds a successor of every row.                         *)
LEMMA SweptSucceeds ==
  ASSUME TableOK(invoices), NEW r \in invoices
  PROVE  AfterExpire(r) \in Swept /\ Succeeds(r, AfterExpire(r))
  BY SweptRow DEF TableOK, Swept

LEMMA SuccessionIsTransitive ==
  ASSUME NEW r, NEW s, NEW u, Succeeds(r, s), Succeeds(s, u)
  PROVE  Succeeds(r, u)
  BY DEF Succeeds

(* A table that evolves holds a successor of every row.                    *)
LEMMA EvolvedSucceeds ==
  ASSUME NEW T, NEW U, Evolves(T, U), NEW r \in T
  PROVE  \E s \in U : Succeeds(r, s)
<1>1. Succeeds(r, r)
  BY DEF Succeeds
<1>2. ASSUME NEW old \in Row, NEW paid \in Row, Settles(T, old, paid),
             U = (T \ {old}) \cup {paid}
      PROVE  \E s \in U : Succeeds(r, s)
  BY <1>1, <1>2 DEF Settles
<1> QED BY <1>1, <1>2 DEF Evolves

(* What an operation does to the table, operation by operation.            *)
Outcome == invoices' = invoices \/ Evolves(Swept, invoices')

LEMMA CreateOutcome ==
  ASSUME StoreInv, NEW p \in Processes, NEW request \in Requests,
         NEW required \in 1..MaxConfirmations, NEW key \in Keys \cup {NoKey},
         NEW print \in Fingerprints,
         Create(p, request, required, key, print)
  PROVE  Outcome /\ StoreInv'
<1> DEFINE new == NewRow(request, required, key, print)
           fresh == \A r \in invoices : /\ r.request.invoice_id # request.invoice_id
                                        /\ r.idempotency_key = key => key = NoKey
<1>1. TableOK(Swept)
  BY SweptTable DEF StoreInv
<1>2. new \in Row /\ RecordValid(new) /\ new.state = "PENDING"
  BY StoreConstants DEF NewRow, Row, RecordValid, States
<1>3. ASSUME fresh
      PROVE  Inserts(Swept, new)
  <2>1. ASSUME NEW r \in invoices
        PROVE  /\ AfterExpire(r).request.invoice_id # new.request.invoice_id
               /\ AfterExpire(r).idempotency_key = new.idempotency_key
                    => AfterExpire(r).idempotency_key = NoKey
    BY <1>3, <2>1, SweptRow DEF NewRow, Succeeds, StoreInv, TableOK
  <2> QED BY <1>2, <2>1 DEF Inserts, Swept
<1>4. /\ now' = now
      /\ \/ invoices' = invoices /\ answer' \in [Processes -> Answers]
         \/ invoices' = Swept /\ answer' \in [Processes -> Answers]
         \/ /\ Inserts(Swept, new) /\ invoices' = Swept \cup {new}
            /\ answer' \in [Processes -> Answers]
  <2> USE DEF Commit, Rollback
  <2>1. ASSUME NEW failure \in Failures, Rollback(p, failure)
        PROVE  invoices' = invoices /\ now' = now /\ answer' \in [Processes -> Answers]
    BY <2>1 DEF StoreInv, Answers
  <2>2. ASSUME NEW T, NEW rows \in SUBSET Row, Commit(p, T, rows)
        PROVE  invoices' = T /\ now' = now /\ answer' \in [Processes -> Answers]
    BY <2>2 DEF StoreInv, Answers
  <2>3. Previous(key) \in SUBSET Row /\ {new} \in SUBSET Row
    BY <1>1, <1>2 DEF Previous, WithKey, TableOK
  <2> HIDE DEF new, fresh, Commit, Rollback
  <2> QED
    BY <1>3, <2>1, <2>2, <2>3 DEF Create, Failures, new, fresh
<1> HIDE DEF new
<1>5. Outcome
  BY <1>2, <1>4 DEF Outcome, Evolves
<1>6. TableOK(invoices')
  BY <1>1, <1>5, EvolvedTable DEF Outcome, StoreInv
<1> QED BY <1>4, <1>5, <1>6 DEF StoreInv

LEMMA FinalizeOutcome ==
  ASSUME StoreInv, NEW p \in Processes, NEW request \in Requests, NEW obs \in Observation,
         Finalize(p, request, obs)
  PROVE  Outcome /\ StoreInv'
<1> DEFINE found == WithId(Swept, request.invoice_id)
<1>1. TableOK(Swept)
  BY SweptTable DEF StoreInv
<1>2. ASSUME NEW failure \in Failures, Rollback(p, failure)
      PROVE  Outcome /\ StoreInv'
  BY <1>2 DEF Rollback, StoreInv, Answers, Outcome
<1>3. ASSUME NEW T, NEW rows \in SUBSET Row, Commit(p, T, rows), Evolves(Swept, T)
      PROVE  Outcome /\ StoreInv'
  <2>1. TableOK(T)
    BY <1>1, <1>3, EvolvedTable
  <2> QED BY <1>3, <2>1 DEF Commit, StoreInv, Answers, Outcome
<1>4. ASSUME NEW r \in found, r.request = request, r.state = "PENDING",
             RecordValid(PaidRow(r, obs)), ~Consumed(request.network, obs.txid)
      PROVE  Settles(Swept, r, PaidRow(r, obs))
  <2>1. r \in Row /\ r \in Swept
    BY <1>1 DEF WithId, TableOK
  <2>2. PaidRow(r, obs) \in Row /\ Succeeds(r, PaidRow(r, obs))
    BY <1>4, <2>1 DEF PaidRow, Row, Succeeds, Observation, States, StoreInv
  <2>3. ASSUME NEW s \in invoices, AfterExpire(s).state = "PAID",
               AfterExpire(s).txid = obs.txid,
               AfterExpire(s).request.network = request.network
        PROVE  FALSE
    <3>1. AfterExpire(s) = s
      BY <2>3, SweptRow DEF StoreInv, TableOK, Succeeds
    <3> QED BY <1>4, <2>3, <3>1 DEF Consumed
  <2>4. /\ PaidRow(r, obs).txid = obs.txid /\ PaidRow(r, obs).state = "PAID"
        /\ PaidRow(r, obs).request.network = request.network
    BY <1>4, <2>1 DEF PaidRow, Row
  <2> QED BY <1>4, <2>1, <2>2, <2>3, <2>4 DEF Settles, Swept
<1>5. CASE \E failure \in Failures : Rollback(p, failure)
  BY <1>2, <1>5
<1>6. ASSUME NEW r \in found, r.state # "PENDING", Commit(p, Swept, {r})
      PROVE  Outcome /\ StoreInv'
  BY <1>1, <1>3, <1>6 DEF Evolves, WithId, TableOK
<1>7. ASSUME NEW r \in found, r.request = request, r.state = "PENDING",
             RecordValid(PaidRow(r, obs)), ~Consumed(request.network, obs.txid),
             Commit(p, (Swept \ {r}) \cup {PaidRow(r, obs)}, {PaidRow(r, obs)})
      PROVE  Outcome /\ StoreInv'
  <2>1. Settles(Swept, r, PaidRow(r, obs))
    BY <1>4, <1>7
  <2>2. r \in Row /\ PaidRow(r, obs) \in Row
    BY <1>1, <2>1 DEF Settles, TableOK
  <2>3. Evolves(Swept, (Swept \ {r}) \cup {PaidRow(r, obs)})
    BY <2>1, <2>2 DEF Evolves
  <2> QED BY <1>3, <1>7, <2>2, <2>3
<1> QED
  BY <1>5, <1>6, <1>7 DEF Finalize, Failures

(* The operations that only read: they persist the sweep.                  *)
LEMMA ReadOutcome ==
  ASSUME StoreInv, NEW p \in Processes, NEW rows \in SUBSET Row, Commit(p, Swept, rows)
  PROVE  Outcome /\ StoreInv'
  BY SweptTable DEF Commit, StoreInv, Answers, Outcome, Evolves

LEMMA RollbackOutcome ==
  ASSUME StoreInv, NEW p \in Processes, NEW failure \in Failures, Rollback(p, failure)
  PROVE  Outcome /\ StoreInv'
  BY DEF Rollback, StoreInv, Answers, Outcome

(* Every step keeps the invariant and leaves the table alone or makes it   *)
(* evolve from the swept one.                                              *)
LEMMA StepOutcome ==
  ASSUME StoreInv, [StoreNext]_storeVars
  PROVE  Outcome /\ StoreInv'
<1>1. Swept \subseteq Row
  BY SweptTable DEF StoreInv, TableOK
<1>2. ASSUME NEW p \in Processes, Operation(p)
      PROVE  Outcome /\ StoreInv'
  <2>1. ASSUME NEW request \in Requests, NEW required \in 1..MaxConfirmations,
               NEW key \in Keys \cup {NoKey}, NEW print \in Fingerprints,
               Create(p, request, required, key, print)
        PROVE  Outcome /\ StoreInv'
    BY <2>1, CreateOutcome
  <2>2. ASSUME NEW i \in InvoiceIds, Get(p, i)
        PROVE  Outcome /\ StoreInv'
    <3>1. WithId(Swept, i) \in SUBSET Row
      BY <1>1 DEF WithId
    <3> QED BY <2>2, <3>1, ReadOutcome, RollbackOutcome DEF Get, Failures
  <2>3. ASSUME NEW n \in Networks, NEW after \in InvoiceIds \cup {0}, NEW limit \in PageSizes,
               List(p, n, after, limit)
        PROVE  Outcome /\ StoreInv'
    <3>1. Page(Swept, n, after, limit) \in SUBSET Row
      BY <1>1 DEF Page
    <3> QED BY <2>3, <3>1, ReadOutcome DEF List
  <2>4. ASSUME Expire(p)
        PROVE  Outcome /\ StoreInv'
    BY <2>4, ReadOutcome DEF Expire
  <2>5. ASSUME NEW request \in Requests, NEW obs \in Observation, Finalize(p, request, obs)
        PROVE  Outcome /\ StoreInv'
    BY <2>5, FinalizeOutcome
  <2>6. ASSUME TransactionFails(p)
        PROVE  Outcome /\ StoreInv'
    BY <2>6, RollbackOutcome DEF TransactionFails, Failures
  <2> QED BY <1>2, <2>1, <2>2, <2>3, <2>4, <2>5, <2>6 DEF Operation
<1>3. ASSUME NEW p \in Processes, PickUp(p)
      PROVE  Outcome /\ StoreInv'
  BY <1>3 DEF PickUp, StoreInv, Outcome, Nothing, Answers
<1>4. ASSUME NEW t \in Times, ClockMoves(t)
      PROVE  Outcome /\ StoreInv'
  BY <1>4 DEF ClockMoves, StoreInv, Outcome
<1>5. CASE UNCHANGED storeVars
  BY <1>5 DEF storeVars, StoreInv, Outcome
<1> QED BY <1>2, <1>3, <1>4, <1>5 DEF StoreNext

(* What a step gives a process is in the table that the step leaves.       *)
LEMMA StepAnswers ==
  ASSUME StoreInv, [StoreNext]_storeVars, NEW c \in Processes
  PROVE  answer'[c] = answer[c] \/ answer'[c].rows \subseteq invoices'
<1>1. ASSUME NEW p \in Processes, NEW failure \in Failures, Rollback(p, failure)
      PROVE  answer'[c] = answer[c] \/ answer'[c].rows \subseteq invoices'
  BY <1>1 DEF Rollback, StoreInv
<1>2. ASSUME NEW p \in Processes, NEW T, NEW rows \in SUBSET T, Commit(p, T, rows)
      PROVE  answer'[c] = answer[c] \/ answer'[c].rows \subseteq invoices'
  BY <1>2 DEF Commit, StoreInv
<1>3. ASSUME NEW p \in Processes, Operation(p)
      PROVE  answer'[c] = answer[c] \/ answer'[c].rows \subseteq invoices'
  <2>1. ASSUME NEW request \in Requests, NEW required \in 1..MaxConfirmations,
               NEW key \in Keys \cup {NoKey}, NEW print \in Fingerprints,
               Create(p, request, required, key, print)
        PROVE  answer'[c] = answer[c] \/ answer'[c].rows \subseteq invoices'
    <3>1. Previous(key) \in SUBSET Swept
      BY DEF Previous, WithKey
    <3> QED BY <1>1, <1>2, <2>1, <3>1 DEF Create, Failures
  <2>2. ASSUME NEW i \in InvoiceIds, Get(p, i)
        PROVE  answer'[c] = answer[c] \/ answer'[c].rows \subseteq invoices'
    <3>1. WithId(Swept, i) \in SUBSET Swept
      BY DEF WithId
    <3> QED BY <1>1, <1>2, <2>2, <3>1 DEF Get, Failures
  <2>3. ASSUME NEW n \in Networks, NEW after \in InvoiceIds \cup {0}, NEW limit \in PageSizes,
               List(p, n, after, limit)
        PROVE  answer'[c] = answer[c] \/ answer'[c].rows \subseteq invoices'
    <3>1. Page(Swept, n, after, limit) \in SUBSET Swept
      BY DEF Page
    <3> QED BY <1>2, <2>3, <3>1 DEF List
  <2>4. ASSUME Expire(p)
        PROVE  answer'[c] = answer[c] \/ answer'[c].rows \subseteq invoices'
    BY <1>2, <2>4 DEF Expire
  <2>5. ASSUME NEW request \in Requests, NEW obs \in Observation, Finalize(p, request, obs)
        PROVE  answer'[c] = answer[c] \/ answer'[c].rows \subseteq invoices'
    <3>1. WithId(Swept, request.invoice_id) \in SUBSET Swept
      BY DEF WithId
    <3> QED BY <1>1, <1>2, <2>5, <3>1 DEF Finalize, Failures
  <2>6. ASSUME TransactionFails(p)
        PROVE  answer'[c] = answer[c] \/ answer'[c].rows \subseteq invoices'
    BY <1>1, <2>6 DEF TransactionFails, Failures
  <2> QED BY <1>3, <2>1, <2>2, <2>3, <2>4, <2>5, <2>6 DEF Operation
<1>4. ASSUME NEW p \in Processes, PickUp(p)
      PROVE  answer'[c] = answer[c] \/ answer'[c].rows \subseteq invoices'
  BY <1>4 DEF PickUp, StoreInv, Nothing
<1> QED BY <1>3, <1>4 DEF StoreNext, ClockMoves, storeVars

(* Final rows stay in the table.                                           *)
LEMMA FinalRowsStay ==
  ASSUME StoreInv, [StoreNext]_storeVars, NEW r \in invoices, r.state # "PENDING"
  PROVE  r \in invoices'
<1>1. CASE Evolves(Swept, invoices')
  <2>1. AfterExpire(r) = r /\ r \in Swept
    BY SweptSucceeds DEF StoreInv, Succeeds
  <2> QED BY <1>1, <2>1, EvolvedSucceeds DEF Succeeds
<1> QED BY <1>1, StepOutcome DEF Outcome

-----------------------------------------------------------------------------

LEMMA StoreInvariant == StoreSpec => []StoreInv
<1>1. StoreInit => StoreInv
  BY DEF StoreInit, StoreInv, TableOK, Decodes, ConsumedOnce, Identified, Answers, Nothing
<1>2. StoreInv /\ [StoreNext]_storeVars => StoreInv'
  BY StepOutcome
<1> QED BY <1>1, <1>2, PTL DEF StoreSpec

(* Every variable of the database keeps its type.                          *)
THEOREM StoreTypeCorrect == StoreSpec => []StoreTypeOK
<1>1. StoreInv => StoreTypeOK
  BY DEF StoreInv, TableOK, StoreTypeOK
<1> QED BY <1>1, StoreInvariant, PTL

(* No caller, clock or schedule makes the store write a row that it cannot *)
(* read back: _decode never raises on a table only the store has written.  *)
THEOREM StoredRowsDecode == StoreSpec => []EveryRowDecodes
<1>1. StoreInv => EveryRowDecodes
  BY DEF StoreInv, TableOK, Decodes, EveryRowDecodes
<1> QED BY <1>1, StoreInvariant, PTL

(* A transaction of a network pays at most one invoice of the database.    *)
THEOREM NoDoubleConsumption == StoreSpec => []TransactionConsumedOnce
<1>1. StoreInv => TransactionConsumedOnce
  BY DEF StoreInv, TableOK, ConsumedOnce, TransactionConsumedOnce
<1> QED BY <1>1, StoreInvariant, PTL

(* Invoice ids and idempotency keys stay unique: the sequence of checks of *)
(* create leaves nothing for the UNIQUE constraint on keys to catch.       *)
THEOREM IdentitiesUnique == StoreSpec => []RowsIdentified
<1>1. StoreInv => RowsIdentified
  BY DEF StoreInv, TableOK, Identified, RowsIdentified
<1> QED BY <1>1, StoreInvariant, PTL

(* Rows are never deleted, their terms never change, PAID and EXPIRED are  *)
(* final.                                                                  *)
THEOREM RowsEvolveLegally == StoreSpec => LegalTransitions
<1> DEFINE Legal == \A r \in invoices : \E s \in invoices' : Succeeds(r, s)
<1>1. StoreInv /\ [StoreNext]_storeVars => [Legal]_storeVars
  <2> SUFFICES ASSUME StoreInv, [StoreNext]_storeVars, NEW r \in invoices
               PROVE  \E s \in invoices' : Succeeds(r, s)
    OBVIOUS
  <2>1. CASE invoices' = invoices
    BY <2>1 DEF Succeeds
  <2>2. CASE Evolves(Swept, invoices')
    <3>1. AfterExpire(r) \in Swept /\ Succeeds(r, AfterExpire(r))
      BY SweptSucceeds DEF StoreInv
    <3>2. PICK s \in invoices' : Succeeds(AfterExpire(r), s)
      BY <2>2, <3>1, EvolvedSucceeds
    <3> QED BY <3>1, <3>2, SuccessionIsTransitive
  <2> QED BY <2>1, <2>2, StepOutcome DEF Outcome
<1> QED BY <1>1, StoreInvariant, PTL DEF StoreSpec, LegalTransitions

-----------------------------------------------------------------------------
(* The refinement of the ledger.                                           *)

StateIds(T, state) == {r.request.invoice_id : r \in {q \in T : q.state = state}}
SettledOf(T) == {[network |-> r.request.network, txid |-> r.txid,
                  invoice_id |-> r.request.invoice_id] : r \in {q \in T : q.state = "PAID"}}
Late == {r.request.invoice_id : r \in {q \in invoices : Lapses(q)}}

(* The sweep moves the late invoices from pending to expired.              *)
LEMMA SweptLedger ==
  ASSUME StoreInv
  PROVE  /\ Late \in SUBSET StateIds(invoices, "PENDING")
         /\ StateIds(Swept, "PENDING") = StateIds(invoices, "PENDING") \ Late
         /\ StateIds(Swept, "EXPIRED") = StateIds(invoices, "EXPIRED") \cup Late
         /\ SettledOf(Swept) = SettledOf(invoices)
<1> USE DEF StoreInv, TableOK
<1>1. Late \in SUBSET StateIds(invoices, "PENDING")
  BY DEF Late, StateIds, Lapses
<1>2. StateIds(Swept, "PENDING") = StateIds(invoices, "PENDING") \ Late
  BY SweptRow DEF StateIds, Late, Swept, AfterExpire, Identified, Lapses, Row, States
<1>3. StateIds(Swept, "EXPIRED") = StateIds(invoices, "EXPIRED") \cup Late
  <2>1. ASSUME NEW r \in invoices
        PROVE  /\ AfterExpire(r).request = r.request
               /\ AfterExpire(r).state = "EXPIRED" <=> r.state = "EXPIRED" \/ Lapses(r)
    BY SweptRow DEF AfterExpire, Lapses, Row, States, Succeeds
  <2> QED BY <2>1 DEF StateIds, Late, Swept
<1>4. {q \in Swept : q.state = "PAID"} = {q \in invoices : q.state = "PAID"}
  BY SweptRow DEF Swept, AfterExpire, Lapses, Row, States
<1> QED BY <1>1, <1>2, <1>3, <1>4 DEF SettledOf

(* A new row issues an invoice.                                            *)
LEMMA InsertedLedger ==
  ASSUME NEW T, TableOK(T), NEW new \in Row, Inserts(T, new), NEW U, U = T \cup {new}
  PROVE  /\ new.request.invoice_id \notin StateIds(T, "PENDING") \cup StateIds(T, "EXPIRED")
                                            \cup {s.invoice_id : s \in SettledOf(T)}
         /\ StateIds(U, "PENDING") = StateIds(T, "PENDING") \cup {new.request.invoice_id}
         /\ StateIds(U, "EXPIRED") = StateIds(T, "EXPIRED")
         /\ SettledOf(U) = SettledOf(T)
<1>1. new.request.invoice_id \notin {s.invoice_id : s \in SettledOf(T)}
  BY DEF Inserts, SettledOf
<1>2. {q \in U : q.state = "PAID"} = {q \in T : q.state = "PAID"}
  BY DEF Inserts
<1> QED BY <1>1, <1>2 DEF Inserts, StateIds, SettledOf

(* A paid row settles its invoice.                                         *)
LEMMA SettledLedger ==
  ASSUME NEW T, TableOK(T), NEW old \in Row, NEW paid \in Row, Settles(T, old, paid),
         NEW U, U = (T \ {old}) \cup {paid}, NEW s,
         s = [network |-> paid.request.network, txid |-> paid.txid,
              invoice_id |-> paid.request.invoice_id]
  PROVE  /\ s \in Ledger!Settlement
         /\ s.invoice_id \in StateIds(T, "PENDING")
         /\ \A e \in SettledOf(T) : <<e.network, e.txid>> # <<s.network, s.txid>>
         /\ StateIds(U, "PENDING") = StateIds(T, "PENDING") \ {s.invoice_id}
         /\ StateIds(U, "EXPIRED") = StateIds(T, "EXPIRED")
         /\ SettledOf(U) = SettledOf(T) \cup {s}
<1>1. paid.request = old.request /\ old \in T /\ old.state = "PENDING" /\ paid.state = "PAID"
  BY DEF Settles, Succeeds
<1>2. paid.request \in Request /\ paid.txid \in TxIds
  BY StoreConstants, <1>1 DEF Settles, RecordValid, Row
<1>3. s \in Ledger!Settlement
  BY <1>2 DEF Ledger!Settlement, Request
<1>4. \A e \in SettledOf(T) : <<e.network, e.txid>> # <<s.network, s.txid>>
  BY DEF Settles, SettledOf
<1>5. StateIds(U, "PENDING") = StateIds(T, "PENDING") \ {s.invoice_id}
  BY <1>1 DEF StateIds, TableOK, Identified
<1>6. {q \in U : q.state = "PAID"} = {q \in T : q.state = "PAID"} \cup {paid}
  BY <1>1
<1>7. {q \in U : q.state = "EXPIRED"} = {q \in T : q.state = "EXPIRED"}
  BY <1>1
<1>8. s.invoice_id \in StateIds(T, "PENDING")
  BY <1>1 DEF StateIds
<1>9. SettledOf(U) = SettledOf(T) \cup {s}
  BY <1>6 DEF SettledOf
<1> QED BY <1>3, <1>4, <1>5, <1>7, <1>8, <1>9 DEF StateIds

(* The invoice database implements the ledger: whatever the callers, the   *)
(* clock and the failures, each step of the table is a step of the ledger  *)
(* or leaves the ledger as it was.                                         *)
THEOREM StoreImplementsLedger == StoreSpec => LedgerSpec
<1>1. StoreInit => Ledger!LedgerInit
  BY DEF StoreInit, Ledger!LedgerInit, IdsIn, Settled
<1>2. StoreInv /\ [StoreNext]_storeVars => [Ledger!LedgerNext]_(Ledger!ledgerVars)
  <2> SUFFICES ASSUME StoreInv, [StoreNext]_storeVars
               PROVE  [Ledger!LedgerNext]_(Ledger!ledgerVars)
    OBVIOUS
  <2>1. /\ IdsIn("PENDING") = StateIds(invoices, "PENDING")
        /\ IdsIn("EXPIRED") = StateIds(invoices, "EXPIRED")
        /\ Settled = SettledOf(invoices)
        /\ IdsIn("PENDING")' = StateIds(invoices', "PENDING")
        /\ IdsIn("EXPIRED")' = StateIds(invoices', "EXPIRED")
        /\ Settled' = SettledOf(invoices')
    BY DEF IdsIn, StateIds, Settled, SettledOf
  <2>2. TableOK(Swept)
    BY SweptTable DEF StoreInv
  <2>3. CASE invoices' = invoices
    BY <2>1, <2>3 DEF Ledger!ledgerVars
  <2>4. CASE invoices' = Swept
    <3>1. Ledger!Lapse(Late)
      BY <2>1, <2>4, SweptLedger DEF Ledger!Lapse
    <3> QED BY <2>1, <3>1, SweptLedger DEF Ledger!LedgerNext
  <2>5. ASSUME NEW new \in Row, Inserts(Swept, new), invoices' = Swept \cup {new}
        PROVE  Ledger!LedgerNext
    <3>1. new.request.invoice_id \in InvoiceIds
      BY StoreConstants DEF Row, Request
    <3>2. Ledger!Issue(Late, new.request.invoice_id)
      <4>1. /\ new.request.invoice_id \notin StateIds(Swept, "PENDING")
            /\ new.request.invoice_id \notin StateIds(Swept, "EXPIRED")
                                                  \cup {s.invoice_id : s \in SettledOf(Swept)}
            /\ StateIds(invoices', "PENDING")
                 = StateIds(Swept, "PENDING") \cup {new.request.invoice_id}
            /\ StateIds(invoices', "EXPIRED") = StateIds(Swept, "EXPIRED")
            /\ SettledOf(invoices') = SettledOf(Swept)
        BY <2>2, <2>5, InsertedLedger
      <4> QED BY <2>1, <4>1, SweptLedger DEF Ledger!Issue, Ledger!Paid
    <3> QED BY <2>1, <3>1, <3>2, SweptLedger DEF Ledger!LedgerNext
  <2>6. ASSUME NEW old \in Row, NEW paid \in Row, Settles(Swept, old, paid),
               invoices' = (Swept \ {old}) \cup {paid}
        PROVE  Ledger!LedgerNext
    <3> DEFINE s == [network |-> paid.request.network, txid |-> paid.txid,
                     invoice_id |-> paid.request.invoice_id]
    <3>1. /\ s \in Ledger!Settlement
          /\ s.invoice_id \in StateIds(Swept, "PENDING")
          /\ \A e \in SettledOf(Swept) : <<e.network, e.txid>> # <<s.network, s.txid>>
          /\ StateIds(invoices', "PENDING") = StateIds(Swept, "PENDING") \ {s.invoice_id}
          /\ StateIds(invoices', "EXPIRED") = StateIds(Swept, "EXPIRED")
          /\ SettledOf(invoices') = SettledOf(Swept) \cup {s}
      BY <2>2, <2>6, SettledLedger
    <3> HIDE DEF s
    <3>2. Ledger!Settle(Late, s)
      BY <2>1, <3>1, SweptLedger DEF Ledger!Settle
    <3> QED BY <2>1, <3>1, <3>2, SweptLedger DEF Ledger!LedgerNext
  <2> QED BY <2>3, <2>4, <2>5, <2>6, StepOutcome DEF Outcome, Evolves
<1> QED BY <1>1, <1>2, StoreInvariant, PTL DEF StoreSpec, LedgerSpec, Ledger!LedgerSpec
=============================================================================
