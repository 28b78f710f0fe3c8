--------------------------- MODULE BillingHttp_proofs ---------------------------
(***************************************************************************)
(* Proofs about the HTTP application, for any number of workers, clients   *)
(* and repetitions of requests.  First what a page of the list is; then,   *)
(* that workers do nothing to the database that the service does not; then *)
(* what clients that repeat their requests may rely on.                    *)
(***************************************************************************)
EXTENDS BillingHttp, Billing_proofs

-----------------------------------------------------------------------------
(* Pages.                                                                  *)

Id(r) == r.request.invoice_id
Numbered(R) == IsFiniteSet(R) /\ \A r \in R : Id(r) \in Nat

(* Numbered rows have a last one and a first one: of the sets of rows with *)
(* greater (lesser) ids, one is minimal.                                   *)
LEMMA HasLast ==
  ASSUME NEW R, Numbered(R), R # {}
  PROVE  \E g \in R : \A r \in R : Id(r) <= Id(g)
<1> DEFINE Above(r) == {s \in R : Id(s) > Id(r)}
           T == {Above(r) : r \in R}
<1>1. T \subseteq FiniteSubsetsOf(R) /\ T # {}
  <2>1. ASSUME NEW r \in R PROVE Above(r) \in FiniteSubsetsOf(R)
    BY FS_Subset DEF FiniteSubsetsOf, Numbered
  <2> QED BY <2>1
<1>2. PICK g \in R : \A r \in R : <<Above(r), Above(g)>> \notin StrictSubsetOrdering(R)
  <2>1. IsWellFoundedOn(StrictSubsetOrdering(R), FiniteSubsetsOf(R))
    BY FS_StrictSubsetOrderingWellFounded
  <2>2. ASSUME NEW S, S = T
        PROVE  \E x \in S : \A y \in S : <<y, x>> \notin StrictSubsetOrdering(R)
    BY <1>1, <2>1, <2>2, WFMin
  <2>3. \E x \in T : \A y \in T : <<y, x>> \notin StrictSubsetOrdering(R)
    BY <2>2
  <2> QED BY <2>3
<1>3. ASSUME NEW r \in R, Id(r) > Id(g)
      PROVE  FALSE
  <2>1. Above(r) \subseteq Above(g) /\ r \in Above(g) /\ r \notin Above(r)
    BY <1>3 DEF Numbered
  <2> QED BY <1>2, <2>1 DEF StrictSubsetOrdering
<1> QED BY <1>3 DEF Numbered

LEMMA HasFirst ==
  ASSUME NEW R, Numbered(R), R # {}
  PROVE  \E g \in R : \A r \in R : Id(g) <= Id(r)
<1> DEFINE Below(r) == {s \in R : Id(s) < Id(r)}
           T == {Below(r) : r \in R}
<1>1. T \subseteq FiniteSubsetsOf(R) /\ T # {}
  <2>1. ASSUME NEW r \in R PROVE Below(r) \in FiniteSubsetsOf(R)
    BY FS_Subset DEF FiniteSubsetsOf, Numbered
  <2> QED BY <2>1
<1>2. PICK g \in R : \A r \in R : <<Below(r), Below(g)>> \notin StrictSubsetOrdering(R)
  <2>1. IsWellFoundedOn(StrictSubsetOrdering(R), FiniteSubsetsOf(R))
    BY FS_StrictSubsetOrderingWellFounded
  <2>2. ASSUME NEW S, S = T
        PROVE  \E x \in S : \A y \in S : <<y, x>> \notin StrictSubsetOrdering(R)
    BY <1>1, <2>1, <2>2, WFMin
  <2>3. \E x \in T : \A y \in T : <<y, x>> \notin StrictSubsetOrdering(R)
    BY <2>2
  <2> QED BY <2>3
<1>3. ASSUME NEW r \in R, Id(r) < Id(g)
      PROVE  FALSE
  <2>1. Below(r) \subseteq Below(g) /\ r \in Below(g) /\ r \notin Below(r)
    BY <1>3 DEF Numbered
  <2> QED BY <1>2, <2>1 DEF StrictSubsetOrdering
<1> QED BY <1>3 DEF Numbered

(* A page is empty only if no row follows the cursor; and a row that       *)
(* follows it, up to the last of the page, is on the page.                 *)
LEMMA PageIsPrefix ==
  ASSUME NEW T, Numbered(T), \A r, s \in T : Id(r) = Id(s) => r = s,
         NEW n, NEW after \in Nat, NEW limit \in Nat \ {0}, NEW R, R = Page(T, n, after, limit)
  PROVE  /\ R \subseteq {r \in T : r.request.network = n /\ Id(r) > after} /\ Numbered(R)
         /\ \A r \in T : r.request.network = n /\ Id(r) > after =>
              /\ R # {}
              /\ \A g \in R : Id(r) <= Id(g) => r \in R
<1> DEFINE match == {r \in T : r.request.network = n /\ Id(r) > after}
           UpTo(r) == {s \in match : Id(s) <= Id(r)}
<1>1. R = {r \in match : Cardinality(UpTo(r)) <= limit}
  BY DEF Page, Id
<1>2. Numbered(match) /\ Numbered(R) /\ R \subseteq match
  BY <1>1, FS_Subset DEF Numbered
<1>3. ASSUME NEW r \in match, NEW g \in R, Id(r) <= Id(g)
      PROVE  r \in R
  <2>1. UpTo(r) \subseteq UpTo(g) /\ UpTo(g) \subseteq match
    BY <1>1, <1>2, <1>3 DEF Numbered
  <2>2. IsFiniteSet(UpTo(g))
    BY <1>2, <2>1, FS_Subset DEF Numbered
  <2>3. /\ Cardinality(UpTo(r)) <= Cardinality(UpTo(g))
        /\ Cardinality(UpTo(r)) \in Nat /\ Cardinality(UpTo(g)) \in Nat
    BY <2>1, <2>2, FS_Subset, FS_CardinalityType
  <2>4. Cardinality(UpTo(g)) <= limit
    BY <1>1
  <2> QED BY <1>1, <2>3, <2>4
<1>4. ASSUME match # {}
      PROVE  R # {}
  <2>1. PICK g \in match : \A r \in match : Id(g) <= Id(r)
    BY <1>2, <1>4, HasFirst
  <2>2. UpTo(g) = {g}
    BY <1>2, <2>1 DEF Numbered
  <2>3. Cardinality(UpTo(g)) = 1
    BY <2>2, FS_Singleton
  <2> QED BY <1>1, <2>3
<1> QED BY <1>2, <1>3, <1>4

-----------------------------------------------------------------------------
(* Workers.                                                                *)

(* What a worker does to the database and the calls, the service does.     *)
LEMMA DispatchIsACall ==
  ASSUME errand \in Errands, posted \subseteq Message, NEW w \in Processes, NEW m \in posted,
         Dispatch(w, m)
  PROVE  CreateSteps(w) \/ VerifySteps(w) \/ ReadSteps(w)
<1> DEFINE e == errand[m.client]
<1>1. m \in Message /\ m.client \in Clients /\ m.after \in InvoiceIds \cup {0}
  BY DEF Message
<1>2. /\ e \in Errand
      /\ e.kind = "create" => e.print \in Fingerprints
      /\ e.kind \in {"verify", "read"} => e.invoice_id \in InvoiceIds
      /\ e.kind = "walk" => e.limit \in PageSizes
  BY <1>1, HttpConstants
<1>3. e.key \in Keys \cup {NoKey}
  BY <1>2 DEF Errand
<1>4. ASSUME e.kind = "create", NEW i \in IdsFor(e.print), BeginCreate(w, e.print, e.key, i)
      PROVE  CreateSteps(w)
  <2>1. TermsOf[e.print].invoice_id \in InvoiceIds \cup {GeneratedId}
    BY <1>2, <1>4, BillingConstants
  <2>2. i \in InvoiceIds
    BY <1>4, <2>1 DEF IdsFor
  <2> QED BY <1>2, <1>3, <1>4, <2>2 DEF CreateSteps
<1>5. ASSUME e.kind = "verify", BeginVerify(w, e.invoice_id)
      PROVE  VerifySteps(w)
  BY <1>2, <1>5 DEF VerifySteps
<1>6. ASSUME e.kind = "read", BeginRead(w, e.invoice_id, "read")
      PROVE  ReadSteps(w)
  BY <1>2, <1>6 DEF ReadSteps
<1>7. ASSUME e.kind = "walk", ListInvoices(w, m.after, e.limit)
      PROVE  ReadSteps(w)
  BY <1>1, <1>2, <1>7 DEF ReadSteps
<1> QED BY <1>4, <1>5, <1>6, <1>7 DEF Dispatch

LEMMA HttpStepsBilling ==
  ASSUME errand \in Errands, posted \subseteq Message, [HttpNext]_vars
  PROVE  [BillingNext]_billingVars
<1>1. ASSUME NEW c \in Clients, Send(c) \/ GiveUp(c)
      PROVE  UNCHANGED billingVars
  BY <1>1 DEF Send, GiveUp
<1>2. ASSUME NEW w \in Processes, NEW m \in posted, Refuse(w, m) \/ RefuseTerms(w, m)
      PROVE  UNCHANGED billingVars
  BY <1>2 DEF Refuse, RefuseTerms
<1>3. ASSUME NEW w \in Processes, NEW m \in posted, Dispatch(w, m)
      PROVE  BillingNext
  BY <1>3, DispatchIsACall DEF BillingNext
<1>4. ASSUME NEW w \in Processes, Proceed(w)
      PROVE  BillingNext
  BY <1>4 DEF Proceed, BillingNext, CreateSteps, VerifySteps
<1>5. ASSUME NEW w \in Processes, HttpReply(w) \/ HttpError(w)
      PROVE  BillingNext
  BY <1>5 DEF HttpReply, HttpError, BillingNext
<1>6. CASE Surroundings
  BY <1>6 DEF Surroundings, BillingNext
<1>7. CASE UNCHANGED vars
  BY <1>7 DEF vars
<1> QED BY <1>1, <1>2, <1>3, <1>4, <1>5, <1>6, <1>7 DEF HttpNext

-----------------------------------------------------------------------------
(* What the database keeps.                                                *)

(* A creation asks for an id that its terms allow, and rows have such ids. *)
TermsKept ==
  /\ \A w \in Processes : call[w].at \in {"validate", "create"} =>
       /\ call[w].op = "create"
       /\ call[w].request.invoice_id \in IdsFor(call[w].print)
  /\ \A r \in invoices : Id(r) \in IdsFor(r.creation_fingerprint)

TableInv == ServiceInv /\ TermsKept /\ IsFiniteSet(invoices)

(* The creation that a process is about to ask for.                        *)
LEMMA CallsKeepTerms ==
  ASSUME ServiceInv, TermsKept, [BillingNext]_billingVars, NEW w \in Processes,
         call'[w].at \in {"validate", "create"}
  PROVE  call'[w].op = "create" /\ call'[w].request.invoice_id \in IdsFor(call'[w].print)
<1> USE DEF ServiceInv, CallTypes
<1>1. CASE call'[w] = call[w]
  BY <1>1 DEF TermsKept
<1>2. ASSUME NEW print, NEW key, NEW i, BeginCreate(w, print, key, i)
      PROVE  call'[w].op = "create" /\ call'[w].request.invoice_id \in IdsFor(call'[w].print)
  <2>1. /\ call'[w].op = "create" /\ call'[w].print = print
        /\ call'[w].request = RequestFor(print, i, now) /\ i \in IdsFor(print)
    BY <1>2 DEF BeginCreate, Idle
  <2> QED BY <2>1 DEF RequestFor
<1>3. CASE ValidateRecipient(w)
  <2>1. CASE Goto(w, "create") /\ call[w].at = "validate"
    BY <2>1 DEF Goto, TermsKept, Call
  <2>2. CASE call' = [call EXCEPT ![w] = Idle]
    BY <2>2 DEF Idle
  <2> QED BY <1>3, <2>1, <2>2 DEF ValidateRecipient
<1>4. ASSUME NEW new \in Call, call' = [call EXCEPT ![w] = new]
      PROVE  new.at \in {"validate", "create"}
  BY <1>4
<1>5. CASE StoreInvoice(w)
  BY <1>5 DEF StoreInvoice, Goto, Call
<1>6. CASE VerifySteps(w)
  <2>1. CASE Observe(w)
    BY <2>1 DEF Observe, Call
  <2>2. CASE \E i \in InvoiceIds : BeginVerify(w, i)
    BY <2>2 DEF BeginVerify, Idle
  <2>3. CASE FinalizeObservation(w) \/ Reread(w)
    BY <2>3 DEF FinalizeObservation, Reread, Goto, Call
  <2> QED BY <1>6, <2>1, <2>2, <2>3 DEF VerifySteps
<1>7. CASE ReadSteps(w)
  BY <1>7 DEF ReadSteps, BeginRead, ListInvoices, ExpireInvoices, Idle
<1>8. CASE Reply(w) \/ Interrupted(w)
  BY <1>8 DEF Reply, Interrupted, Idle
<1>9. CASE CreateSteps(w)
  BY <1>2, <1>3, <1>5, <1>9 DEF CreateSteps
<1> HIDE DEF ServiceInv, CallTypes
<1> QED BY <1>1, <1>6, <1>7, <1>8, <1>9, StepsAreOfOne

LEMMA TableStep ==
  ASSUME TableInv, [BillingNext]_billingVars
  PROVE  TableInv'
<1>1. ServiceInv' /\ IsFiniteSet(invoices')
  BY ServiceStep, TableStaysFinite DEF TableInv
<1>2. ASSUME NEW r \in invoices'
      PROVE  Id(r) \in IdsFor(r.creation_fingerprint)
  <2>1. CASE \E q \in invoices : SameTerms(q, r)
    BY <2>1 DEF TableInv, TermsKept, SameTerms, Id
  <2>2. ASSUME NEW c \in Processes, StoreInvoice(c),
               Id(r) = call[c].request.invoice_id, r.creation_fingerprint = call[c].print
        PROVE  Id(r) \in IdsFor(r.creation_fingerprint)
    BY <2>2 DEF TableInv, TermsKept, StoreInvoice
  <2> QED BY <2>1, <2>2, CreateAdds, OthersAddNothing DEF StoreInvoice, TableInv, Id
<1>3. TermsKept'
  BY <1>2, CallsKeepTerms DEF TermsKept, TableInv
<1> QED BY <1>1, <1>3 DEF TableInv

(* The invoices of the application's network stay.                         *)
LEMMA OursStay ==
  ASSUME ServiceInv, [BillingNext]_billingVars, NEW i \in IdsOf(Ours)
  PROVE  i \in IdsOf(Ours')
<1>1. PICK r \in Ours : i = r.request.invoice_id
  BY DEF IdsOf
<1>2. PICK s \in invoices' : Succeeds(r, s)
  BY <1>1, RowsSucceed DEF Ours
<1>3. s.request = r.request
  BY <1>2 DEF Succeeds
<1> QED BY <1>1, <1>3 DEF Ours, IdsOf

(* No row can be created under this key and with this print any more: the  *)
(* key, or the id that the terms choose, belongs to another row.           *)
Chosen(print) == TermsOf[print].invoice_id # GeneratedId
Blocked(key, print) ==
  \E r \in invoices :
     \/ r.idempotency_key = key /\ r.creation_fingerprint # print
     \/ Id(r) = TermsOf[print].invoice_id /\ r.idempotency_key # key

LEMMA BlocksStay ==
  ASSUME ServiceInv, [BillingNext]_billingVars, NEW key, NEW print, Blocked(key, print)
  PROVE  Blocked(key, print)'
<1>1. PICK r \in invoices :
        \/ r.idempotency_key = key /\ r.creation_fingerprint # print
        \/ Id(r) = TermsOf[print].invoice_id /\ r.idempotency_key # key
  BY DEF Blocked
<1>2. PICK s \in invoices' : Succeeds(r, s)
  BY RowsSucceed
<1> QED BY <1>1, <1>2 DEF Blocked, Succeeds, Id

LEMMA BlockedHasNone ==
  ASSUME TableInv, NEW key \in Keys, NEW print \in Fingerprints, Chosen(print),
         Blocked(key, print), NEW r \in invoices
  PROVE  ~(r.idempotency_key = key /\ r.creation_fingerprint = print)
<1>1. \A s \in invoices :
        \/ Id(s) = Id(r)
        \/ s.idempotency_key = r.idempotency_key /\ r.idempotency_key # NoKey
        => s = r
  BY DEF TableInv, ServiceInv, StoreInv, TableOK, Identified, Id
<1>2. r.creation_fingerprint = print => Id(r) = TermsOf[print].invoice_id
  BY DEF TableInv, TermsKept, IdsFor, Chosen
<1> QED BY <1>1, <1>2, StoreConstants DEF Blocked

(* A creation conflicts only when it is blocked.                           *)
LEMMA ConflictsAreBlocked ==
  ASSUME TableInv, NEW c \in Processes, NEW request, NEW required, NEW key \in Keys, NEW print,
         Create(c, request, required, key, print), answer'[c].outcome = "invoice_conflict",
         request.invoice_id = TermsOf[print].invoice_id
  PROVE  Blocked(key, print)'
<1>1. ASSUME NEW T, NEW rows, Commit(c, T, rows)
      PROVE  FALSE
  BY <1>1 DEF Commit, TableInv, ServiceInv, StoreInv
<1>2. ASSUME NEW failure, Rollback(c, failure)
      PROVE  invoices' = invoices /\ failure = "invoice_conflict"
  BY <1>2 DEF Rollback, TableInv, ServiceInv, StoreInv
<1>3. ASSUME NEW r \in Swept
      PROVE  \E q \in invoices : /\ q.idempotency_key = r.idempotency_key
                                 /\ q.creation_fingerprint = r.creation_fingerprint
  BY <1>3, SweptRow DEF Swept, Succeeds, TableInv, ServiceInv, StoreInv, TableOK
<1>4. CASE /\ \E r \in Previous(key) : r.creation_fingerprint # print
           /\ Rollback(c, "invoice_conflict")
  BY <1>2, <1>3, <1>4 DEF Previous, WithKey, Blocked
<1>5. ASSUME NEW q \in invoices, Previous(key) = {}
      PROVE  q.idempotency_key # key
  <2>1. AfterExpire(q) \in Swept /\ AfterExpire(q).idempotency_key = q.idempotency_key
    BY SweptRow DEF Swept, Succeeds, TableInv, ServiceInv, StoreInv, TableOK
  <2> QED BY <1>5, <2>1, StoreConstants DEF Previous, WithKey
<1>6. ASSUME Previous(key) = {}, Rollback(c, "invoice_conflict"),
             NEW q \in invoices,
             ~(q.request.invoice_id # request.invoice_id
               /\ (q.idempotency_key = key => key = NoKey))
      PROVE  Blocked(key, print)'
  BY <1>2, <1>5, <1>6 DEF Blocked, Id
<1> QED BY <1>1, <1>2, <1>4, <1>6 DEF Create

-----------------------------------------------------------------------------
(* What a page shows a client that knows of invoices.                      *)

Shows(known, after, rows) ==
  /\ IdsOf(rows) \subseteq InvoiceIds /\ \A i \in IdsOf(rows) : i > after
  /\ rows = {} => \A i \in known : i <= after
  /\ rows # {} =>
       \E g \in IdsOf(rows) :
          /\ \A i \in IdsOf(rows) : i <= g
          /\ \A i \in known : i > after /\ i <= g => i \in IdsOf(rows)

LEMMA ListsShow ==
  ASSUME TableInv, NEW w \in Processes, NEW after \in InvoiceIds \cup {0}, NEW limit \in PageSizes,
         ListInvoices(w, after, limit), NEW known, known \subseteq IdsOf(Ours)
  PROVE  Shows(known, after, answer'[w].rows)
<1> DEFINE R == answer'[w].rows
           n == ServiceNetwork[w]
<1>1. R = Page(Swept, n, after, limit)
  BY DEF ListInvoices, List, Commit, TableInv, ServiceInv, StoreInv
<1>2. TableOK(Swept) /\ IsFiniteSet(Swept)
  BY SweptTable, SweptFinite DEF TableInv, ServiceInv, StoreInv
<1>3. Numbered(Swept) /\ \A r \in Swept : Id(r) \in InvoiceIds
  BY <1>2, StoreConstants DEF Numbered, Id, TableOK, Row, Request
<1>4. \A r, s \in Swept : Id(r) = Id(s) => r = s
  BY <1>2 DEF TableOK, Identified, Id
<1>5. after \in Nat /\ limit \in Nat \ {0}
  BY StoreConstants
<1> HIDE DEF R
<1>6. /\ R \subseteq {r \in Swept : r.request.network = n /\ Id(r) > after} /\ Numbered(R)
      /\ \A r \in Swept : r.request.network = n /\ Id(r) > after =>
           /\ R # {}
           /\ \A g \in R : Id(r) <= Id(g) => r \in R
  BY <1>1, <1>3, <1>4, <1>5, PageIsPrefix
<1>7. ASSUME NEW i \in known
      PROVE  \E r \in Swept : r.request.network = n /\ Id(r) = i
  <2>1. PICK q \in invoices : q.request.network = n /\ Id(q) = i
    BY DEF Ours, IdsOf, Id
  <2>2. AfterExpire(q) \in Swept /\ AfterExpire(q).request = q.request
    BY SweptRow DEF Swept, Succeeds, TableInv, ServiceInv, StoreInv, TableOK
  <2> QED BY <2>1, <2>2 DEF Id
<1>8. IdsOf(R) = {Id(r) : r \in R}
  BY DEF IdsOf, Id
<1>9. /\ IdsOf(R) \subseteq InvoiceIds /\ \A i \in IdsOf(R) : i > after
  BY <1>3, <1>6, <1>8
<1>10. ASSUME R = {}, NEW i \in known PROVE i <= after
  BY <1>3, <1>5, <1>6, <1>7, <1>10 DEF Numbered
<1>11. ASSUME R # {}
       PROVE  \E g \in IdsOf(R) :
                /\ \A i \in IdsOf(R) : i <= g
                /\ \A i \in known : i > after /\ i <= g => i \in IdsOf(R)
  <2>1. PICK g \in R : \A r \in R : Id(r) <= Id(g)
    BY <1>6, <1>11, HasLast
  <2>2. ASSUME NEW i \in known, i > after, i <= Id(g) PROVE i \in IdsOf(R)
    BY <1>6, <1>7, <1>8, <2>2
  <2> QED BY <1>8, <2>1, <2>2
<1> QED BY <1>9, <1>10, <1>11 DEF Shows, R

(* The cursor of the next page is the last id of this one.                 *)
LEMMA NextIsLast ==
  ASSUME NEW rows, NEW g \in IdsOf(rows), IdsOf(rows) \subseteq Nat,
         \A i \in IdsOf(rows) : i <= g
  PROVE  NextAfter(rows) = g
<1>1. \A h \in IdsOf(rows) : (\A j \in IdsOf(rows) : j <= h) => h = g
  OBVIOUS
<1>2. NextAfter(rows) \in IdsOf(rows) /\ \A j \in IdsOf(rows) : j <= NextAfter(rows)
  BY DEF NextAfter
<1> QED BY <1>1, <1>2

-----------------------------------------------------------------------------
(* What clients rely on.                                                   *)

HttpTypes ==
  /\ errand \in Errands /\ client \in [Clients -> Client] /\ posted \subseteq Message
  /\ serving \in [Processes -> Message \cup {NoMessage}] /\ walk \in [Clients -> Walk]

(* A walk has shown all that it had to show up to its cursor, and nothing  *)
(* beyond it; an answer is final.                                          *)
WalkOK(c) ==
  /\ walk[c].known \subseteq IdsOf(Ours)
  /\ client[c].at # "done" => client[c].status = 0
  /\ errand[c].kind = "walk" =>
       /\ \A i \in walk[c].known : i <= client[c].after => i \in walk[c].listed
       /\ \A i \in walk[c].listed : i <= client[c].after
       /\ ~walk[c].twice
       /\ client[c].at = "done" /\ client[c].status = 200 => walk[c].known \subseteq walk[c].listed

MayConflict(c) == errand[c].kind = "create" /\ errand[c].key # NoKey /\ Chosen(errand[c].print)
ConflictOK(c) ==
  MayConflict(c) /\ client[c].status = 409 => Blocked(errand[c].key, errand[c].print)

(* Before its first request a client has none anywhere.                    *)
Unsent(c) == client[c].at = "ready" /\ client[c].attempt = 0 /\ client[c].after = 0
FirstSent ==
  \A c \in Clients : Unsent(c) =>
     /\ \A m \in posted : m.client # c
     /\ \A w \in Processes : serving[w] # NoMessage => serving[w].client # c

(* The call of a worker is the one its request asks for.                   *)
ServesWell(w) ==
  serving[w] # NoMessage =>
    LET c == serving[w].client
    IN  /\ errand[c].kind = "walk" =>
             /\ call[w].at = "reply"
             /\ Shows(walk[c].known, serving[w].after, answer[w].rows)
        /\ errand[c].kind = "create" =>
             /\ call[w].op = "create"
             /\ call[w].key = errand[c].key /\ call[w].print = errand[c].print
        /\ MayConflict(c) /\ call[w].at = "reply" /\ answer[w].outcome = "invoice_conflict" =>
             Blocked(errand[c].key, errand[c].print)

ClientsOK == \A c \in Clients : WalkOK(c) /\ ConflictOK(c)
WorkersOK == \A w \in Processes : ServesWell(w)

HttpInv == TableInv /\ HttpTypes /\ ClientsOK /\ FirstSent /\ WorkersOK

LEMMA ErrandsTyped ==
  ASSUME HttpTypes, NEW c \in Clients
  PROVE  /\ errand[c] \in Errand
         /\ errand[c].kind = "create" => errand[c].print \in Fingerprints
         /\ errand[c].kind = "walk" => errand[c].limit \in PageSizes
  BY HttpConstants DEF HttpTypes

LEMMA IdsTyped ==
  ASSUME TableInv
  PROVE  IdsOf(Ours) \subseteq InvoiceIds /\ InvoiceIds \subseteq Nat \ {0}
  BY StoreConstants DEF TableInv, ServiceInv, StoreInv, TableOK, Row, Request, IdsOf, Ours

(* Whose client did not move, relies on what it did.                       *)
LEMMA ClientRests ==
  ASSUME HttpInv, [BillingNext]_billingVars, NEW c \in Clients,
         errand' = errand, client'[c] = client[c], walk'[c] = walk[c]
  PROVE  WalkOK(c)' /\ ConflictOK(c)'
<1>1. \A i \in walk[c].known : i \in IdsOf(Ours')
  BY OursStay DEF HttpInv, ClientsOK, WalkOK, TableInv
<1>2. (walk[c].known \subseteq IdsOf(Ours))'
  BY <1>1 DEF IdsOf
<1>3. WalkOK(c)'
  BY <1>2 DEF HttpInv, ClientsOK, WalkOK
<1>4. ConflictOK(c)'
  BY BlocksStay DEF HttpInv, ClientsOK, ConflictOK, MayConflict, TableInv
<1> QED BY <1>3, <1>4

(* A worker whose call did not move serves as it did.                      *)
LEMMA WorkerRests ==
  ASSUME HttpInv, [BillingNext]_billingVars, NEW w \in Processes,
         errand' = errand, serving'[w] = serving[w], call'[w] = call[w], answer'[w] = answer[w],
         serving[w] # NoMessage => walk'[serving[w].client].known = walk[serving[w].client].known
  PROVE  ServesWell(w)'
  BY BlocksStay DEF HttpInv, WorkersOK, ServesWell, MayConflict, TableInv

(* An answer that reaches a client: the client goes on as new says, and is *)
(* shown the invoices of a page.                                           *)
ShownPage(c, page) ==
  /\ walk' \in [Clients -> Walk]
  /\ \A d \in Clients \ {c} : walk'[d] = walk[d]
  /\ walk'[c].known = walk[c].known
  /\ walk'[c].listed = walk[c].listed \cup page
  /\ walk'[c].twice = (walk[c].twice \/ walk[c].listed \cap page # {})

LEMMA WalkShown ==
  ASSUME NEW old \in Walk, NEW page, page \subseteq InvoiceIds
  PROVE  WithPage(old, page) \in Walk
<1> DEFINE t == old.twice \/ old.listed \cap page # {}
<1>1. old.known \in SUBSET InvoiceIds /\ old.listed \cup page \in SUBSET InvoiceIds
  BY DEF Walk
<1>2. t \in BOOLEAN
  OBVIOUS
<1> HIDE DEF t
<1>3. [known |-> old.known, listed |-> old.listed \cup page, twice |-> t] \in Walk
  BY <1>1, <1>2 DEF Walk
<1> QED BY <1>3 DEF t, WithPage

LEMMA PageIsShown ==
  ASSUME HttpTypes, NEW c \in Clients, NEW page, page \subseteq InvoiceIds,
         walk' = [walk EXCEPT ![c] = WithPage(@, page)]
  PROVE  ShownPage(c, page)
<1> DEFINE new == WithPage(walk[c], page)
<1>1. walk \in [Clients -> Walk] /\ walk[c] \in Walk
  BY DEF HttpTypes
<1>2. new \in Walk
  BY <1>1, WalkShown
<1>3. /\ new.known = walk[c].known /\ new.listed = walk[c].listed \cup page
      /\ new.twice = (walk[c].twice \/ walk[c].listed \cap page # {})
  BY DEF WithPage
<1>4. walk' = [walk EXCEPT ![c] = new]
  BY <1>1
<1> HIDE DEF new
<1> QED BY <1>1, <1>2, <1>3, <1>4 DEF ShownPage

LEMMA NothingShown ==
  ASSUME HttpTypes, NEW c \in Clients, walk' = walk
  PROVE  ShownPage(c, {})
<1>1. walk[c] \in Walk
  BY DEF HttpTypes
<1> QED BY <1>1 DEF ShownPage, HttpTypes, Walk

(* What holds of the client afterwards, by what it does next.              *)
GoodStep(c) ==
  /\ client' \in [Clients -> Client] /\ walk' \in [Clients -> Walk]
  /\ \A d \in Clients \ {c} : client'[d] = client[d] /\ walk'[d] = walk[d]
  /\ WalkOK(c)' /\ ConflictOK(c)' /\ ~Unsent(c)'
  /\ walk'[c].known = walk[c].known

LEMMA KnownStays ==
  ASSUME HttpInv, [BillingNext]_billingVars, NEW c \in Clients, walk'[c].known = walk[c].known
  PROVE  (walk[c].known \subseteq IdsOf(Ours))'
<1>1. \A i \in walk[c].known : i \in IdsOf(Ours')
  BY OursStay DEF HttpInv, ClientsOK, WalkOK, TableInv
<1> QED BY <1>1 DEF IdsOf

LEMMA ClientSendsAgain ==
  ASSUME HttpInv, [BillingNext]_billingVars, errand' = errand, NEW c \in Clients,
         client[c].at = "waiting", client' = [client EXCEPT ![c] = SendAgain(c)], walk' = walk
  PROVE  GoodStep(c)
<1>1. /\ client[c] \in Client /\ client[c].status = 0 /\ errand[c].retries \in 0..MaxRetries
      /\ walk[c] \in Walk
  BY ErrandsTyped DEF HttpInv, HttpTypes, ClientsOK, WalkOK, Errand
<1>2. PICK new : new = SendAgain(c)
  OBVIOUS
<1>3. /\ new \in Client /\ new.after = client[c].after /\ new.status = 0
      /\ new.at \in {"ready", "done"} /\ (new.at = "ready" => new.attempt # 0)
  <2>1. CASE client[c].attempt < errand[c].retries
    <3>1. client[c].attempt + 1 \in 0..MaxRetries /\ client[c].attempt + 1 # 0
      BY <1>1, <2>1, HttpConstants DEF Client
    <3>2. new = [client[c] EXCEPT !.at = "ready", !.attempt = client[c].attempt + 1]
      BY <1>1, <1>2, <2>1 DEF SendAgain, Client
    <3> QED BY <1>1, <3>1, <3>2 DEF Client
  <2>2. CASE ~(client[c].attempt < errand[c].retries)
    <3>1. new = [client[c] EXCEPT !.at = "done"]
      BY <1>2, <2>2 DEF SendAgain
    <3> QED BY <1>1, <3>1 DEF Client
  <2> QED BY <2>1, <2>2
<1>4. client' = [client EXCEPT ![c] = new] /\ client'[c] = new
  BY <1>2 DEF HttpInv, HttpTypes
<1>5. client' \in [Clients -> Client] /\ \A d \in Clients \ {c} : client'[d] = client[d]
  BY <1>3, <1>4 DEF HttpInv, HttpTypes
<1>6. WalkOK(c)'
  BY <1>3, <1>4, KnownStays DEF WalkOK, HttpInv, ClientsOK
<1>7. ConflictOK(c)' /\ ~Unsent(c)'
  BY <1>3, <1>4 DEF ConflictOK, Unsent
<1> QED BY <1>5, <1>6, <1>7 DEF GoodStep, HttpInv, HttpTypes

LEMMA CursorsAreNumbers ==
  ASSUME NEW i \in InvoiceIds \cup {0}
  PROVE  i \in Nat
<1>1. InvoiceIds \subseteq Nat
  BY StoreConstants
<1> QED BY <1>1

LEMMA ClientTurnsPage ==
  ASSUME HttpInv, [BillingNext]_billingVars, errand' = errand, NEW c \in Clients,
         client[c].at = "waiting", errand[c].kind = "walk", NEW rows, rows # {},
         Shows(walk[c].known, client[c].after, rows), ShownPage(c, IdsOf(rows)),
         client' = [client EXCEPT ![c] = TurnPage(c, rows)]
  PROVE  GoodStep(c)
<1>1. /\ client[c] \in Client /\ client[c].status = 0 /\ walk[c] \in Walk
      /\ walk'[c].known = walk[c].known
      /\ \A i \in walk[c].known : i <= client[c].after => i \in walk[c].listed
      /\ \A i \in walk[c].listed : i <= client[c].after
      /\ ~walk[c].twice
  BY DEF HttpInv, HttpTypes, ClientsOK, WalkOK, ShownPage
<1>2. PICK g \in IdsOf(rows) :
        /\ \A i \in IdsOf(rows) : i <= g
        /\ \A i \in walk[c].known : i > client[c].after /\ i <= g => i \in IdsOf(rows)
  BY DEF Shows
<1>3. IdsOf(rows) \subseteq InvoiceIds /\ \A i \in IdsOf(rows) : i > client[c].after
  BY DEF Shows
<1>4. InvoiceIds \subseteq Nat \ {0}
  BY StoreConstants
<1>5. NextAfter(rows) = g
  BY <1>2, <1>3, <1>4, NextIsLast
<1>6. /\ walk[c].known \subseteq Nat /\ walk[c].listed \subseteq Nat /\ client[c].after \in Nat
      /\ g \in Nat \ {0} /\ g \in InvoiceIds
  <2>1. walk[c].known \subseteq InvoiceIds /\ walk[c].listed \subseteq InvoiceIds
    BY <1>1 DEF Walk
  <2>2. client[c].after \in InvoiceIds \cup {0}
    BY <1>1 DEF Client
  <2>3. client[c].after \in Nat
    BY <2>2, CursorsAreNumbers
  <2>4. g \in InvoiceIds
    BY <1>3
  <2>5. g \in Nat \ {0}
    BY <1>4, <2>4
  <2> QED BY <1>4, <2>1, <2>3, <2>4, <2>5
<1>7. PICK new : new = TurnPage(c, rows)
  OBVIOUS
<1>8. new \in Client /\ new.after = g /\ new.status = 0 /\ new.at = "ready"
  BY <1>1, <1>5, <1>6, <1>7 DEF Client, TurnPage
<1>9. client' = [client EXCEPT ![c] = new] /\ client'[c] = new
  BY <1>7 DEF HttpInv, HttpTypes
<1>10. client' \in [Clients -> Client] /\ \A d \in Clients \ {c} : client'[d] = client[d]
  BY <1>8, <1>9 DEF HttpInv, HttpTypes
<1>11. walk[c].listed \cap IdsOf(rows) = {}
  BY <1>1, <1>3, <1>4, <1>6
<1>12. \A i \in walk[c].known : i <= g => i \in walk[c].listed \cup IdsOf(rows)
  BY <1>1, <1>2, <1>6
<1>13. \A i \in walk[c].listed \cup IdsOf(rows) : i <= g
  <2>1. client[c].after <= g
    BY <1>3, <1>6
  <2>2. ASSUME NEW i \in walk[c].listed PROVE i <= g
    <3>1. i <= client[c].after /\ i \in Nat
      BY <1>1, <1>6
    <3> QED BY <1>6, <2>1, <3>1
  <2> QED BY <1>2, <2>2
<1>14. WalkOK(c)'
  BY <1>1, <1>8, <1>9, <1>11, <1>12, <1>13, KnownStays DEF WalkOK, ShownPage
<1>15. ConflictOK(c)'
  BY DEF ConflictOK, MayConflict
<1>16. ~Unsent(c)'
  BY <1>6, <1>8, <1>9 DEF Unsent
<1> QED BY <1>1, <1>10, <1>14, <1>15, <1>16 DEF GoodStep, ShownPage

LEMMA ClientIsDone ==
  ASSUME HttpInv, [BillingNext]_billingVars, errand' = errand, NEW c \in Clients,
         client[c].at = "waiting", NEW status \in Statuses, ShownPage(c, {}),
         client' = [client EXCEPT ![c] = Accept(c, status)],
         errand[c].kind = "walk" /\ status = 200 =>
           \A i \in walk[c].known : i <= client[c].after,
         status = 409 /\ MayConflict(c) => Blocked(errand[c].key, errand[c].print)'
  PROVE  GoodStep(c)
<1>1. /\ client[c] \in Client /\ walk[c] \in Walk
      /\ walk'[c].known = walk[c].known /\ walk'[c].listed = walk[c].listed
      /\ walk'[c].twice = walk[c].twice
  BY DEF HttpInv, HttpTypes, ShownPage, Walk
<1>2. PICK new : new = Accept(c, status)
  OBVIOUS
<1>3. new \in Client /\ new.after = client[c].after /\ new.status = status /\ new.at = "done"
  BY <1>1, <1>2 DEF Client, Accept
<1>4. client' = [client EXCEPT ![c] = new] /\ client'[c] = new
  BY <1>2 DEF HttpInv, HttpTypes
<1>5. client' \in [Clients -> Client] /\ \A d \in Clients \ {c} : client'[d] = client[d]
  BY <1>3, <1>4 DEF HttpInv, HttpTypes
<1>6. WalkOK(c)'
  BY <1>1, <1>3, <1>4, KnownStays DEF WalkOK, HttpInv, ClientsOK
<1>7. ConflictOK(c)'
  BY <1>3, <1>4 DEF ConflictOK, MayConflict, Blocked
<1>8. ~Unsent(c)'
  BY <1>3, <1>4 DEF Unsent
<1> QED BY <1>1, <1>5, <1>6, <1>7, <1>8 DEF GoodStep, ShownPage

(* An answer that is lost leaves the client alone; one that is true of the *)
(* database keeps what the client relies on.                               *)
LEMMA RespondsWell ==
  ASSUME HttpInv, [BillingNext]_billingVars, errand' = errand, NEW w \in Processes,
         NEW m \in Message, NEW status \in Statuses, NEW rows, Respond(w, m, status, rows),
         errand[m.client].kind = "walk" /\ status = 200 =>
           Shows(walk[m.client].known, m.after, rows),
         status = 409 /\ MayConflict(m.client) =>
           Blocked(errand[m.client].key, errand[m.client].print)'
  PROVE  UNCHANGED <<client, walk>> \/ GoodStep(m.client)
<1> DEFINE c == m.client
<1>1. c \in Clients /\ HttpTypes
  BY DEF Message, HttpInv
<1>2. CASE UNCHANGED <<client, walk>>
  BY <1>2
<1>3. ASSUME /\ client[c].at = "waiting" /\ m = Current(c)
             /\ client' = [client EXCEPT ![c] = AfterAnswer(c, status, rows)]
             /\ walk' = IF status = 200 /\ errand[c].kind = "walk"
                        THEN [walk EXCEPT ![c] = WithPage(@, IdsOf(rows))]
                        ELSE walk
      PROVE  GoodStep(c)
  <2>1. m.after = client[c].after
    BY <1>3 DEF Current
  <2>2. CASE status >= 500
    <3>1. AfterAnswer(c, status, rows) = SendAgain(c) /\ status # 200
      BY <2>2 DEF AfterAnswer
    <3>2. walk' = walk /\ client' = [client EXCEPT ![c] = SendAgain(c)]
      BY <1>3, <3>1
    <3> QED BY <1>1, <1>3, <3>2, ClientSendsAgain
  <2>3. CASE status = 200 /\ errand[c].kind = "walk"
    <3>1. Shows(walk[c].known, client[c].after, rows) /\ IdsOf(rows) \subseteq InvoiceIds
      BY <2>1, <2>3 DEF Shows
    <3>2. walk' = [walk EXCEPT ![c] = WithPage(@, IdsOf(rows))]
      BY <1>3, <2>3
    <3>3. ShownPage(c, IdsOf(rows))
      BY <1>1, <3>1, <3>2, PageIsShown
    <3>4. CASE rows # {}
      <4>1. client' = [client EXCEPT ![c] = TurnPage(c, rows)]
        BY <1>3, <2>3, <3>4 DEF AfterAnswer
      <4> QED BY <1>1, <1>3, <2>3, <3>1, <3>3, <3>4, <4>1, ClientTurnsPage
    <3>5. CASE rows = {}
      <4>1. client' = [client EXCEPT ![c] = Accept(c, status)]
        BY <1>3, <2>3, <3>5 DEF AfterAnswer
      <4>2. \A i \in walk[c].known : i <= client[c].after
        BY <3>1, <3>5 DEF Shows
      <4>3. ShownPage(c, {})
        BY <3>3, <3>5 DEF IdsOf
      <4>4. client[c].at = "waiting" /\ status # 409
        BY <1>3, <2>3
      <4> QED BY <1>1, <4>1, <4>2, <4>3, <4>4, ClientIsDone
    <3> QED BY <3>4, <3>5
  <2>4. CASE ~(status >= 500) /\ ~(status = 200 /\ errand[c].kind = "walk")
    <3>1. /\ client' = [client EXCEPT ![c] = Accept(c, status)]
          /\ walk' = walk
      BY <1>3, <2>4 DEF AfterAnswer
    <3>2. ShownPage(c, {})
      BY <1>1, <3>1, NothingShown
    <3> QED BY <1>1, <1>3, <2>4, <3>1, <3>2, ClientIsDone
  <2> QED BY <2>2, <2>3, <2>4
<1> QED BY <1>2, <1>3 DEF Respond

(* A step that is not a new request: at most one client goes on, and each  *)
(* worker rests, is done with its request, or serves it well.              *)
LEMMA ServiceGoesOn ==
  ASSUME HttpInv, [BillingNext]_billingVars, errand' = errand, posted' \subseteq posted,
         UNCHANGED <<client, walk>> \/ \E c \in Clients : GoodStep(c),
         serving' \in [Processes -> Message \cup {NoMessage}],
         \A w \in Processes :
           \/ serving'[w] = NoMessage
           \/ /\ serving'[w] = serving[w] \/ serving'[w] \in posted
              /\ ServesWell(w)'
           \/ serving'[w] = serving[w] /\ call'[w] = call[w] /\ answer'[w] = answer[w]
  PROVE  HttpInv'
<1>1. /\ client' \in [Clients -> Client] /\ walk' \in [Clients -> Walk]
      /\ \A c \in Clients : walk'[c].known = walk[c].known
      /\ \A c \in Clients : Unsent(c)' => Unsent(c)
  BY DEF GoodStep, HttpInv, HttpTypes, Unsent
<1>2. ASSUME NEW c \in Clients PROVE WalkOK(c)' /\ ConflictOK(c)'
  <2>1. CASE client'[c] = client[c] /\ walk'[c] = walk[c]
    BY <2>1, ClientRests
  <2>2. CASE GoodStep(c)
    BY <2>2 DEF GoodStep
  <2> QED BY <2>1, <2>2 DEF GoodStep
<1>3. ASSUME NEW w \in Processes PROVE ServesWell(w)'
  <2>1. CASE serving'[w] = NoMessage
    BY <2>1 DEF ServesWell
  <2>2. CASE serving'[w] = serving[w] /\ call'[w] = call[w] /\ answer'[w] = answer[w]
    <3>1. serving[w] # NoMessage => serving[w].client \in Clients
      BY DEF HttpInv, HttpTypes, Message
    <3> QED BY <1>1, <2>2, <3>1, WorkerRests
  <2> QED BY <2>1, <2>2
<1>4. FirstSent'
  BY <1>1 DEF FirstSent, HttpInv
<1>5. TableInv'
  BY TableStep DEF HttpInv
<1>6. HttpTypes'
  BY <1>1 DEF HttpInv, HttpTypes
<1> QED BY <1>2, <1>3, <1>4, <1>5, <1>6 DEF HttpInv, ClientsOK, WorkersOK

(* A client that sends a request gets to know what is there, if it is its  *)
(* first; what it sends is not anybody else's.                             *)
LEMMA SendStep ==
  ASSUME HttpInv, NEW c \in Clients, Send(c)
  PROVE  HttpInv'
<1>1. [BillingNext]_billingVars /\ errand' = errand /\ serving' = serving
  BY DEF Send
<1>2. /\ client[c] \in Client /\ client \in [Clients -> Client] /\ walk \in [Clients -> Walk]
      /\ walk[c] \in Walk /\ IdsOf(Ours) \subseteq InvoiceIds /\ WalkOK(c)
      /\ client[c].at = "ready" /\ client[c].status = 0
  BY IdsTyped DEF HttpInv, HttpTypes, ClientsOK, WalkOK, Send
<1>3. PICK new : new = [client[c] EXCEPT !.at = "waiting"]
  OBVIOUS
<1>4. /\ new \in Client /\ new.at = "waiting" /\ new.after = client[c].after
      /\ new.attempt = client[c].attempt /\ new.status = 0
  BY <1>2, <1>3 DEF Client
<1>5. client' = [client EXCEPT ![c] = new] /\ client'[c] = new
  BY <1>2, <1>3 DEF Send
<1>6. client' \in [Clients -> Client] /\ \A d \in Clients \ {c} : client'[d] = client[d]
  BY <1>2, <1>4, <1>5
<1>7. PICK known : known = IF Unsent(c) THEN IdsOf(Ours) ELSE walk[c].known
  OBVIOUS
<1>8. /\ known \subseteq InvoiceIds /\ known \subseteq IdsOf(Ours)
      /\ ~Unsent(c) => known = walk[c].known
  BY <1>2, <1>7 DEF WalkOK, Walk
<1>9. PICK shown : shown = [walk[c] EXCEPT !.known = known]
  OBVIOUS
<1>10. /\ shown \in Walk /\ shown.known = known /\ shown.listed = walk[c].listed
       /\ shown.twice = walk[c].twice
  BY <1>2, <1>8, <1>9 DEF Walk
<1>11. walk' = [walk EXCEPT ![c] = shown]
  <2>1. CASE Unsent(c)
    BY <1>2, <1>7, <1>9, <2>1 DEF Send, Unsent
  <2>2. CASE ~Unsent(c)
    <3>1. walk' = walk
      BY <1>2, <2>2 DEF Send, Unsent
    <3>2. shown = walk[c]
      BY <1>2, <1>8, <1>9, <2>2 DEF Walk
    <3> QED BY <1>2, <3>1, <3>2
  <2> QED BY <2>1, <2>2
<1>12. /\ walk' \in [Clients -> Walk] /\ walk'[c] = shown
       /\ \A d \in Clients \ {c} : walk'[d] = walk[d]
  BY <1>2, <1>10, <1>11
<1>13. IdsOf(Ours)' = IdsOf(Ours)
  BY DEF Send, IdsOf, Ours, billingVars, storeVars
<1>14. client[c].after = 0 => \A i \in known : ~(i <= 0)
  BY <1>8, StoreConstants
<1>15. WalkOK(c)'
  <2>1. CASE Unsent(c)
    <3>1. walk[c].listed = {} \/ errand[c].kind # "walk"
      <4>1. ASSUME errand[c].kind = "walk", NEW i \in walk[c].listed PROVE FALSE
        <5>1. i <= 0 /\ i \in InvoiceIds
          BY <1>2, <2>1, <4>1 DEF WalkOK, Unsent, Walk
        <5> QED BY <5>1, StoreConstants
      <4> QED BY <4>1
    <3> QED BY <1>1, <1>2, <1>4, <1>5, <1>8, <1>10, <1>12, <1>13, <1>14, <2>1, <3>1
            DEF WalkOK, Unsent
  <2>2. CASE ~Unsent(c)
    BY <1>1, <1>2, <1>4, <1>5, <1>8, <1>10, <1>12, <1>13, <2>2 DEF WalkOK
  <2> QED BY <2>1, <2>2
<1>16. ConflictOK(c)'
  BY <1>4, <1>5 DEF ConflictOK
<1>17. \A d \in Clients : WalkOK(d)' /\ ConflictOK(d)'
  BY <1>1, <1>6, <1>12, <1>15, <1>16, ClientRests
<1>18. posted' = posted \cup {Current(c)} /\ Current(c) \in Message /\ Current(c).client = c
  BY <1>2 DEF Send, Current, Message, Client
<1>19. HttpTypes'
  BY <1>1, <1>6, <1>12, <1>18 DEF HttpInv, HttpTypes
<1>20. FirstSent'
  <2>1. ~Unsent(c)'
    BY <1>4, <1>5 DEF Unsent
  <2>2. ASSUME NEW d \in Clients, Unsent(d)' PROVE d # c /\ Unsent(d)
    BY <1>6, <2>1, <2>2 DEF Unsent
  <2> QED BY <1>1, <1>18, <2>2 DEF FirstSent, HttpInv
<1>21. ASSUME NEW w \in Processes PROVE ServesWell(w)'
  <2>1. serving[w] # NoMessage => /\ serving[w].client \in Clients
                                  /\ ~Unsent(serving[w].client)
    BY DEF HttpInv, HttpTypes, Message, FirstSent
  <2>2. serving[w] # NoMessage =>
          walk'[serving[w].client].known = walk[serving[w].client].known
    BY <1>8, <1>10, <1>12, <2>1
  <2>3. call'[w] = call[w] /\ answer'[w] = answer[w]
    BY DEF Send, billingVars, storeVars
  <2> QED BY <1>1, <2>2, <2>3, WorkerRests
<1>22. TableInv'
  BY <1>1, TableStep DEF HttpInv
<1> QED BY <1>17, <1>19, <1>20, <1>21, <1>22 DEF HttpInv, ClientsOK, WorkersOK

LEMMA GiveUpStep ==
  ASSUME HttpInv, NEW c \in Clients, GiveUp(c)
  PROVE  HttpInv'
<1>1. [BillingNext]_billingVars /\ errand' = errand /\ serving' = serving /\ posted' = posted
  BY DEF GiveUp
<1>2. GoodStep(c)
  BY <1>1, ClientSendsAgain DEF GiveUp
<1>3. \A w \in Processes : call'[w] = call[w] /\ answer'[w] = answer[w]
  BY DEF GiveUp, billingVars, storeVars
<1>4. serving' \in [Processes -> Message \cup {NoMessage}]
  BY <1>1 DEF HttpInv, HttpTypes
<1> QED BY <1>1, <1>2, <1>3, <1>4, ServiceGoesOn

(* A step of one worker.                                                   *)
WorkerServes(w) ==
  /\ serving' \in [Processes -> Message \cup {NoMessage}]
  /\ \A v \in Processes \ {w} :
       serving'[v] = serving[v] /\ call'[v] = call[v] /\ answer'[v] = answer[v]

LEMMA WorkerGoesOn ==
  ASSUME HttpInv, [BillingNext]_billingVars, errand' = errand, posted' \subseteq posted,
         UNCHANGED <<client, walk>> \/ \E c \in Clients : GoodStep(c),
         NEW w \in Processes, WorkerServes(w),
         \/ serving'[w] = NoMessage
         \/ (serving'[w] = serving[w] \/ serving'[w] \in posted) /\ ServesWell(w)'
  PROVE  HttpInv'
  BY ServiceGoesOn DEF WorkerServes

LEMMA WorkerAnswers ==
  ASSUME HttpInv, [BillingNext]_billingVars, errand' = errand, posted' \subseteq posted,
         NEW w \in Processes, NEW m \in Message, NEW status \in Statuses, NEW rows,
         Respond(w, m, status, rows),
         \A v \in Processes \ {w} : call'[v] = call[v] /\ answer'[v] = answer[v],
         errand[m.client].kind = "walk" /\ status = 200 =>
           Shows(walk[m.client].known, m.after, rows),
         status = 409 /\ MayConflict(m.client) =>
           Blocked(errand[m.client].key, errand[m.client].print)'
  PROVE  HttpInv'
<1>1. UNCHANGED <<client, walk>> \/ \E c \in Clients : GoodStep(c)
  BY RespondsWell DEF Message
<1>2. WorkerServes(w) /\ serving'[w] = NoMessage
  BY DEF Respond, WorkerServes, HttpInv, HttpTypes
<1> QED BY <1>1, <1>2, WorkerGoesOn

LEMMA RefuseStep ==
  ASSUME HttpInv, NEW w \in Processes, NEW m \in posted, Refuse(w, m) \/ RefuseTerms(w, m)
  PROVE  HttpInv'
<1>1. m \in Message /\ m.client \in Clients
  BY DEF HttpInv, HttpTypes, Message
<1>2. errand[m.client].flaw \in {0, 400, 401, 404, 405, 411, 413, 415}
  BY <1>1, ErrandsTyped DEF HttpInv, Errand
<1>3. PICK status : /\ status \in {400, 401, 404, 405, 411, 413, 415}
                    /\ Respond(w, m, status, {})
  <2>1. CASE Refuse(w, m)
    BY <1>2, <2>1 DEF Refuse
  <2>2. CASE RefuseTerms(w, m)
    BY <2>2 DEF RefuseTerms
  <2> QED BY <2>1, <2>2
<1>4. status \in Statuses /\ status # 200 /\ status # 409
  BY <1>3 DEF Statuses
<1>5. /\ [BillingNext]_billingVars /\ errand' = errand /\ posted' \subseteq posted
      /\ \A v \in Processes : call'[v] = call[v] /\ answer'[v] = answer[v]
  BY DEF Refuse, RefuseTerms, Take, billingVars, storeVars
<1> QED BY <1>1, <1>3, <1>4, <1>5, WorkerAnswers

LEMMA DispatchStep ==
  ASSUME HttpInv, NEW w \in Processes, NEW m \in posted, Dispatch(w, m)
  PROVE  HttpInv'
<1> DEFINE c == m.client
           e == errand[c]
<1>1. /\ m \in Message /\ c \in Clients /\ m.after \in InvoiceIds \cup {0}
      /\ errand' = errand /\ posted' \subseteq posted /\ UNCHANGED <<client, walk>>
      /\ serving' = [serving EXCEPT ![w] = m]
  BY DEF HttpInv, HttpTypes, Message, Dispatch, Take
<1>2. CreateSteps(w) \/ VerifySteps(w) \/ ReadSteps(w)
  BY DispatchIsACall DEF HttpInv, HttpTypes
<1>3. [BillingNext]_billingVars
  BY <1>2 DEF BillingNext
<1>4. serving'[w] = m /\ m # NoMessage /\ WorkerServes(w)
  BY <1>1, <1>2, OthersUntouched, NoMessageIsNone
     DEF WorkerServes, HttpInv, HttpTypes, TableInv
<1>5. ASSUME e.kind = "walk"
      PROVE  call'[w].at = "reply" /\ Shows(walk[c].known, m.after, answer'[w].rows)
  <2>1. ListInvoices(w, m.after, e.limit) /\ e.limit \in PageSizes
    BY <1>1, <1>5, ErrandsTyped DEF Dispatch, HttpInv
  <2>2. walk[c].known \subseteq IdsOf(Ours)
    BY <1>1 DEF HttpInv, ClientsOK, WalkOK
  <2>3. Shows(walk[c].known, m.after, answer'[w].rows)
    BY <1>1, <2>1, <2>2, ListsShow DEF HttpInv
  <2>4. call'[w].at = "reply"
    BY <2>1 DEF ListInvoices, Idle, HttpInv, TableInv, ServiceInv, CallTypes
  <2> QED BY <2>3, <2>4
<1>6. ASSUME e.kind = "create"
      PROVE  /\ call'[w].op = "create" /\ call'[w].at = "validate"
             /\ call'[w].key = e.key /\ call'[w].print = e.print
  <2>1. PICK i : BeginCreate(w, e.print, e.key, i)
    BY <1>6 DEF Dispatch
  <2> QED BY <2>1 DEF BeginCreate, Idle, HttpInv, TableInv, ServiceInv, CallTypes
<1>7. ServesWell(w)'
  BY <1>1, <1>4, <1>5, <1>6 DEF ServesWell, MayConflict
<1> QED BY <1>1, <1>3, <1>4, <1>7, WorkerGoesOn

(* A worker whose call goes on: of a creation, with what it asks for; if   *)
(* it conflicts, the terms are blocked.                                    *)
LEMMA CreationGoesOn ==
  ASSUME HttpInv, errand' = errand, NEW w \in Processes, ValidateRecipient(w) \/ StoreInvoice(w),
         call'[w] # Idle, NEW c \in Clients, errand[c].kind = "create", call[w].op = "create",
         call[w].key = errand[c].key, call[w].print = errand[c].print
  PROVE  /\ call'[w].op = "create" /\ call'[w].key = errand[c].key
         /\ call'[w].print = errand[c].print
         /\ MayConflict(c) /\ call'[w].at = "reply" /\ answer'[w].outcome = "invoice_conflict" =>
              Blocked(errand[c].key, errand[c].print)'
<1>1. call \in [Processes -> Call] /\ call[w] \in Call
  BY DEF HttpInv, TableInv, ServiceInv, CallTypes
<1>2. PICK place \in {"create", "reply"} :
        Goto(w, place) /\ (place = "reply" => StoreInvoice(w))
  BY <1>1 DEF ValidateRecipient, StoreInvoice
<1>3. call'[w] = [call[w] EXCEPT !.at = place]
  BY <1>1, <1>2 DEF Goto
<1>4. /\ call'[w].op = "create" /\ call'[w].key = errand[c].key
      /\ call'[w].print = errand[c].print /\ call'[w].at = place
  BY <1>1, <1>3 DEF Call
<1>5. ASSUME MayConflict(c), StoreInvoice(w), answer'[w].outcome = "invoice_conflict"
      PROVE  Blocked(errand[c].key, errand[c].print)'
  <2>1. call[w].request.invoice_id \in IdsFor(call[w].print)
    BY <1>5 DEF HttpInv, TableInv, TermsKept, StoreInvoice
  <2>2. call[w].request.invoice_id = TermsOf[call[w].print].invoice_id
    BY <1>5, <2>1 DEF MayConflict, IdsFor, Chosen
  <2>3. call[w].key \in Keys
    BY <1>5, ErrandsTyped DEF MayConflict, HttpInv, Errand
  <2>4. PICK k, p : k = call[w].key /\ p = call[w].print
    OBVIOUS
  <2>5. Blocked(k, p)'
    BY <1>5, <2>2, <2>3, <2>4, ConflictsAreBlocked DEF StoreInvoice, HttpInv
  <2> QED BY <1>5, <2>4, <2>5 DEF Blocked
<1> QED BY <1>2, <1>4, <1>5

LEMMA PlaceOfCall ==
  ASSUME NEW w \in Processes
  PROVE  /\ ValidateRecipient(w) => call[w].at = "validate"
         /\ StoreInvoice(w) => call[w].at = "create"
         /\ Observe(w) => call[w].at = "verify"
         /\ FinalizeObservation(w) => call[w].at = "finalize"
         /\ Reread(w) => call[w].at = "reread"
<1>1. Observe(w) => call[w].at = "verify"
  BY Zenon DEF Observe
<1> QED BY <1>1 DEF ValidateRecipient, StoreInvoice, FinalizeObservation, Reread

LEMMA ProceedStep ==
  ASSUME HttpInv, NEW w \in Processes, Proceed(w)
  PROVE  HttpInv'
<1> DEFINE c == serving[w].client
<1>1. /\ serving[w] \in Message /\ c \in Clients /\ serving[w] # NoMessage
      /\ errand' = errand /\ posted' \subseteq posted
  BY DEF HttpInv, HttpTypes, Message, Proceed, Serving
<1>2. CreateSteps(w) \/ VerifySteps(w)
  BY DEF Proceed, CreateSteps, VerifySteps
<1>3. [BillingNext]_billingVars
  BY <1>2 DEF BillingNext
<1>4. \A v \in Processes \ {w} : call'[v] = call[v] /\ answer'[v] = answer[v]
  BY <1>2, OthersUntouched DEF HttpInv, TableInv
<1>5. CASE call'[w] = Idle /\ Respond(w, serving[w], 400, {})
  <2>1. 400 \in Statuses /\ 400 # 200 /\ 400 # 409
    BY DEF Statuses
  <2> QED BY <1>1, <1>3, <1>4, <1>5, <2>1, WorkerAnswers
<1>6. CASE call'[w] # Idle /\ UNCHANGED <<client, serving, walk>>
  <2>1. WorkerServes(w)
    BY <1>4, <1>6 DEF WorkerServes, HttpInv, HttpTypes
  <2>2. errand[c].kind # "walk"
    BY <1>1, PlaceOfCall DEF Proceed, HttpInv, WorkersOK, ServesWell
  <2>3. ASSUME errand[c].kind = "create"
        PROVE  /\ call[w].op = "create" /\ call[w].key = errand[c].key
               /\ call[w].print = errand[c].print
    BY <1>1, <2>3 DEF HttpInv, WorkersOK, ServesWell
  <2>4. errand[c].kind = "create" => ValidateRecipient(w) \/ StoreInvoice(w)
    BY <2>3, PlaceOfCall DEF Proceed, HttpInv, TableInv, ServiceInv, CallsHold
  <2>5. ServesWell(w)'
    BY <1>1, <1>6, <2>2, <2>3, <2>4, CreationGoesOn DEF ServesWell, MayConflict
  <2> QED BY <1>1, <1>3, <1>6, <2>1, <2>5, WorkerGoesOn
<1> QED BY <1>5, <1>6 DEF Proceed

LEMMA ReplyStep ==
  ASSUME HttpInv, NEW w \in Processes, HttpReply(w)
  PROVE  HttpInv'
<1>0. PICK m : m = serving[w]
  OBVIOUS
<1> DEFINE c == m.client
<1>1. /\ m \in Message /\ c \in Clients /\ m # NoMessage
      /\ errand' = errand /\ posted' \subseteq posted
      /\ Respond(w, m, StatusOf(w), Visible(w))
  BY <1>0 DEF HttpInv, HttpTypes, Message, HttpReply, Serving
<1>2. [BillingNext]_billingVars
  BY DEF HttpReply, BillingNext
<1>3. \A v \in Processes \ {w} : call'[v] = call[v] /\ answer'[v] = answer[v]
  BY OthersUntouched DEF HttpReply, HttpInv, TableInv
<1>4. /\ StatusOf(w) \in Statuses
      /\ StatusOf(w) = 200 => Visible(w) = answer[w].rows
      /\ StatusOf(w) = 409 => answer[w].outcome = "invoice_conflict"
  BY DEF StatusOf, Statuses
<1>5. errand[c].kind = "create" => call[w].at = "reply"
  BY <1>0, <1>1 DEF HttpReply, Reply, Finished, HttpInv, WorkersOK, ServesWell, TableInv,
                    ServiceInv, CallsHold
<1>6. errand[c].kind = "walk" /\ StatusOf(w) = 200 =>
        Shows(walk[c].known, m.after, Visible(w))
  BY <1>0, <1>1, <1>4 DEF HttpInv, WorkersOK, ServesWell
<1>7. ASSUME StatusOf(w) = 409, MayConflict(c)
      PROVE  Blocked(errand[c].key, errand[c].print)'
  <2>1. PICK k, p : k = errand[c].key /\ p = errand[c].print
    OBVIOUS
  <2>2. Blocked(k, p)
    BY <1>0, <1>1, <1>4, <1>5, <1>7, <2>1
       DEF HttpInv, WorkersOK, ServesWell, MayConflict
  <2>3. Blocked(k, p)'
    BY <1>2, <2>2, BlocksStay DEF HttpInv, TableInv
  <2> QED BY <1>1, <2>1, <2>3 DEF Blocked
<1> QED BY <1>1, <1>2, <1>3, <1>4, <1>6, <1>7, WorkerAnswers

LEMMA ErrorStep ==
  ASSUME HttpInv, NEW w \in Processes, HttpError(w)
  PROVE  HttpInv'
<1>1. /\ serving[w] \in Message /\ errand' = errand /\ posted' \subseteq posted
  BY DEF HttpInv, HttpTypes, HttpError, Serving
<1>2. [BillingNext]_billingVars
  BY DEF HttpError, BillingNext
<1>3. \A v \in Processes \ {w} : call'[v] = call[v] /\ answer'[v] = answer[v]
  BY OthersUntouched DEF HttpError, HttpInv, TableInv
<1>4. ASSUME NEW status \in {400, 500, 502, 503}, Respond(w, serving[w], status, {})
      PROVE  HttpInv'
  <2>1. status \in Statuses /\ status # 200 /\ status # 409
    BY DEF Statuses
  <2> QED BY <1>1, <1>2, <1>3, <1>4, <2>1, WorkerAnswers
<1>5. CASE serving' = [serving EXCEPT ![w] = NoMessage] /\ UNCHANGED <<client, walk>>
  <2>1. WorkerServes(w) /\ serving'[w] = NoMessage
    BY <1>3, <1>5 DEF WorkerServes, HttpInv, HttpTypes
  <2> QED BY <1>1, <1>2, <1>5, <2>1, WorkerGoesOn
<1> QED BY <1>4, <1>5 DEF HttpError

LEMMA NobodyMoves ==
  ASSUME HttpInv, (Surroundings /\ UNCHANGED httpVars) \/ UNCHANGED vars
  PROVE  HttpInv'
<1>1. UNCHANGED httpVars /\ UNCHANGED <<call, answer>>
  BY DEF Surroundings, Mine, ClockStep, ClockMoves, vars, billingVars, storeVars
<1>2. [BillingNext]_billingVars
  BY DEF Surroundings, BillingNext, vars
<1>3. /\ errand' = errand /\ posted' = posted /\ UNCHANGED <<client, walk>>
      /\ serving' = serving /\ serving \in [Processes -> Message \cup {NoMessage}]
  BY <1>1 DEF httpVars, HttpInv, HttpTypes
<1> QED BY <1>1, <1>2, <1>3, ServiceGoesOn

LEMMA HttpStep ==
  ASSUME HttpInv, [HttpNext]_vars
  PROVE  HttpInv'
  BY SendStep, GiveUpStep, RefuseStep, DispatchStep, ProceedStep, ReplyStep, ErrorStep, NobodyMoves
  DEF HttpNext

LEMMA HttpStarts ==
  ASSUME HttpInit
  PROVE  HttpInv
<1>1. ServiceInv
  BY ServiceInitially DEF HttpInit
<1>2. TableInv
  BY <1>1, FS_EmptySet DEF TableInv, TermsKept, HttpInit, BillingInit, StoreInit, Idle
<1>3. HttpTypes
  <2>1. [at |-> "ready", attempt |-> 0, after |-> 0, status |-> 0] \in Client
    BY HttpConstants DEF Client
  <2>2. [known |-> {}, listed |-> {}, twice |-> FALSE] \in Walk
    BY DEF Walk
  <2> QED BY <2>1, <2>2 DEF HttpTypes, HttpInit
<1>4. ClientsOK
  BY DEF HttpInit, ClientsOK, WalkOK, ConflictOK
<1>5. FirstSent /\ WorkersOK
  BY DEF HttpInit, FirstSent, WorkersOK, ServesWell
<1> QED BY <1>2, <1>3, <1>4, <1>5 DEF HttpInv

LEMMA HttpInvariant == HttpSpec => []HttpInv
<1>1. HttpInit => HttpInv
  BY HttpStarts
<1>2. HttpInv /\ [HttpNext]_vars => HttpInv'
  BY HttpStep
<1> QED BY <1>1, <1>2, PTL DEF HttpSpec

(* The application is an implementation of the billing service: clients    *)
(* that give up and send again, workers that die and answers that are lost *)
(* let nothing happen to the table, or to a call, that the service does    *)
(* not do; whatever holds of the service holds behind HTTP.                *)
THEOREM HttpImplementsBilling == HttpSpec => BillingSpec
<1>1. HttpInit => BillingInit
  BY DEF HttpInit
<1>2. HttpInv /\ [HttpNext]_vars => [BillingNext]_billingVars
  BY HttpStepsBilling DEF HttpInv, HttpTypes
<1> QED BY <1>1, <1>2, HttpInvariant, PTL DEF HttpSpec, BillingSpec

(* Under one key all creations answer with the same invoice, however often *)
(* and to whichever worker clients send them again.                        *)
THEOREM RetriesNameOneInvoice == HttpSpec => []OneInvoicePerKey
  BY HttpImplementsBilling, KeysNameOneInvoice, PTL

(* 409 is final: a keyed creation of a chosen id that is answered so has   *)
(* no invoice, and gets none from an attempt that is still under way.      *)
THEOREM ConflictAnswersStand == HttpSpec => []ConflictsStand
<1>1. HttpInv => ConflictsStand
  <2>1. ASSUME HttpInv, NEW c \in Clients, errand[c].kind = "create", errand[c].key # NoKey,
               TermsOf[errand[c].print].invoice_id # GeneratedId, client[c].status = 409,
               NEW r \in invoices
        PROVE  ~(/\ r.idempotency_key = errand[c].key
                 /\ r.creation_fingerprint = errand[c].print)
    <3>1. errand[c].key \in Keys /\ errand[c].print \in Fingerprints
      BY <2>1, ErrandsTyped DEF HttpInv, Errand
    <3>2. MayConflict(c) /\ Blocked(errand[c].key, errand[c].print)
      BY <2>1 DEF HttpInv, ClientsOK, ConflictOK, MayConflict, Chosen
    <3> QED BY <2>1, <3>1, <3>2, BlockedHasNone DEF HttpInv, MayConflict
  <2> QED BY <2>1 DEF ConflictsStand
<1> QED BY <1>1, HttpInvariant, PTL

(* Whoever pages through the list until an empty page is shown every       *)
(* invoice that there was when it began, and none twice.                   *)
THEOREM WalksShowAll == HttpSpec => []WalksComplete
<1>1. HttpInv => WalksComplete
  BY DEF HttpInv, ClientsOK, WalkOK, WalksComplete
<1> QED BY <1>1, HttpInvariant, PTL
================================================================================
