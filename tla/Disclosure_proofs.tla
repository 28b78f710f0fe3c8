--------------------------- MODULE Disclosure_proofs ---------------------------
(***************************************************************************)
(* Proofs about the disclosure database and the calls of its service, for  *)
(* all processes, challenges, policies, authorizations, credentials,       *)
(* revocations, capacities and clocks, with ideal cryptography.            *)
(*                                                                         *)
(* First the database.  Its invariant has a part for each table and one    *)
(* for the open transaction.  An operation changes one table at most, and  *)
(* two when it refreshes an issuer, so that its proof looks at the parts   *)
(* it disturbs.                                                            *)
(*                                                                         *)
(* Then the calls.  Every step of a call is a step of the store, or leaves *)
(* it alone: what is proved of the store holds of the service.  The        *)
(* invariant of the calls says what their local variables carry from one   *)
(* step to the next; that of the grants relates them to the table of       *)
(* requests and the floor.                                                 *)
(***************************************************************************)
EXTENDS Disclosure, FiniteSetTheorems, TLAPS

(* A challenge names one request, an authorization has one row.            *)
RequestsOK ==
  /\ requests \subseteq Row /\ IsFiniteSet(requests)
  /\ \A r, q \in requests : r.request.challenge = q.request.challenge => r = q

IssuersOK ==
  /\ issuers \subseteq IssuerRow /\ IsFiniteSet(issuers)
  /\ \A r, q \in issuers : r.authorization = q.authorization => r = q
  /\ StatusNotAhead

RevocationsOK == revocations \subseteq Revocations /\ IsFiniteSet(revocations)

(* While a transaction is open nobody commits: its reading stays ahead of  *)
(* the floor.                                                              *)
TransactionOK ==
  /\ floor \in Times /\ reading \in Times
  /\ writer \in Processes \cup {Nobody}
  /\ writer # Nobody => floor <= reading

StoreInv == RequestsOK /\ IssuersOK /\ RevocationsOK /\ TransactionOK /\ NeverLockedOut

-----------------------------------------------------------------------------

(* The sizes of tables that are finite are numbers.                        *)
LEMMA SizesAreNumbers ==
  ASSUME StoreInv
  PROVE  /\ Cardinality(requests) \in Nat
         /\ Cardinality(issuers) \in Nat
         /\ Cardinality(revocations) \in Nat
  BY FS_CardinalityType DEF StoreInv, RequestsOK, IssuersOK, RevocationsOK

(* A refresh replaces the row of its authorization, or adds one.           *)
LEMMA RefreshedIssuers ==
  ASSUME IssuersOK, NEW auth \in Authorizations, NEW t \in Times, floor <= t, floor \in Times,
         NEW T, T = (issuers \ RowsOf(auth)) \cup {[authorization |-> auth, checked_at |-> t]}
  PROVE  /\ T \subseteq IssuerRow /\ IsFiniteSet(T)
         /\ \A r, q \in T : r.authorization = q.authorization => r = q
         /\ \A row \in T : row.checked_at <= t
         /\ Cardinality(T) <= Cardinality(issuers) + (IF RowsOf(auth) = {} THEN 1 ELSE 0)
<1> DEFINE row == [authorization |-> auth, checked_at |-> t]
<1>1. T \subseteq IssuerRow
  BY DEF IssuersOK, IssuerRow, RowsOf
<1>2. \A r, q \in T : r.authorization = q.authorization => r = q
  BY DEF IssuersOK, RowsOf
<1>3. \A r \in T : r.checked_at <= t
  <2> SUFFICES ASSUME NEW r \in issuers PROVE r.checked_at <= t
    BY DEF Times
  <2>1. r.checked_at \in Times /\ r.checked_at <= floor
    BY DEF IssuersOK, IssuerRow, StatusNotAhead
  <2> QED BY <2>1, DisclosureConstants DEF Times
<1>4. IsFiniteSet(T) /\ Cardinality(T) <= Cardinality(issuers) + (IF RowsOf(auth) = {} THEN 1 ELSE 0)
  <2>0. Cardinality(issuers) \in Nat
    BY FS_CardinalityType DEF IssuersOK
  <2>1. CASE RowsOf(auth) = {}
    <3>1. T = issuers \cup {row} /\ IsFiniteSet(issuers)
      BY <2>1 DEF IssuersOK
    <3> HIDE DEF row
    <3>2. /\ IsFiniteSet(issuers \cup {row})
          /\ Cardinality(issuers \cup {row})
               = IF row \in issuers THEN Cardinality(issuers) ELSE Cardinality(issuers) + 1
      BY <3>1, FS_AddElement
    <3>3. IsFiniteSet(T) /\ Cardinality(T) <= Cardinality(issuers) + 1
      BY <3>1, <3>2, <2>0
    <3> QED BY <3>3, <2>1
  <2>2. CASE RowsOf(auth) # {}
    <3>1. PICK old \in issuers : old.authorization = auth
      BY <2>2 DEF RowsOf
    <3> DEFINE Rest == issuers \ {old}
    <3>2. T = Rest \cup {row} /\ IsFiniteSet(issuers)
      BY <3>1 DEF RowsOf, IssuersOK
    <3>3. IsFiniteSet(Rest) /\ Cardinality(Rest) = Cardinality(issuers) - 1
      BY <3>1, <3>2, FS_RemoveElement
    <3> HIDE DEF Rest, row
    <3>4. /\ IsFiniteSet(Rest \cup {row})
          /\ Cardinality(Rest \cup {row})
               = IF row \in Rest THEN Cardinality(Rest) ELSE Cardinality(Rest) + 1
      BY <3>3, FS_AddElement
    <3>5. IsFiniteSet(T) /\ Cardinality(T) <= Cardinality(issuers)
      <4>1. Cardinality(Rest) + 1 = Cardinality(issuers) /\ Cardinality(Rest) <= Cardinality(issuers)
        BY <3>3, <2>0
      <4>2. Cardinality(Rest \cup {row}) \in {Cardinality(Rest), Cardinality(Rest) + 1}
        BY <3>4
      <4>3. Cardinality(T) \in {Cardinality(Rest), Cardinality(Rest) + 1}
        BY <3>2, <4>2, Zenon
      <4>4. IsFiniteSet(T)
        BY <3>2, <3>4, Zenon
      <4> QED BY <4>1, <4>3, <4>4, <2>0
    <3> QED BY <3>5, <2>0, <2>2
  <2> QED BY <2>1, <2>2
<1> QED BY <1>1, <1>2, <1>3, <1>4

(* The revocations that a refresh adds are those it did not know.          *)
LEMMA AddedRevocations ==
  ASSUME RevocationsOK, NEW revs \in SUBSET Revocations
  PROVE  /\ revocations \cup revs \subseteq Revocations
         /\ IsFiniteSet(revocations \cup revs)
         /\ Cardinality(revocations \cup revs)
              = Cardinality(revocations) + Cardinality(revs \ revocations)
         /\ Cardinality(revs \ revocations) \in Nat
<1>1. IsFiniteSet(revs) /\ IsFiniteSet(revs \ revocations)
  BY FS_Subset, DisclosureConstants
<1>2. revocations \cup revs = revocations \cup (revs \ revocations)
  OBVIOUS
<1>3. /\ IsFiniteSet(revocations \cup (revs \ revocations))
      /\ Cardinality(revocations \cup (revs \ revocations))
           = Cardinality(revocations) + Cardinality(revs \ revocations)
  <2> DEFINE New == revs \ revocations
  <2>1. revocations \cap New = {} /\ IsFiniteSet(New) /\ IsFiniteSet(revocations)
    BY <1>1 DEF RevocationsOK
  <2> HIDE DEF New
  <2>2. /\ IsFiniteSet(revocations \cup New)
        /\ Cardinality(revocations \cup New)
             = Cardinality(revocations) + Cardinality(New) - Cardinality(revocations \cap New)
    BY <2>1, FS_Union
  <2>3. /\ Cardinality(revocations) \in Nat /\ Cardinality(New) \in Nat
        /\ Cardinality(revocations \cap New) = 0
    BY <2>1, FS_CardinalityType, FS_EmptySet
  <2>4. /\ IsFiniteSet(revocations \cup New)
        /\ Cardinality(revocations \cup New) = Cardinality(revocations) + Cardinality(New)
    BY <2>2, <2>3
  <2> QED BY <2>4 DEF New
<1> QED BY <1>1, <1>2, <1>3, FS_CardinalityType DEF RevocationsOK

-----------------------------------------------------------------------------

(* Each operation preserves the invariant.                                 *)
LEMMA RegisterPreserves ==
  ASSUME StoreInv, NEW t \in Times, NEW request \in Request, Register(request, t)
  PROVE  StoreInv'
<1> DEFINE row == [request |-> request, used |-> FALSE]
<1>1. /\ IsFiniteSet(requests') /\ Cardinality(requests') <= Cardinality(requests) + 1
  <2>1. requests' = requests \cup {row} /\ IsFiniteSet(requests)
    BY DEF Register, StoreInv, RequestsOK
  <2>2. /\ IsFiniteSet(requests \cup {row})
        /\ Cardinality(requests \cup {row})
             = IF row \in requests THEN Cardinality(requests) ELSE Cardinality(requests) + 1
    BY <2>1, FS_AddElement
  <2> QED BY <2>1, <2>2, SizesAreNumbers
<1>2. RequestsOK'
  <2>1. row \in Row /\ row.request = request
    BY DEF Row
  <2> HIDE DEF row
  <2>2. requests' = requests \cup {row}
    BY DEF Register, row
  <2> QED BY <1>1, <2>1, <2>2 DEF Register, StoreInv, RequestsOK
<1>3. IssuersOK'
  BY DisclosureConstants DEF Register, Ready, StoreInv, IssuersOK, StatusNotAhead, IssuerRow, Times, TransactionOK
<1>4. RevocationsOK' /\ TransactionOK'
  BY DEF Register, Ready, StoreInv, RevocationsOK, TransactionOK
<1>5. NeverLockedOut'
  BY <1>1, SizesAreNumbers, FS_CardinalityType, DisclosureConstants
     DEF Register, StoreInv, NeverLockedOut, Size
<1> QED BY <1>2, <1>3, <1>4, <1>5 DEF StoreInv

LEMMA RefreshPreserves ==
  ASSUME StoreInv, NEW t \in Times, NEW auth \in Authorizations, NEW revs \in SUBSET Revocations,
         RefreshIssuer(auth, revs, t)
  PROVE  StoreInv'
<1>0. floor <= t /\ floor \in Times /\ IssuersOK /\ RevocationsOK
  BY DEF RefreshIssuer, Ready, StoreInv, TransactionOK
<1>1. /\ issuers' \subseteq IssuerRow /\ IsFiniteSet(issuers')
      /\ \A r, q \in issuers' : r.authorization = q.authorization => r = q
      /\ \A row \in issuers' : row.checked_at <= t
      /\ Cardinality(issuers') <= Cardinality(issuers) + (IF RowsOf(auth) = {} THEN 1 ELSE 0)
  BY <1>0, RefreshedIssuers DEF RefreshIssuer
<1>2. /\ revocations' \subseteq Revocations /\ IsFiniteSet(revocations')
      /\ Cardinality(revocations') = Cardinality(revocations) + Cardinality(revs \ revocations)
      /\ Cardinality(revs \ revocations) \in Nat
  BY <1>0, AddedRevocations DEF RefreshIssuer
<1>3. RequestsOK' /\ TransactionOK'
  BY DEF RefreshIssuer, Ready, StoreInv, RequestsOK, TransactionOK
<1>4. IssuersOK' /\ RevocationsOK'
  BY <1>1, <1>2 DEF RefreshIssuer, IssuersOK, RevocationsOK, StatusNotAhead
<1>5. NeverLockedOut'
  <2> DEFINE one == IF RowsOf(auth) = {} THEN 1 ELSE 0
  <2>1. Size + (Cardinality(revs \ revocations) + one) <= Capacity /\ requests' = requests
    BY DEF RefreshIssuer, Room
  <2>2. one \in Nat /\ Cardinality(issuers') \in Nat
    BY <1>1, FS_CardinalityType
  <2> HIDE DEF one
  <2>3. Cardinality(issuers') <= Cardinality(issuers) + one
    BY <1>1 DEF one
  <2> QED BY <1>2, <2>1, <2>2, <2>3, SizesAreNumbers, DisclosureConstants DEF NeverLockedOut, Size
<1> QED BY <1>3, <1>4, <1>5 DEF StoreInv

LEMMA UsePreserves ==
  ASSUME StoreInv, NEW t \in Times, NEW p \in Processes, NEW challenge \in Challenges,
         Use(p, challenge, t)
  PROVE  StoreInv'
<1>1. PICK row \in requests :
        /\ row.request.challenge = challenge /\ ~row.used
        /\ requests' = (requests \ {row}) \cup {[row EXCEPT !.used = TRUE]}
  BY DEF Use
<1>2. row \in Row /\ IsFiniteSet(requests)
  BY DEF StoreInv, RequestsOK
<1> DEFINE used == [row EXCEPT !.used = TRUE]
           Rest == requests \ {row}
<1>3. used \in Row /\ used.request = row.request
  BY <1>2 DEF Row
<1>4. IsFiniteSet(Rest) /\ Cardinality(Rest) = Cardinality(requests) - 1
  BY <1>2, FS_RemoveElement
<1>5. IsFiniteSet(requests') /\ Cardinality(requests') <= Cardinality(requests)
  <2>1. /\ IsFiniteSet(Rest \cup {used})
        /\ Cardinality(Rest \cup {used}) = IF used \in Rest THEN Cardinality(Rest) ELSE Cardinality(Rest) + 1
    BY <1>4, FS_AddElement
  <2> QED BY <2>1, <1>4, <1>1, SizesAreNumbers
<1>6. RequestsOK'
  <2>1. requests' = (requests \ {row}) \cup {used}
    BY <1>1
  <2> HIDE DEF used
  <2> QED BY <1>2, <1>3, <1>5, <2>1 DEF StoreInv, RequestsOK
<1>7. floor <= reading /\ reading <= t
  BY DisclosureConstants DEF Use, StoreInv, TransactionOK
<1>8. IssuersOK' /\ RevocationsOK' /\ TransactionOK'
  BY <1>7, DisclosureConstants
     DEF Use, StoreInv, IssuersOK, RevocationsOK, TransactionOK, StatusNotAhead, IssuerRow, Times
<1>9. NeverLockedOut'
  BY <1>5, SizesAreNumbers, FS_CardinalityType, DisclosureConstants DEF Use, StoreInv, NeverLockedOut, Size
<1> QED BY <1>6, <1>8, <1>9 DEF StoreInv

(* The others change no table and do not turn the floor back.              *)
LEMMA TablesStand ==
  ASSUME StoreInv, UNCHANGED <<requests, issuers, revocations>>, floor <= floor', TransactionOK'
  PROVE  StoreInv'
<1>1. \A row \in issuers : row.checked_at \in Int /\ row.checked_at <= floor
  BY DisclosureConstants DEF StoreInv, IssuersOK, StatusNotAhead, IssuerRow, Times
<1>2. floor \in Int /\ floor' \in Int
  BY DisclosureConstants DEF StoreInv, TransactionOK, Times
<1>3. StatusNotAhead'
  BY <1>1, <1>2 DEF StatusNotAhead
<1> QED BY <1>3 DEF StoreInv, RequestsOK, IssuersOK, RevocationsOK, NeverLockedOut, Size

LEMMA CheckPreserves ==
  ASSUME StoreInv, NEW t \in Times, NEW auth, NEW freshness, CheckIssuer(auth, freshness, t)
  PROVE  StoreInv' /\ floor <= floor' /\ UNCHANGED <<requests, revocations>>
<1>1. UNCHANGED <<requests, issuers, revocations>> /\ floor <= floor' /\ TransactionOK'
  BY DEF CheckIssuer, Ready, StoreInv, TransactionOK
<1> QED BY <1>1, TablesStand

LEMMA TransactionPreserves ==
  ASSUME StoreInv, NEW t \in Times, NEW p \in Processes, Lock(p, t) \/ Unlock(p)
  PROVE  StoreInv' /\ floor <= floor' /\ UNCHANGED <<requests, revocations>>
<1>1. 0 \in Times /\ floor <= floor
  BY DisclosureConstants DEF StoreInv, TransactionOK, Times
<1>2. UNCHANGED <<requests, issuers, revocations, floor>> /\ TransactionOK'
  BY <1>1 DEF Lock, Unlock, Ready, StoreInv, TransactionOK
<1> QED BY <1>1, <1>2, TablesStand

LEMMA NothingPreserves ==
  ASSUME StoreInv, UNCHANGED disclosureVars
  PROVE  StoreInv' /\ floor <= floor' /\ UNCHANGED <<requests, revocations>>
<1>1. floor <= floor
  BY DisclosureConstants DEF StoreInv, TransactionOK, Times
<1>2. TransactionOK'
  BY DEF StoreInv, TransactionOK, disclosureVars
<1> QED BY <1>1, <1>2, TablesStand DEF disclosureVars

LEMMA ZeroIsATime == 0 \in Times
  BY DisclosureConstants DEF Times

-----------------------------------------------------------------------------

(* Every step preserves the invariant and keeps what was decided.          *)
Sticks ==
  /\ floor <= floor'
  /\ revocations \subseteq revocations'
  /\ {row \in requests : row.used} \subseteq requests'

LEMMA InitEstablishes == StoreInit => StoreInv
  BY FS_EmptySet, DisclosureConstants
     DEF StoreInit, StoreInv, RequestsOK, IssuersOK, RevocationsOK, TransactionOK, NeverLockedOut,
         StatusNotAhead, Size, Times

LEMMA StepSticks ==
  ASSUME StoreInv, [StoreNext]_disclosureVars
  PROVE  StoreInv' /\ Sticks
<1>1. ASSUME NEW t \in Times, NEW request \in Request, Register(request, t)
      PROVE  StoreInv' /\ Sticks
  BY <1>1, RegisterPreserves DEF Register, Ready, Sticks
<1>2. ASSUME NEW t \in Times, NEW auth \in Authorizations, NEW revs \in SUBSET Revocations,
             RefreshIssuer(auth, revs, t)
      PROVE  StoreInv' /\ Sticks
  BY <1>2, RefreshPreserves DEF RefreshIssuer, Ready, Sticks
<1>3. ASSUME NEW t \in Times, NEW p \in Processes, NEW challenge \in Challenges,
             Use(p, challenge, t)
      PROVE  StoreInv' /\ Sticks
  <2>1. floor <= reading /\ reading <= t /\ floor' = t
    BY <1>3, DisclosureConstants DEF Use, StoreInv, TransactionOK
  <2>2. floor <= floor'
    BY <2>1, DisclosureConstants DEF StoreInv, TransactionOK, Times
  <2>3. {row \in requests : row.used} \subseteq requests' /\ revocations' = revocations
    BY <1>3 DEF Use
  <2> QED BY <1>3, <2>2, <2>3, UsePreserves DEF Sticks
<1>4. ASSUME NEW t \in Times, NEW auth, NEW freshness, CheckIssuer(auth, freshness, t)
      PROVE  StoreInv' /\ Sticks
  BY <1>4, CheckPreserves DEF Sticks
<1>5. ASSUME NEW t \in Times, NEW p \in Processes, Lock(p, t) \/ Unlock(p)
      PROVE  StoreInv' /\ Sticks
  BY <1>5, TransactionPreserves DEF Sticks
<1>6. CASE UNCHANGED disclosureVars
  BY <1>6, NothingPreserves DEF Sticks
<1> QED BY <1>1, <1>2, <1>3, <1>4, <1>5, <1>6, ZeroIsATime DEF StoreNext, StoreStep

(* The tables satisfy the inductive invariant in every reachable state.    *)
THEOREM StoreInvariant == StoreSpec => []StoreInv
<1>1. StoreInv /\ [StoreNext]_disclosureVars => StoreInv'
  BY StepSticks
<1> QED BY <1>1, InitEstablishes, PTL DEF StoreSpec

(* Every variable has its type.                                            *)
THEOREM StoreTypeCorrect == StoreSpec => []StoreTypeOK
<1>1. StoreInv => StoreTypeOK
  BY DEF StoreInv, StoreTypeOK, RequestsOK, IssuersOK, RevocationsOK, TransactionOK
<1> QED BY <1>1, StoreInvariant, PTL

(* The tables never outgrow the capacity that _validate accepts.           *)
THEOREM StoreNeverLockedOut == StoreSpec => []NeverLockedOut
<1>1. StoreInv => NeverLockedOut
  BY DEF StoreInv
<1> QED BY <1>1, StoreInvariant, PTL

(* No status check is later than the floor.                                *)
THEOREM ChecksNotAhead == StoreSpec => []StatusNotAhead
<1>1. StoreInv => StatusNotAhead
  BY DEF StoreInv, IssuersOK
<1> QED BY <1>1, StoreInvariant, PTL

(* The floor, the revocations and the used requests are kept by every step. *)
THEOREM StoreDecisionsStick == StoreSpec => DecisionsStick
<1>1. StoreInv /\ [StoreNext]_disclosureVars => [Sticks]_disclosureVars
  BY StepSticks
<1> QED BY <1>1, StoreInvariant, PTL DEF StoreSpec, DecisionsStick, Sticks

-----------------------------------------------------------------------------

(* The requests that wait and those that were used, after each operation.  *)
LEMMA StepOfGate ==
  ASSUME StoreInv, [StoreNext]_disclosureVars
  PROVE  [Gate!GateNext]_(Gate!gateVars)
<1> USE DEF Waiting, Answered, Gate!gateVars
<1>1. ASSUME NEW t \in Times, NEW request \in Request, Register(request, t)
      PROVE  Gate!Open(request.challenge)
  <2> DEFINE row == [request |-> request, used |-> FALSE]
  <2>1. requests' = requests \cup {row} /\ row.request = request /\ row.used = FALSE
    BY <1>1 DEF Register
  <2> HIDE DEF row
  <2>2. request.challenge \notin Waiting \cup Answered
    BY <1>1 DEF Register
  <2>3. Waiting' = Waiting \cup {request.challenge} /\ Answered' = Answered
    BY <2>1
  <2> QED BY <2>2, <2>3 DEF Gate!Open
<1>2. ASSUME NEW t \in Times, NEW p \in Processes, NEW challenge \in Challenges,
             Use(p, challenge, t)
      PROVE  Gate!Spend(challenge)
  <2>1. PICK row \in requests :
          /\ row.request.challenge = challenge /\ ~row.used
          /\ requests' = (requests \ {row}) \cup {[row EXCEPT !.used = TRUE]}
    BY <1>2 DEF Use
  <2> DEFINE used == [row EXCEPT !.used = TRUE]
  <2>2. used.request = row.request /\ used.used = TRUE
    BY <2>1 DEF StoreInv, RequestsOK, Row
  <2>3. requests' = (requests \ {row}) \cup {used}
    BY <2>1
  <2> HIDE DEF used
  <2>4. \A r \in requests : r.request.challenge = challenge => r = row
    BY <2>1 DEF StoreInv, RequestsOK
  <2>5. Waiting' = Waiting \ {challenge}
    BY <2>1, <2>2, <2>3, <2>4
  <2>6. Answered' = Answered \cup {challenge}
    BY <2>1, <2>2, <2>3, <2>4
  <2> QED BY <2>1, <2>5, <2>6 DEF Gate!Spend
<1>3. ASSUME requests' = requests
      PROVE  UNCHANGED Gate!gateVars
  BY <1>3
<1>4. CASE \E t \in Times, request \in Request : Register(request, t)
  BY <1>1, <1>4 DEF Gate!GateNext, Request
<1>5. CASE \E t \in Times, p \in Processes, challenge \in Challenges : Use(p, challenge, t)
  BY <1>2, <1>5 DEF Gate!GateNext
<1>6. CASE requests' = requests
  BY <1>3, <1>6
<1>7. \/ \E t \in Times, request \in Request : Register(request, t)
      \/ \E t \in Times, p \in Processes, challenge \in Challenges : Use(p, challenge, t)
      \/ requests' = requests
  BY DEF StoreNext, StoreStep, RefreshIssuer, CheckIssuer, Lock, Unlock, disclosureVars
<1> QED BY <1>4, <1>5, <1>6, <1>7

(* A challenge is opened once and spent at most once.                      *)
THEOREM StoreImplementsGate == StoreSpec => GateSpec
<1>1. StoreInit => Gate!GateInit
  BY DEF StoreInit, Gate!GateInit, Waiting, Answered
<1>2. StoreInv /\ [StoreNext]_disclosureVars => [Gate!GateNext]_(Gate!gateVars)
  BY StepOfGate
<1> QED BY <1>1, <1>2, StoreInvariant, PTL DEF StoreSpec, GateSpec, Gate!GateSpec

-----------------------------------------------------------------------------
(* The calls of the service.                                               *)

(* The predicates of a credential are true of what was counted for it.     *)
Honest(cred) == cred.predicates = Predicates(cred.counted)

(* A presentation was derived from a credential that was issued, and whose *)
(* predicates include the threshold of the request.                        *)
Backed(p, issued) ==
  /\ \E cred \in issued :
       /\ cred.authorization = p.authorization /\ cred.claims = p.claims
       /\ cred.counted = p.counted
  /\ p.counted >= TermsOf[p.request.policy].threshold

SessionOK(s, issued, derived) ==
  /\ s.at = "idle" => s = Idle
  /\ s.at # "idle" => s.policy \in Policies
  /\ s.at \in {"count", "sign"} => s.artifact \in Credential
  /\ s.at \in {"derive", "prove", "consume"} => s.artifact \in Presentation
  /\ s.at = "sign" => Honest(s.artifact)
  /\ s.at = "derive" => Backed(s.artifact, issued)
  /\ s.at = "consume" => s.artifact \in derived

SessionsOK(f, issued, derived) ==
  /\ f \in [Processes -> Session]
  /\ \A c \in Processes : SessionOK(f[c], issued, derived)

CallsInv ==
  /\ SessionsOK(session, credentials, presentations)
  /\ evidence \in [Subjects -> 0..MaxEvidence]
  /\ credentials \subseteq Credential /\ \A cred \in credentials : Honest(cred)
  /\ presentations \subseteq Presentation
  /\ \A p \in presentations : Backed(p, credentials)

(* A grant was decided before the floor, its request is answered, and it   *)
(* fits the policy of the verifier.                                        *)
Decided(g, now, answered) == g.at <= now /\ g.presentation.request.challenge \in answered

InTime(g) ==
  LET p == g.presentation
  IN  /\ Active(p.request.not_before, p.request.expires_at, g.at)
      /\ Active(p.claims.issued_at, p.claims.expires_at, g.at)
      /\ Active(p.authorization.not_before, p.authorization.expires_at, g.at)

Deserved(g, issued) ==
  LET p == g.presentation
      t == TermsOf[g.policy]
  IN  /\ <<p.claims.subject, p.claims.network, p.claims.digest>>
            = <<t.subject, t.network, t.digest>>
      /\ p.authorization.evaluator = t.evaluator
      /\ p.counted >= t.threshold
      /\ \E cred \in issued :
           /\ cred.authorization = p.authorization /\ cred.claims = p.claims
           /\ cred.counted = p.counted

GrantsInv ==
  /\ grants \in Seq(Grant)
  /\ \A i \in DOMAIN grants :
       Decided(grants[i], floor, Answered) /\ InTime(grants[i]) /\ Deserved(grants[i], credentials)
  /\ OneGrantPerRequest /\ GrantsChronological

-----------------------------------------------------------------------------

(* One session changes, and what is issued and derived only grows.         *)
LEMMA SessionMoves ==
  ASSUME NEW f, NEW issued, NEW derived, SessionsOK(f, issued, derived),
         NEW c \in Processes, NEW s \in Session,
         NEW issuedNow, issued \subseteq issuedNow,
         NEW derivedNow, derived \subseteq derivedNow,
         SessionOK(s, issuedNow, derivedNow)
  PROVE  SessionsOK([f EXCEPT ![c] = s], issuedNow, derivedNow)
<1> DEFINE g == [f EXCEPT ![c] = s]
<1>1. g \in [Processes -> Session]
  BY DEF SessionsOK
<1>2. ASSUME NEW d \in Processes
      PROVE  SessionOK(g[d], issuedNow, derivedNow)
  <2>1. CASE d = c
    BY <2>1 DEF SessionsOK
  <2>2. CASE d # c
    <3>1. g[d] = f[d] /\ SessionOK(f[d], issued, derived)
      BY <2>2 DEF SessionsOK
    <3> HIDE DEF g
    <3> QED BY <3>1 DEF SessionOK, Backed
  <2> QED BY <2>1, <2>2
<1> QED BY <1>1, <1>2 DEF SessionsOK

LEMMA IdleIsASession ==
  /\ Idle \in Session
  /\ \A issued, derived : SessionOK(Idle, issued, derived)
  BY DEF Idle, Session, SessionOK

(* A call moves on with a new record of where it is.                       *)
LEMMA SessionEnters ==
  ASSUME CallsInv, NEW c \in Processes, NEW place, NEW policy \in Policies, NEW artifact,
         Enter(c, place, policy, artifact),
         place \in {"count", "sign", "derive", "prove", "consume"},
         place \in {"count", "sign"} => artifact \in Credential,
         place \in {"derive", "prove", "consume"} => artifact \in Presentation,
         place = "sign" => Honest(artifact),
         place = "derive" => Backed(artifact, credentials),
         place = "consume" => artifact \in presentations,
         UNCHANGED <<credentials, presentations>>
  PROVE  SessionsOK(session', credentials', presentations')
<1> DEFINE s == [at |-> place, policy |-> policy, artifact |-> artifact]
<1>1. s \in Session /\ SessionOK(s, credentials, presentations)
  BY DEF Session, SessionOK, Idle
<1>2. session' = [session EXCEPT ![c] = s] /\ credentials' = credentials /\ presentations' = presentations
  BY DEF Enter
<1> HIDE DEF s
<1>3. SessionsOK(session, credentials, presentations)
  BY DEF CallsInv
<1> QED BY <1>1, <1>2, <1>3, SessionMoves

LEMMA SessionLeaves ==
  ASSUME CallsInv, NEW c \in Processes, Leave(c),
         credentials \subseteq credentials', presentations \subseteq presentations'
  PROVE  SessionsOK(session', credentials', presentations')
  BY IdleIsASession, SessionMoves DEF CallsInv, Leave

LEMMA SessionsGrow ==
  ASSUME CallsInv, session' = session, credentials' = credentials, presentations' = presentations
  PROVE  SessionsOK(session', credentials', presentations')
  BY DEF CallsInv

-----------------------------------------------------------------------------

(* What the calls put into their records.                                  *)
LEMMA Drafted ==
  ASSUME NEW auth \in Authorizations, NEW policy \in Policies
  PROVE  [authorization |-> auth, predicates |-> {}, counted |-> 0,
          claims |-> [subject |-> TermsOf[policy].subject, network |-> auth.network,
                      digest |-> TermsOf[policy].digest, issued_at |-> 0, expires_at |-> 0]]
           \in Credential
<1>1. TermsOf[policy] \in Terms /\ auth.network \in Networks
  BY DisclosureServiceConstants, DisclosureConstants DEF Authorization
<1>2. 0 \in 0..MaxEvidence /\ 0 \in Times
  BY DisclosureServiceConstants, DisclosureConstants DEF Times
<1> QED BY <1>1, <1>2 DEF Terms, Credential, Claims

LEMMA Counted ==
  ASSUME NEW draft \in Credential, NEW t \in Times, NEW n \in 0..MaxEvidence, NEW ends,
         ends = Earlier(t + CredentialLifetime, draft.authorization.expires_at),
         NEW cred,
         cred = [draft EXCEPT !.predicates = Predicates(n), !.counted = n,
                              !.claims.issued_at = t, !.claims.expires_at = ends]
  PROVE  cred \in Credential /\ Honest(cred)
<1>1. draft.authorization \in Authorization /\ draft.authorization.expires_at \in Times
  BY DisclosureConstants DEF Credential, Authorization
<1>2. ends \in Times
  BY <1>1, DisclosureServiceConstants, DisclosureConstants DEF Earlier, Times
<1>3. Predicates(n) \subseteq Levels
  BY DEF Predicates
<1> QED BY <1>2, <1>3 DEF Credential, Claims, Honest

LEMMA Derived ==
  ASSUME CallsInv, StoreInv, NEW cred \in credentials, NEW row \in requests, NEW policy \in Policies,
         Fields(row.request.policy) = Fields(policy),
         TermsOf[policy].threshold \in cred.predicates,
         NEW p, p = [authorization |-> cred.authorization, claims |-> cred.claims,
                     request |-> row.request, counted |-> cred.counted]
  PROVE  p \in Presentation /\ Backed(p, credentials)
<1>1. cred \in Credential /\ cred.predicates = Predicates(cred.counted)
  BY DEF CallsInv, Honest
<1>2. row.request \in Request
  BY DEF StoreInv, RequestsOK, Row
<1>3. TermsOf[row.request.policy].threshold = TermsOf[policy].threshold
  BY DEF Fields
<1>4. cred.counted >= TermsOf[policy].threshold
  BY <1>1 DEF Predicates
<1> QED BY <1>1, <1>2, <1>3, <1>4 DEF Presentation, Credential, Backed

LEMMA ShownArePresentations ==
  ASSUME CallsInv, StoreInv
  PROVE  Shown \subseteq Presentation
<1>1. \A row \in requests : row.request \in Request
  BY DEF StoreInv, RequestsOK, Row
<1>2. ASSUME NEW p \in Presentation, NEW row \in requests
      PROVE  [p EXCEPT !.request = row.request] \in Presentation
  BY <1>1 DEF Presentation
<1> QED BY <1>2 DEF CallsInv, Shown

-----------------------------------------------------------------------------

(* Each step keeps the calls' records as the invariant says.               *)
LEMMA StepOfCalls ==
  ASSUME CallsInv, StoreInv, [DisclosureNext]_allVars
  PROVE  CallsInv'
<1>1. ASSUME UNCHANGED serviceVars
      PROVE  CallsInv'
  BY <1>1 DEF CallsInv, serviceVars
<1>2. ASSUME SessionsOK(session', credentials', presentations'),
             UNCHANGED <<evidence, credentials, presentations>>
      PROVE  CallsInv'
  BY <1>2 DEF CallsInv
<1>3. ASSUME NEW t \in Times, NEW c \in Processes, NEW auth \in Authorizations, NEW policy \in Policies,
             BeginIssue(c, auth, policy, t)
      PROVE  CallsInv'
  <2> DEFINE draft == [authorization |-> auth, predicates |-> {}, counted |-> 0,
                claims |-> [subject |-> TermsOf[policy].subject, network |-> auth.network,
                            digest |-> TermsOf[policy].digest, issued_at |-> 0, expires_at |-> 0]]
  <2>1. draft \in Credential
    BY Drafted
  <2>2. Enter(c, "count", policy, draft) /\ UNCHANGED <<evidence, credentials, presentations>>
    BY <1>3 DEF BeginIssue
  <2> HIDE DEF draft
  <2>3. SessionsOK(session', credentials', presentations')
    BY <2>1, <2>2, SessionEnters
  <2> QED BY <1>2, <2>2, <2>3
<1>4. ASSUME NEW t \in Times, NEW c \in Processes, CountEvidence(c, t)
      PROVE  CallsInv'
  <2> DEFINE draft == session[c].artifact
             n == evidence[draft.claims.subject]
             ends == Earlier(t + CredentialLifetime, draft.authorization.expires_at)
             cred == [draft EXCEPT !.predicates = Predicates(n), !.counted = n,
                                   !.claims.issued_at = t, !.claims.expires_at = ends]
  <2>1. /\ session[c].at = "count"
        /\ Enter(c, "sign", session[c].policy, cred)
        /\ UNCHANGED <<evidence, credentials, presentations>>
    BY <1>4 DEF CountEvidence
  <2>2. draft \in Credential /\ session[c].policy \in Policies
    BY <2>1 DEF CallsInv, SessionsOK, SessionOK
  <2>3. n \in 0..MaxEvidence
    BY <2>2 DEF CallsInv, Credential, Claims
  <2>4. cred \in Credential /\ Honest(cred)
    <3> HIDE DEF n, draft
    <3> QED BY <2>2, <2>3, Counted
  <2> HIDE DEF cred
  <2>5. SessionsOK(session', credentials', presentations')
    BY <2>1, <2>2, <2>4, SessionEnters
  <2> QED BY <1>2, <2>1, <2>5
<1>5. ASSUME NEW c \in Processes, Sign(c)
      PROVE  CallsInv'
  <2> DEFINE cred == session[c].artifact
  <2>1. cred \in Credential /\ Honest(cred)
    BY <1>5 DEF Sign, CallsInv, SessionsOK, SessionOK
  <2>2. /\ credentials' = credentials \cup {cred} /\ Leave(c)
        /\ UNCHANGED <<evidence, presentations>>
    BY <1>5 DEF Sign
  <2>3. SessionsOK(session', credentials', presentations')
    BY <2>2, SessionLeaves
  <2> HIDE DEF cred
  <2> QED BY <2>1, <2>2, <2>3 DEF CallsInv, Backed
<1>6. ASSUME NEW t \in Times, NEW c \in Processes, NEW cred \in credentials, NEW row \in requests,
             NEW policy \in Policies, NEW matched \in Times,
             BeginPresent(c, cred, row.request, policy, matched, t)
      PROVE  CallsInv'
  <2> DEFINE p == [authorization |-> cred.authorization, claims |-> cred.claims,
                   request |-> row.request, counted |-> cred.counted]
  <2>1. p \in Presentation /\ Backed(p, credentials)
    BY <1>6, Derived DEF BeginPresent, Match, PolicyMatches
  <2>2. Enter(c, "derive", policy, p) /\ UNCHANGED <<evidence, credentials, presentations>>
    BY <1>6 DEF BeginPresent
  <2> HIDE DEF p
  <2>3. SessionsOK(session', credentials', presentations')
    BY <2>1, <2>2, SessionEnters
  <2> QED BY <1>2, <2>2, <2>3
<1>7. ASSUME NEW c \in Processes, Derive(c)
      PROVE  CallsInv'
  <2> DEFINE p == session[c].artifact
  <2>1. p \in Presentation /\ Backed(p, credentials)
    BY <1>7 DEF Derive, CallsInv, SessionsOK, SessionOK
  <2>2. /\ presentations' = presentations \cup {p} /\ Leave(c)
        /\ UNCHANGED <<evidence, credentials>>
    BY <1>7 DEF Derive
  <2>3. SessionsOK(session', credentials', presentations')
    BY <2>2, SessionLeaves
  <2> HIDE DEF p
  <2> QED BY <2>1, <2>2, <2>3 DEF CallsInv
<1>8. ASSUME NEW t \in Times, NEW c \in Processes, NEW value \in Shown, NEW policy \in Policies,
             BeginVerify(c, value, policy, t)
      PROVE  CallsInv'
  <2>1. Enter(c, "prove", policy, value) /\ UNCHANGED <<evidence, credentials, presentations>>
    BY <1>8 DEF BeginVerify
  <2>2. SessionsOK(session', credentials', presentations')
    BY <2>1, ShownArePresentations, SessionEnters
  <2> QED BY <1>2, <2>1, <2>2
<1>9. ASSUME NEW c \in Processes, ProofAccepted(c)
      PROVE  CallsInv'
  <2>1. /\ session[c].at = "prove" /\ session[c].artifact \in presentations
        /\ session' = [session EXCEPT ![c].at = "consume"]
        /\ UNCHANGED <<evidence, credentials, presentations>>
    BY <1>9 DEF ProofAccepted
  <2> DEFINE s == [session[c] EXCEPT !.at = "consume"]
  <2>2. /\ s \in Session /\ s.at = "consume"
        /\ s.artifact = session[c].artifact /\ s.policy = session[c].policy
    BY DEF CallsInv, SessionsOK, Session
  <2>3. session' = [session EXCEPT ![c] = s]
    BY <2>1
  <2> HIDE DEF s
  <2>4. SessionOK(s, credentials, presentations)
    BY <2>1, <2>2 DEF CallsInv, SessionsOK, SessionOK
  <2>5. SessionsOK(session', credentials', presentations')
    <3>1. SessionsOK(session, credentials, presentations)
      BY DEF CallsInv
    <3>2. SessionsOK([session EXCEPT ![c] = s], credentials, presentations)
      BY <2>2, <2>4, <3>1, SessionMoves
    <3>3. credentials' = credentials /\ presentations' = presentations
      BY <2>1
    <3> QED BY <2>3, <3>2, <3>3
  <2> QED BY <1>2, <2>1, <2>5
<1>10. ASSUME NEW c \in Processes, Leave(c), UNCHANGED <<evidence, credentials, presentations>>
       PROVE  CallsInv'
  BY <1>2, <1>10, SessionLeaves
<1>11. ASSUME NEW s \in Subjects, NEW n \in 0..MaxEvidence, EvidenceChanges(s, n)
       PROVE  CallsInv'
  BY <1>11 DEF EvidenceChanges, CallsInv
<1>12. ASSUME NEW t \in Times, Administer(t)
       PROVE  CallsInv'
  BY <1>1, <1>12 DEF Administer, CreateRequest, Refresh
<1>13. ASSUME NEW t \in Times, NEW c \in Processes, Call(c, t)
       PROVE  CallsInv'
  <2>1. CASE Consume(c, t)
    BY <1>10, <2>1 DEF Consume
  <2> QED BY <1>3, <1>4, <1>6, <1>8, <1>13, <2>1 DEF Call
<1>14. ASSUME NEW c \in Processes, CompanionAnswers(c) \/ Abandon(c)
       PROVE  CallsInv'
  <2>1. CASE Abandon(c)
    BY <1>10, <2>1 DEF Abandon
  <2> QED BY <1>5, <1>7, <1>9, <1>14, <2>1 DEF CompanionAnswers
<1>15. CASE UNCHANGED allVars
  BY <1>1, <1>15 DEF allVars, serviceVars
<1> QED BY <1>11, <1>12, <1>13, <1>14, <1>15 DEF DisclosureNext

(* Every step is a step of the store, or leaves it alone.                  *)
LEMMA StepOfStore ==
  ASSUME CallsInv, StoreInv, [DisclosureNext]_allVars
  PROVE  [StoreNext]_disclosureVars
<1>1. ASSUME NEW t \in Times, NEW policy \in Policies, NEW challenge \in Challenges,
             NEW built \in Times, CreateRequest(policy, challenge, built, t)
      PROVE  StoreNext
  <2> DEFINE request == [challenge |-> challenge, policy |-> policy, not_before |-> built,
                         expires_at |-> built + RequestLifetime]
  <2>1. built + RequestLifetime \in Times
    BY <1>1, DisclosureConstants, DisclosureServiceConstants DEF CreateRequest, Times
  <2>2. request \in Request
    BY <2>1 DEF Request
  <2>3. Register(request, t)
    BY <1>1 DEF CreateRequest
  <2> QED BY <2>2, <2>3 DEF StoreNext, StoreStep
<1>2. ASSUME NEW t \in Times, NEW auth \in Authorizations, NEW revs \in SUBSET Revocations,
             Refresh(auth, revs, t)
      PROVE  StoreNext
  BY <1>2 DEF Refresh, StoreNext, StoreStep
<1>3. ASSUME NEW t \in Times, NEW auth \in Authorizations, NEW freshness \in Nat,
             CheckOwn(auth, freshness, t)
      PROVE  [StoreNext]_disclosureVars
  <2>1. CASE CheckIssuer(auth, freshness, t)
    BY <2>1 DEF StoreNext, StoreStep
  <2> QED BY <1>3, <2>1 DEF CheckOwn
<1>4. ASSUME NEW t \in Times, NEW c \in Processes, Call(c, t)
      PROVE  [StoreNext]_disclosureVars
  <2>1. ASSUME NEW auth \in Authorizations, NEW policy \in Policies, BeginIssue(c, auth, policy, t)
        PROVE  [StoreNext]_disclosureVars
    BY <1>3, <2>1, DisclosureServiceConstants DEF BeginIssue
  <2>2. ASSUME NEW cred \in credentials, NEW row \in requests, NEW policy \in Policies,
               NEW matched \in Times, BeginPresent(c, cred, row.request, policy, matched, t)
        PROVE  [StoreNext]_disclosureVars
    <3>1. cred.authorization \in Authorizations /\ TermsOf[policy].freshness \in Nat
      BY DisclosureServiceConstants DEF CallsInv, Credential, Terms
    <3> QED BY <1>3, <2>2, <3>1 DEF BeginPresent
  <2>3. ASSUME NEW value \in Shown, NEW policy \in Policies, BeginVerify(c, value, policy, t)
        PROVE  StoreNext
    BY <2>3 DEF BeginVerify, StoreNext, StoreStep
  <2>4. CASE Consume(c, t)
    <3> DEFINE challenge == session[c].artifact.request.challenge
    <3>1. Use(c, challenge, t)
      BY <2>4 DEF Consume
    <3>2. challenge \in Challenges
      BY <3>1 DEF Use, StoreInv, RequestsOK, Row, Request
    <3> QED BY <3>1, <3>2 DEF StoreNext, StoreStep
  <2>5. CASE CountEvidence(c, t)
    BY <2>5 DEF CountEvidence
  <2> QED BY <1>4, <2>1, <2>2, <2>3, <2>4, <2>5 DEF Call
<1>5. ASSUME NEW c \in Processes, CompanionAnswers(c) \/ Abandon(c)
      PROVE  [StoreNext]_disclosureVars
  BY <1>5 DEF CompanionAnswers, Sign, Derive, ProofAccepted, Abandon, StoreNext
<1>6. ASSUME NEW t \in Times, Administer(t)
      PROVE  StoreNext
  BY <1>1, <1>2, <1>6 DEF Administer
<1>7. CASE UNCHANGED allVars
  BY <1>7 DEF allVars, disclosureVars
<1> QED BY <1>4, <1>5, <1>6, <1>7 DEF DisclosureNext, EvidenceChanges

-----------------------------------------------------------------------------

(* What is known of the grant that a verification adds.                    *)
LEMMA Granting ==
  ASSUME CallsInv, StoreInv, NEW t \in Times, NEW c \in Processes, Consume(c, t),
         NEW g, g = [policy |-> session[c].policy, presentation |-> session[c].artifact, at |-> t]
  PROVE  /\ g \in Grant /\ InTime(g) /\ Deserved(g, credentials)
         /\ g.presentation.request.challenge \notin Answered
         /\ Decided(g, floor', Answered')
         /\ floor <= t
<1> DEFINE p == session[c].artifact
           policy == session[c].policy
<1>1. session[c].at = "consume"
  BY DEF Consume
<1>2. p \in presentations /\ policy \in Policies
  BY <1>1 DEF CallsInv, SessionsOK, SessionOK
<1>3. p \in Presentation /\ Backed(p, credentials)
  BY <1>2 DEF CallsInv
<1>4. /\ Match(policy, p.request, p.authorization, p.claims, t)
      /\ IssuerGood(p.authorization, TermsOf[policy].freshness, t)
      /\ Use(c, p.request.challenge, t)
  BY DEF Consume
<1> HIDE DEF p, policy
<1>5. g.policy = policy /\ g.presentation = p /\ g.at = t
  BY DEF p, policy
<1>6. g \in Grant
  BY <1>2, <1>3 DEF Grant, p, policy
<1>7. InTime(g)
  BY <1>4, <1>5 DEF Match, IssuerGood, InTime
<1>8. Deserved(g, credentials)
  <2>1. TermsOf[p.request.policy].threshold = TermsOf[policy].threshold
    BY <1>4 DEF Match, PolicyMatches, Fields
  <2>2. p.authorization.evaluator = TermsOf[policy].evaluator
    BY <1>4 DEF Match, PolicyMatches, KeyOf
  <2>3. <<p.claims.subject, p.claims.network, p.claims.digest>>
          = <<TermsOf[policy].subject, TermsOf[policy].network, TermsOf[policy].digest>>
    BY <1>4 DEF Match, PolicyMatches
  <2> QED BY <1>3, <1>5, <2>1, <2>2, <2>3 DEF Deserved, Backed
<1>9. PICK row \in requests :
        /\ row.request.challenge = p.request.challenge /\ ~row.used
        /\ requests' = (requests \ {row}) \cup {[row EXCEPT !.used = TRUE]}
  BY <1>4 DEF Use
<1>10. p.request.challenge \notin Answered
  BY <1>9 DEF Answered, StoreInv, RequestsOK
<1>11. p.request.challenge \in Answered'
  <2> DEFINE used == [row EXCEPT !.used = TRUE]
  <2>1. used.request = row.request /\ used.used = TRUE
    BY DEF StoreInv, RequestsOK, Row
  <2>2. used \in requests'
    BY <1>9
  <2> HIDE DEF used
  <2> QED BY <1>9, <2>1, <2>2 DEF Answered
<1>12. floor <= t /\ floor' = t /\ t <= t
  BY <1>4, DisclosureConstants DEF Use, StoreInv, TransactionOK, Times
<1> QED BY <1>5, <1>6, <1>7, <1>8, <1>10, <1>11, <1>12 DEF Decided

(* Credentials are never withdrawn, and only the end of a verification     *)
(* adds a grant.                                                           *)
LEMMA WhatCallsChange ==
  ASSUME [DisclosureNext]_allVars
  PROVE  /\ credentials \subseteq credentials'
         /\ \/ grants' = grants
            \/ \E t \in Times, c \in Processes :
                 /\ Consume(c, t)
                 /\ grants' = Append(grants, [policy |-> session[c].policy,
                                             presentation |-> session[c].artifact, at |-> t])
<1>1. ASSUME NEW t \in Times, Administer(t)
      PROVE  credentials' = credentials /\ grants' = grants
  BY <1>1 DEF Administer, CreateRequest, Refresh, serviceVars
<1>2. ASSUME NEW t \in Times, NEW c \in Processes, Call(c, t)
      PROVE  /\ credentials' = credentials
             /\ \/ grants' = grants
                \/ /\ Consume(c, t)
                   /\ grants' = Append(grants, [policy |-> session[c].policy,
                                               presentation |-> session[c].artifact, at |-> t])
  <2>1. CASE \E auth \in Authorizations, policy \in Policies : BeginIssue(c, auth, policy, t)
    BY <2>1 DEF BeginIssue
  <2>2. CASE CountEvidence(c, t)
    BY <2>2 DEF CountEvidence
  <2>3. CASE \E cred \in credentials, row \in requests, policy \in Policies, matched \in Times :
               BeginPresent(c, cred, row.request, policy, matched, t)
    BY <2>3 DEF BeginPresent
  <2>4. CASE \E value \in Shown, policy \in Policies : BeginVerify(c, value, policy, t)
    BY <2>4 DEF BeginVerify
  <2>5. CASE Consume(c, t)
    BY <2>5 DEF Consume
  <2> QED BY <1>2, <2>1, <2>2, <2>3, <2>4, <2>5 DEF Call
<1>3. ASSUME NEW c \in Processes, CompanionAnswers(c) \/ Abandon(c)
      PROVE  credentials \subseteq credentials' /\ grants' = grants
  BY <1>3 DEF CompanionAnswers, Sign, Derive, ProofAccepted, Abandon
<1>4. ASSUME NEW s \in Subjects, NEW n \in 0..MaxEvidence, EvidenceChanges(s, n)
      PROVE  credentials' = credentials /\ grants' = grants
  BY <1>4 DEF EvidenceChanges
<1>5. CASE UNCHANGED allVars
  BY <1>5 DEF allVars
<1>6. CASE DisclosureNext
  <2>1. CASE \E t \in Times : Administer(t)
    BY <2>1, <1>1
  <2>2. CASE \E t \in Times, c \in Processes : Call(c, t)
    BY <2>2, <1>2
  <2>3. CASE \E c \in Processes : CompanionAnswers(c) \/ Abandon(c)
    BY <2>3, <1>3
  <2>4. CASE \E s \in Subjects, n \in 0..MaxEvidence : EvidenceChanges(s, n)
    BY <2>4, <1>4
  <2> QED BY <1>6, <2>1, <2>2, <2>3, <2>4 DEF DisclosureNext
<1> QED BY <1>5, <1>6

(* What was answered stays so, and what was issued too.                    *)
LEMMA AnswersGrow ==
  ASSUME StoreInv, CallsInv, [DisclosureNext]_allVars
  PROVE  /\ Answered \subseteq Answered' /\ floor <= floor'
         /\ floor \in Int /\ floor' \in Int
         /\ credentials \subseteq credentials'
<1>1. StoreInv' /\ Sticks
  BY StepOfStore, StepSticks
<1>2. Answered \subseteq Answered'
  BY <1>1 DEF Sticks, Answered
<1>3. credentials \subseteq credentials'
  BY WhatCallsChange
<1> QED BY <1>1, <1>2, <1>3, DisclosureConstants DEF Sticks, StoreInv, TransactionOK, Times

(* The grants keep what the invariant says of them.                        *)
LEMMA StepOfGrants ==
  ASSUME GrantsInv, CallsInv, StoreInv, [DisclosureNext]_allVars
  PROVE  GrantsInv'
<1> DEFINE Good(g) == Decided(g, floor', Answered') /\ InTime(g) /\ Deserved(g, credentials')
<1>1. \A i \in DOMAIN grants : grants[i] \in Grant /\ grants[i].at \in Int
  <2>1. \A i \in DOMAIN grants : grants[i] \in Grant
    BY DEF GrantsInv
  <2>2. \A g \in Grant : g.at \in Int
    BY DisclosureConstants DEF Grant, Times
  <2> QED BY <2>1, <2>2
<1>2. \A i \in DOMAIN grants : Good(grants[i])
  BY <1>1, AnswersGrow DEF GrantsInv, Decided, Deserved
<1>3. CASE grants' = grants
  <2> HIDE DEF Good
  <2>1. \A i \in DOMAIN grants' : Good(grants'[i])
    BY <1>2, <1>3
  <2>2. OneGrantPerRequest' /\ GrantsChronological'
    BY <1>3 DEF GrantsInv, OneGrantPerRequest, GrantsChronological
  <2>3. grants' \in Seq(Grant)
    BY <1>3 DEF GrantsInv
  <2> QED BY <2>1, <2>2, <2>3 DEF GrantsInv, Good
<1>4. ASSUME NEW t \in Times, NEW c \in Processes, Consume(c, t),
             NEW g, g = [policy |-> session[c].policy, presentation |-> session[c].artifact, at |-> t],
             grants' = Append(grants, g)
      PROVE  GrantsInv'
  <2>1. /\ g \in Grant /\ InTime(g) /\ Deserved(g, credentials)
        /\ g.presentation.request.challenge \notin Answered
        /\ Decided(g, floor', Answered')
        /\ floor <= t
    BY <1>4, Granting
  <2>2. Good(g)
    BY <2>1, AnswersGrow DEF Deserved
  <2> DEFINE n == Len(grants)
  <2>3. grants \in Seq(Grant) /\ n \in Nat /\ DOMAIN grants = 1..n
    BY DEF GrantsInv
  <2>4. /\ grants' \in Seq(Grant) /\ DOMAIN grants' = 1..(n + 1)
        /\ \A i \in 1..n : grants'[i] = grants[i]
        /\ grants'[n + 1] = g
    BY <1>4, <2>1, <2>3
  <2> HIDE DEF n, Good
  <2>5. \A i \in DOMAIN grants' : i \in 1..n \/ i = n + 1
    BY <2>3, <2>4
  <2>6. \A i \in DOMAIN grants' : Good(grants'[i])
    BY <1>2, <2>2, <2>3, <2>4, <2>5
  <2>7. OneGrantPerRequest'
    <3>1. \A i \in 1..n : grants[i].presentation.request.challenge # g.presentation.request.challenge
      BY <2>1, <2>3 DEF GrantsInv, Decided
    <3>2. \A i, j \in 1..n :
             grants[i].presentation.request.challenge = grants[j].presentation.request.challenge => i = j
      BY <2>3 DEF GrantsInv, OneGrantPerRequest
    <3> QED BY <2>4, <2>5, <3>1, <3>2 DEF OneGrantPerRequest
  <2>8. GrantsChronological'
    <3>1. \A i \in 1..n : grants[i].at <= t
      <4>1. \A i \in 1..n : grants[i].at <= floor /\ grants[i].at \in Int
        BY <1>1, <2>3 DEF GrantsInv, Decided
      <4> QED BY <2>1, <4>1, AnswersGrow, DisclosureConstants DEF Times
    <3>2. g.at = t /\ t <= t /\ t \in Int
      BY <1>4, DisclosureConstants DEF Times
    <3>3. \A i, j \in 1..n : i <= j => grants[i].at <= grants[j].at
      BY <2>3 DEF GrantsInv, GrantsChronological
    <3>4. \A i \in 1..n : ~(n + 1 <= i)
      BY <2>3
    <3> QED BY <2>4, <2>5, <3>1, <3>2, <3>3, <3>4 DEF GrantsChronological
  <2> QED BY <2>4, <2>6, <2>7, <2>8 DEF GrantsInv, Good
<1>5. CASE \E t \in Times, c \in Processes :
              /\ Consume(c, t)
              /\ grants' = Append(grants, [policy |-> session[c].policy,
                                          presentation |-> session[c].artifact, at |-> t])
  <2>1. PICK t \in Times, c \in Processes :
              /\ Consume(c, t)
              /\ grants' = Append(grants, [policy |-> session[c].policy,
                                          presentation |-> session[c].artifact, at |-> t])
    BY <1>5
  <2> QED BY <2>1, <1>4
<1> QED BY <1>3, <1>5, WhatCallsChange

-----------------------------------------------------------------------------

ServiceInv == StoreInv /\ CallsInv /\ GrantsInv

LEMMA ServiceInitEstablishes == DisclosureInit => ServiceInv
<1> SUFFICES ASSUME DisclosureInit PROVE ServiceInv
  OBVIOUS
<1>1. StoreInv
  BY InitEstablishes DEF DisclosureInit
<1>2. CallsInv
  BY IdleIsASession DEF DisclosureInit, CallsInv, SessionsOK
<1>3. GrantsInv
  BY DEF DisclosureInit, GrantsInv, OneGrantPerRequest, GrantsChronological
<1> QED BY <1>1, <1>2, <1>3 DEF ServiceInv

LEMMA ServiceStep ==
  ASSUME ServiceInv, [DisclosureNext]_allVars
  PROVE  ServiceInv'
  BY StepOfStore, StepSticks, StepOfCalls, StepOfGrants DEF ServiceInv

(* Sessions, tables and grants satisfy the inductive invariant always.     *)
THEOREM ServiceInvariant == DisclosureSpec => []ServiceInv
<1>1. ServiceInv /\ [DisclosureNext]_allVars => ServiceInv'
  BY ServiceStep
<1> QED BY <1>1, ServiceInitEstablishes, PTL DEF DisclosureSpec

(* Every variable has its type.                                            *)
THEOREM DisclosureTypeCorrect == DisclosureSpec => []DisclosureTypeOK
<1>1. StoreInv => StoreTypeOK
  BY DEF StoreInv, StoreTypeOK, RequestsOK, IssuersOK, RevocationsOK, TransactionOK
<1>2. ServiceInv => DisclosureTypeOK
  BY <1>1 DEF ServiceInv, CallsInv, SessionsOK, GrantsInv, DisclosureTypeOK
<1> QED BY <1>2, ServiceInvariant, PTL

(* The service uses its database by the operations of the store alone.     *)
THEOREM ServiceImplementsStore == DisclosureSpec => StoreSpec
<1>1. DisclosureInit => StoreInit
  BY DEF DisclosureInit
<1>2. ServiceInv /\ [DisclosureNext]_allVars => [StoreNext]_disclosureVars
  BY StepOfStore DEF ServiceInv
<1> QED BY <1>1, <1>2, ServiceInvariant, PTL DEF DisclosureSpec, StoreSpec

(* Under the service too a challenge is opened once and spent once.        *)
THEOREM ServiceImplementsGate == DisclosureSpec => GateSpec
  BY ServiceImplementsStore, StoreImplementsGate, PTL

(* The floor, the revocations and the used requests are kept by every step *)
(* of every call, crashes and retries included.                            *)
THEOREM ServiceDecisionsStick == DisclosureSpec => DecisionsStick
  BY ServiceImplementsStore, StoreDecisionsStick, PTL

(* The database is never too large to be opened again.                     *)
THEOREM ServiceNeverLockedOut == DisclosureSpec => []NeverLockedOut
  BY ServiceImplementsStore, StoreNeverLockedOut, PTL

(* No status check lies in the future of a later operation.                *)
THEOREM ServiceChecksNotAhead == DisclosureSpec => []StatusNotAhead
  BY ServiceImplementsStore, ChecksNotAhead, PTL

(* A request is answered "valid" at most once.                             *)
THEOREM GrantedOnce == DisclosureSpec => []OneGrantPerRequest
<1>1. ServiceInv => OneGrantPerRequest
  BY DEF ServiceInv, GrantsInv
<1> QED BY <1>1, ServiceInvariant, PTL

(* A grant is decided inside all the lifetimes it rests on.                *)
THEOREM GrantedInTime == DisclosureSpec => []GrantsWithinDeadlines
<1>1. ServiceInv => GrantsWithinDeadlines
  BY DEF ServiceInv, GrantsInv, GrantsWithinDeadlines, InTime
<1> QED BY <1>1, ServiceInvariant, PTL

(* Grants are decided in the order of their times.                         *)
THEOREM GrantedInOrder == DisclosureSpec => []GrantsChronological
<1>1. ServiceInv => GrantsChronological
  BY DEF ServiceInv, GrantsInv
<1> QED BY <1>1, ServiceInvariant, PTL

(* What was granted had been counted, for that subject and policy.         *)
THEOREM GrantedIsBacked == DisclosureSpec => []GrantsBacked
<1>1. ServiceInv => GrantsBacked
  BY DEF ServiceInv, GrantsInv, GrantsBacked, Deserved
<1> QED BY <1>1, ServiceInvariant, PTL

(* Nothing is granted on a key whose revocation is stored.                 *)
THEOREM RevokedKeysGrantNothing == DisclosureSpec => NoGrantForRevokedKey
<1> DEFINE Unrevoked ==
      grants' # grants =>
        \A rev \in revocations :
           KeyOf(rev) # KeyOf(grants'[Len(grants')].presentation.authorization)
<1>1. ASSUME ServiceInv, [DisclosureNext]_allVars
      PROVE  [Unrevoked]_allVars
  <2>1. ASSUME NEW t \in Times, NEW c \in Processes, Consume(c, t),
               NEW g, g = [policy |-> session[c].policy, presentation |-> session[c].artifact, at |-> t],
               grants' = Append(grants, g)
        PROVE  Unrevoked
    <3>1. g \in Grant /\ grants \in Seq(Grant)
      BY <1>1, <2>1, Granting DEF ServiceInv, GrantsInv
    <3>2. grants'[Len(grants')] = g
      BY <2>1, <3>1
    <3>3. ~RevokedHere(g.presentation.authorization)
      BY <2>1 DEF Consume, IssuerGood
    <3> QED BY <3>2, <3>3 DEF RevokedHere
  <2> QED BY <1>1, <2>1, WhatCallsChange
<1> QED BY <1>1, ServiceInvariant, PTL DEF DisclosureSpec, NoGrantForRevokedKey
=============================================================================
