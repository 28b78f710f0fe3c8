---------------------------- MODULE DisclosureStore ----------------------------
(***************************************************************************)
(* DisclosureStore: the private database of a party to selective           *)
(* disclosure.  It keeps the requests it issued and whether they are used, *)
(* the issuer authorizations it checked and when, the revocations it was   *)
(* given, and a floor below which its clock may not go.                    *)
(*                                                                         *)
(* register, refresh_issuer and check_issuer are single transactions.  The *)
(* verification of a presentation holds its transaction, and with it the   *)
(* write lock, while it calls another process: Lock, Use and Unlock.  An   *)
(* operation that raises rolls back all it did, the new floor included,    *)
(* and so is no step of this module.                                       *)
(*                                                                         *)
(* The wall clock may move anywhere between two readings: every operation  *)
(* is given the time it reads.                                             *)
(***************************************************************************)
EXTENDS Integers, FiniteSets

CONSTANTS Processes, Nobody,
          Challenges, Policies, Evaluators, BbsKeys, Networks,
          Authorizations,   \* the authorizations that evaluators have signed
          Revocations,      \* and the revocations
          Capacity, MaxTime

Times == 0..MaxTime

Authorization == [evaluator : Evaluators, bbs_key_id : BbsKeys, network : Networks,
                  not_before : Times, expires_at : Times]

Revocation == [evaluator : Evaluators, bbs_key_id : BbsKeys, network : Networks,
               authorization : Authorizations, issued_at : Times]

Request == [challenge : Challenges, policy : Policies, not_before : Times, expires_at : Times]

ASSUME DisclosureConstants ==
  /\ Nobody \notin Processes
  /\ Capacity \in Nat \ {0} /\ MaxTime \in Nat
  /\ Authorizations \subseteq Authorization
  /\ Revocations \subseteq Revocation
  /\ IsFiniteSet(Challenges) /\ IsFiniteSet(Authorizations) /\ IsFiniteSet(Revocations)

VARIABLES floor,        \* the latest time a committed operation has read
          requests,     \* rows of requests, with their used flag
          issuers,      \* rows of authorizations, with the time of the last check
          revocations,
          writer,       \* the process whose transaction is open across steps
          reading       \* the time that transaction has read, not committed yet

disclosureVars == <<floor, requests, issuers, revocations, writer, reading>>

-----------------------------------------------------------------------------

Size == Cardinality(requests) + Cardinality(issuers) + Cardinality(revocations)

(* BEGIN IMMEDIATE, _validate and _clock: the lock is free, the tables are *)
(* not larger than the capacity, and the clock has not gone back.          *)
ReadyAnyTime(t) == writer = Nobody /\ Size <= Capacity              \* mutant
Ready(t) == writer = Nobody /\ Size <= Capacity /\ floor <= t

Active(start, end, t) == start <= t /\ t < end

KeyOf(s) == <<s.evaluator, s.bbs_key_id, s.network>>

RegisterReplacing(request, t) ==                                    \* mutant
  /\ Ready(t)
  /\ t < request.expires_at
  /\ Size < Capacity
  /\ requests' = {row \in requests : row.request.challenge # request.challenge}
                   \cup {[request |-> request, used |-> FALSE]}
  /\ floor' = t
  /\ UNCHANGED <<issuers, revocations, writer, reading>>

(* register *)
Register(request, t) ==
  /\ Ready(t)
  /\ t < request.expires_at
  /\ Size < Capacity
  /\ \A row \in requests : row.request.challenge # request.challenge
  /\ requests' = requests \cup {[request |-> request, used |-> FALSE]}
  /\ floor' = t
  /\ UNCHANGED <<issuers, revocations, writer, reading>>

(* refresh_issuer: every revocation must be the evaluator's, of this       *)
(* authorization and not from the future; each new row needs room of its   *)
(* own.  The digests that name the artifacts do not collide, so a row that *)
(* is found is the artifact itself.                                        *)
Matches(rev, auth, t) ==
  /\ KeyOf(rev) = KeyOf(auth)
  /\ rev.authorization = auth
  /\ rev.issued_at <= t

RowsOf(auth) == {row \in issuers : row.authorization = auth}

RoomOnce(auth, revs) == Size < Capacity                             \* mutant
Room(auth, revs) ==
  LET added == Cardinality(revs \ revocations) + (IF RowsOf(auth) = {} THEN 1 ELSE 0)
  IN  Size + added <= Capacity

RefreshReplacing(auth, revs, t) ==                                  \* mutant
  /\ Ready(t)
  /\ Active(auth.not_before, auth.expires_at, t)
  /\ \A rev \in revs : Matches(rev, auth, t)
  /\ Room(auth, revs)
  /\ revocations' = {rev \in revocations : rev.authorization # auth} \cup revs
  /\ issuers' = (issuers \ RowsOf(auth)) \cup {[authorization |-> auth, checked_at |-> t]}
  /\ floor' = t
  /\ UNCHANGED <<requests, writer, reading>>

RefreshIssuer(auth, revs, t) ==
  /\ Ready(t)
  /\ Active(auth.not_before, auth.expires_at, t)
  /\ \A rev \in revs : Matches(rev, auth, t)
  /\ Room(auth, revs)
  /\ revocations' = revocations \cup revs
  /\ issuers' = (issuers \ RowsOf(auth)) \cup {[authorization |-> auth, checked_at |-> t]}
  /\ floor' = t
  /\ UNCHANGED <<requests, writer, reading>>

(* _issuer: the authorization is active, was checked here not longer ago   *)
(* than the verifier allows, and no revocation stored here is of its key,  *)
(* whatever authorization that revocation was made for.                    *)
RevokedHereByAuthorization(auth) ==                                 \* mutant
  \E rev \in revocations : rev.authorization = auth
RevokedHere(auth) == \E rev \in revocations : KeyOf(rev) = KeyOf(auth)

IssuerGood(auth, freshness, t) ==
  /\ Active(auth.not_before, auth.expires_at, t)
  /\ \E row \in RowsOf(auth) : row.checked_at <= t /\ t - row.checked_at <= freshness
  /\ ~RevokedHere(auth)

CheckIssuer(auth, freshness, t) ==
  /\ Ready(t)
  /\ IssuerGood(auth, freshness, t)
  /\ floor' = t
  /\ UNCHANGED <<requests, issuers, revocations, writer, reading>>

(***************************************************************************)
(* A transaction that stays open across steps                              *)
(***************************************************************************)

Lock(p, t) ==
  /\ Ready(t)
  /\ writer' = p /\ reading' = t
  /\ UNCHANGED <<floor, requests, issuers, revocations>>

UseAtFirstReading(p, challenge, t) ==                               \* mutant
  /\ writer = p
  /\ reading <= t
  /\ \E row \in requests :
       /\ row.request.challenge = challenge /\ ~row.used
       /\ requests' = (requests \ {row}) \cup {[row EXCEPT !.used = TRUE]}
  /\ floor' = reading
  /\ writer' = Nobody /\ reading' = 0
  /\ UNCHANGED <<issuers, revocations>>

(* UPDATE requests SET used=1 WHERE challenge=? AND used=0, after a second *)
(* reading of the clock, and COMMIT.                                       *)
Use(p, challenge, t) ==
  /\ writer = p
  /\ reading <= t
  /\ \E row \in requests :
       /\ row.request.challenge = challenge /\ ~row.used
       /\ requests' = (requests \ {row}) \cup {[row EXCEPT !.used = TRUE]}
  /\ floor' = t
  /\ writer' = Nobody /\ reading' = 0
  /\ UNCHANGED <<issuers, revocations>>

(* ROLLBACK: an exception, or the death of the process. *)
Unlock(p) ==
  /\ writer = p
  /\ writer' = Nobody /\ reading' = 0
  /\ UNCHANGED <<floor, requests, issuers, revocations>>
-----------------------------------------------------------------------------

StoreInit ==
  /\ floor = 0
  /\ requests = {} /\ issuers = {} /\ revocations = {}
  /\ writer = Nobody /\ reading = 0

StoreStep(t) ==
  \/ \E request \in Request : Register(request, t)
  \/ \E auth \in Authorizations, revs \in SUBSET Revocations : RefreshIssuer(auth, revs, t)
  \/ \E auth \in Authorizations, freshness \in Nat : CheckIssuer(auth, freshness, t)
  \/ \E p \in Processes : Lock(p, t)
  \/ \E p \in Processes, challenge \in Challenges : Use(p, challenge, t)

StoreNext ==
  \/ \E t \in Times : StoreStep(t)
  \/ \E p \in Processes : Unlock(p)

StoreSpec == StoreInit /\ [][StoreNext]_disclosureVars

(***************************************************************************)
(* Properties                                                              *)
(***************************************************************************)

Row == [request : Request, used : BOOLEAN]
IssuerRow == [authorization : Authorizations, checked_at : Times]

(* Every variable has its type.                                            *)
StoreTypeOK ==
  /\ floor \in Times
  /\ requests \subseteq Row
  /\ issuers \subseteq IssuerRow
  /\ revocations \subseteq Revocations
  /\ writer \in Processes \cup {Nobody}
  /\ reading \in Times

(* No sequence of registrations and refreshes fills the tables past the    *)
(* capacity.  _validate refuses a database that is larger, and with it     *)
(* every later operation: the store would have locked itself out.          *)
NeverLockedOut == Size <= Capacity

(* The times that were written never contradict each other, whatever the   *)
(* wall clock did: no status check is later than the floor, so a check     *)
(* that was fresh when it was made is never taken for one of the future.   *)
StatusNotAhead == \A row \in issuers : row.checked_at <= floor

(* What was decided is not undone: the floor never goes back, a revocation *)
(* is never forgotten, whatever authorization is refreshed afterwards, and *)
(* a request that was used stays used.                                     *)
DecisionsStick ==
  [][/\ floor <= floor'
     /\ revocations \subseteq revocations'
     /\ {row \in requests : row.used} \subseteq requests']_disclosureVars

(* The table of requests implements the gate of the challenges.            *)
Waiting == {row.request.challenge : row \in {r \in requests : ~r.used}}
Answered == {row.request.challenge : row \in {r \in requests : r.used}}

Gate == INSTANCE RequestGate WITH open <- Waiting, spent <- Answered

GateSpec == Gate!GateSpec
=============================================================================
