------------------------------- MODULE Disclosure -------------------------------
(***************************************************************************)
(* Issuance, presentation and verification of reputation credentials on    *)
(* top of a disclosure store.  A call of a process is several steps: its   *)
(* transactions on the store, and requests to the companion that holds the *)
(* BBS key.  Between two steps other processes run, the clock moves, and   *)
(* the call may end there.  Verification alone keeps its transaction open  *)
(* while it asks the companion.                                            *)
(*                                                                         *)
(* Cryptography is ideal: a presentation convinces the companion exactly   *)
(* when it was derived, for that very request, from a credential that was  *)
(* signed with the threshold's predicate true.                             *)
(***************************************************************************)
EXTENDS DisclosureStore, Sequences

CONSTANTS Subjects, Digests,       \* machines, and digests of reputation policies
          Levels,                  \* LEVELS: the thresholds that have a predicate
          TermsOf,                 \* [Policies -> the fields of a DisclosurePolicy]
          RequestLifetime, CredentialLifetime, IssueFreshness,
          MaxEvidence, MaxCredentials, MaxPresentations,   \* bounds of the instance
          NoPolicy, NoArtifact

Terms == [subject : Subjects, evaluator : Evaluators, bbs_key_id : BbsKeys, network : Networks,
          digest : Digests, threshold : Levels, freshness : Nat]

ASSUME DisclosureServiceConstants ==
  /\ TermsOf \in [Policies -> Terms]
  /\ Levels \subseteq Nat
  /\ RequestLifetime \in Nat \ {0} /\ CredentialLifetime \in Nat \ {0} /\ IssueFreshness \in Nat
  /\ MaxEvidence \in Nat /\ MaxCredentials \in Nat /\ MaxPresentations \in Nat
  /\ NoPolicy \notin Policies

Claims == [subject : Subjects, network : Networks, digest : Digests,
           issued_at : Times, expires_at : Times]

(* "counted" is the number of settlements the predicates were computed     *)
(* from; the artifact does not carry it.                                   *)
Credential == [authorization : Authorizations, claims : Claims, predicates : SUBSET Levels,
               counted : 0..MaxEvidence]
Presentation == [authorization : Authorizations, claims : Claims, request : Request,
                 counted : 0..MaxEvidence]

ASSUME NoArtifactIsNone == NoArtifact \notin Credential \cup Presentation

Session == [at : {"idle", "count", "sign", "derive", "prove", "consume"},
            policy : Policies \cup {NoPolicy},
            artifact : Credential \cup Presentation \cup {NoArtifact}]

VARIABLES session,        \* [Processes -> the call it runs]
          evidence,       \* [Subjects -> verified settlements in the reputation store]
          credentials,    \* credentials that were issued
          presentations,  \* presentations that were derived
          grants          \* history: the verifications that answered "valid"

serviceVars == <<session, evidence, credentials, presentations, grants>>
allVars == <<floor, requests, issuers, revocations, writer, reading,
             session, evidence, credentials, presentations, grants>>

Grant == [policy : Policies, presentation : Presentation, at : Times]

Idle == [at |-> "idle", policy |-> NoPolicy, artifact |-> NoArtifact]
Enter(c, place, policy, artifact) ==
  session' = [session EXCEPT ![c] = [at |-> place, policy |-> policy, artifact |-> artifact]]
Leave(c) == session' = [session EXCEPT ![c] = Idle]

(* request_fields *)
Fields(policy) ==
  LET t == TermsOf[policy]
  IN  <<t.subject, t.evaluator, t.bbs_key_id, t.network, t.digest, t.threshold>>

(* _match: the verifier's own policy against request, claims and clock.    *)
PolicyMatches(policy, request, auth, claims) ==
  LET t == TermsOf[policy]
  IN  /\ Fields(request.policy) = Fields(policy)
      /\ KeyOf(auth) = KeyOf(t)
      /\ <<claims.subject, claims.network, claims.digest>> = <<t.subject, t.network, t.digest>>

Match(policy, request, auth, claims, t) ==
  /\ PolicyMatches(policy, request, auth, claims)
  /\ Active(request.not_before, request.expires_at, t)
  /\ Active(claims.issued_at, claims.expires_at, t)

(***************************************************************************)
(* create_disclosure_request: the clock is read once to build the request  *)
(* and once more to register it; the challenge is fresh.                   *)
(***************************************************************************)
CreateRequest(policy, challenge, built, t) ==
  /\ built + RequestLifetime <= MaxTime
  /\ Register([challenge |-> challenge, policy |-> policy, not_before |-> built,
               expires_at |-> built + RequestLifetime], t)
  /\ UNCHANGED serviceVars

Refresh(auth, revs, t) == RefreshIssuer(auth, revs, t) /\ UNCHANGED serviceVars

(***************************************************************************)
(* issue_reputation_credential                                             *)
(***************************************************************************)

(* Evaluator and holder check the issuer in a store that each gives: this  *)
(* one, or another one, which may have been refreshed with anything.       *)
CheckOwn(auth, freshness, t) == CheckIssuer(auth, freshness, t) \/ UNCHANGED disclosureVars

(* The evaluator's own store must hold a fresh status of its key.          *)
BeginIssue(c, auth, policy, t) ==
  /\ session[c] = Idle
  /\ auth.evaluator # TermsOf[policy].subject
  /\ CheckOwn(auth, IssueFreshness, t)
  /\ Enter(c, "count", policy,
           [authorization |-> auth, predicates |-> {}, counted |-> 0,
            claims |-> [subject |-> TermsOf[policy].subject, network |-> auth.network,
                        digest |-> TermsOf[policy].digest, issued_at |-> 0, expires_at |-> 0]])
  /\ UNCHANGED <<evidence, credentials, presentations, grants>>

Predicates(n) == {level \in Levels : n >= level}

Earlier(a, b) == IF a <= b THEN a ELSE b

CountEvidenceUncapped(c, t) ==                                      \* mutant
  LET draft == session[c].artifact
      n     == evidence[draft.claims.subject]
  IN  /\ session[c].at = "count"
      /\ draft.authorization.not_before <= t /\ t < draft.authorization.expires_at
      /\ Enter(c, "sign", session[c].policy,
               [draft EXCEPT !.predicates = Predicates(n), !.counted = n,
                             !.claims.issued_at = t,
                             !.claims.expires_at = t + CredentialLifetime])
      /\ UNCHANGED <<disclosureVars, evidence, credentials, presentations, grants>>

(* reputation_summary is one transaction of another store; the claims are  *)
(* validated as an artifact before the key is asked to sign them.          *)
CountEvidence(c, t) ==
  LET draft == session[c].artifact
      auth  == draft.authorization
      ends  == Earlier(t + CredentialLifetime, auth.expires_at)
      n     == evidence[draft.claims.subject]
  IN  /\ session[c].at = "count"
      /\ auth.not_before <= t /\ t < ends
      /\ Enter(c, "sign", session[c].policy,
               [draft EXCEPT !.predicates = Predicates(n), !.counted = n,
                             !.claims.issued_at = t, !.claims.expires_at = ends])
      /\ UNCHANGED <<disclosureVars, evidence, credentials, presentations, grants>>

Sign(c) ==
  /\ session[c].at = "sign"
  /\ Cardinality(credentials) < MaxCredentials
  /\ credentials' = credentials \cup {session[c].artifact}
  /\ Leave(c)
  /\ UNCHANGED <<disclosureVars, evidence, presentations, grants>>

(***************************************************************************)
(* present_reputation_credential: the holder checks the issuer and that    *)
(* the predicate was asserted before a proof is derived for the request.   *)
(* The holder is the policy's subject, or the call ends at once: nobody    *)
(* else makes a presentation.                                              *)
(***************************************************************************)
BeginPresent(c, cred, request, policy, matched, t) ==
  /\ session[c] = Idle
  /\ Match(policy, request, cred.authorization, cred.claims, matched)
  /\ CheckOwn(cred.authorization, TermsOf[policy].freshness, t)
  /\ TermsOf[policy].threshold \in cred.predicates
  /\ Enter(c, "derive", policy,
           [authorization |-> cred.authorization, claims |-> cred.claims,
            request |-> request, counted |-> cred.counted])
  /\ UNCHANGED <<evidence, credentials, presentations, grants>>

Derive(c) ==
  /\ session[c].at = "derive"
  /\ Cardinality(presentations) < MaxPresentations
  /\ presentations' = presentations \cup {session[c].artifact}
  /\ Leave(c)
  /\ UNCHANGED <<disclosureVars, evidence, credentials, grants>>

(***************************************************************************)
(* verify_reputation_presentation: one transaction, open from BeginVerify  *)
(* to Consume or Abandon.                                                  *)
(***************************************************************************)

(* What a verifier may be shown: genuine presentations, any number of      *)
(* times, and ones whose request was exchanged for another.                *)
Shown == presentations \cup
         {[shown EXCEPT !.request = row.request] : shown \in presentations, row \in requests}

Presented(request) == [request |-> request, used |-> FALSE] \in requests

(* The signature of the subject, checked here by the code, belongs to what *)
(* is genuine: what is shown with another one ends in Abandon, as what has *)
(* an exchanged request does, though the latter only at the companion.     *)
BeginVerify(c, value, policy, t) ==
  /\ session[c] = Idle
  /\ Lock(c, t)
  /\ Match(policy, value.request, value.authorization, value.claims, t)
  /\ IssuerGood(value.authorization, TermsOf[policy].freshness, t)
  /\ Presented(value.request)
  /\ Enter(c, "prove", policy, value)
  /\ UNCHANGED <<evidence, credentials, presentations, grants>>

ProofAcceptedUnbound(c) ==                                          \* mutant
  /\ session[c].at = "prove"
  /\ \E p \in presentations : [p EXCEPT !.request = session[c].artifact.request]
                               = session[c].artifact
  /\ session' = [session EXCEPT ![c].at = "consume"]
  /\ UNCHANGED <<disclosureVars, evidence, credentials, presentations, grants>>

(* The companion answers that the proof is valid. *)
ProofAccepted(c) ==
  /\ session[c].at = "prove"
  /\ session[c].artifact \in presentations
  /\ session' = [session EXCEPT ![c].at = "consume"]
  /\ UNCHANGED <<disclosureVars, evidence, credentials, presentations, grants>>

ConsumeUnchecked(c, t) ==                                           \* mutant
  LET s == session[c]
  IN  /\ s.at = "consume"
      /\ Use(c, s.artifact.request.challenge, t)
      /\ \/ grants' = Append(grants, [policy |-> s.policy, presentation |-> s.artifact, at |-> t])
         \/ UNCHANGED grants
      /\ Leave(c)
      /\ UNCHANGED <<evidence, credentials, presentations>>

(* Clock, policy and issuer are checked once more, the request is used and *)
(* the transaction committed.  The process may die after that and before   *)
(* it answers: the request is consumed and nothing was granted.            *)
Consume(c, t) ==
  LET s == session[c]
  IN  /\ s.at = "consume"
      /\ Match(s.policy, s.artifact.request, s.artifact.authorization, s.artifact.claims, t)
      /\ IssuerGood(s.artifact.authorization, TermsOf[s.policy].freshness, t)
      /\ Use(c, s.artifact.request.challenge, t)
      /\ \/ grants' = Append(grants, [policy |-> s.policy, presentation |-> s.artifact, at |-> t])
         \/ UNCHANGED grants
      /\ Leave(c)
      /\ UNCHANGED <<evidence, credentials, presentations>>

(* The call ends early: a check fails, the proof is invalid, the clock     *)
(* went back, the companion is busy, fails or does not answer in time, or  *)
(* the process dies.  An open transaction is rolled back.                  *)
AbandonKeepingLock(c) ==                                            \* mutant
  /\ session[c] # Idle
  /\ UNCHANGED disclosureVars
  /\ Leave(c)
  /\ UNCHANGED <<evidence, credentials, presentations, grants>>

Abandon(c) ==
  /\ session[c] # Idle
  /\ IF writer = c THEN Unlock(c) ELSE UNCHANGED disclosureVars
  /\ Leave(c)
  /\ UNCHANGED <<evidence, credentials, presentations, grants>>

-----------------------------------------------------------------------------

(* The evaluator's database counts more or, when it is exchanged for       *)
(* another, fewer settlements.                                             *)
EvidenceChanges(s, n) ==
  /\ n # evidence[s]
  /\ evidence' = [evidence EXCEPT ![s] = n]
  /\ UNCHANGED <<disclosureVars, session, credentials, presentations, grants>>

DisclosureInit ==
  /\ StoreInit
  /\ session = [c \in Processes |-> Idle]
  /\ evidence \in [Subjects -> 0..MaxEvidence]
  /\ credentials = {} /\ presentations = {} /\ grants = <<>>

Administer(t) ==
  \/ \E policy \in Policies, challenge \in Challenges, built \in Times :
       CreateRequest(policy, challenge, built, t)
  \/ \E auth \in Authorizations, revs \in SUBSET Revocations : Refresh(auth, revs, t)

Call(c, t) ==
  \/ \E auth \in Authorizations, policy \in Policies : BeginIssue(c, auth, policy, t)
  \/ CountEvidence(c, t)
  \/ \E cred \in credentials, row \in requests, policy \in Policies, matched \in Times :
       BeginPresent(c, cred, row.request, policy, matched, t)
  \/ \E value \in Shown, policy \in Policies : BeginVerify(c, value, policy, t)
  \/ Consume(c, t)

CompanionAnswers(c) == Sign(c) \/ Derive(c) \/ ProofAccepted(c)

DisclosureNext ==
  \/ \E t \in Times : Administer(t) \/ \E c \in Processes : Call(c, t)
  \/ \E c \in Processes : CompanionAnswers(c) \/ Abandon(c)
  \/ \E s \in Subjects, n \in 0..MaxEvidence : EvidenceChanges(s, n)

DisclosureSpec == DisclosureInit /\ [][DisclosureNext]_allVars

(* A verification that has started ends: every request to the companion    *)
(* has a timeout of at most 30 seconds, and what follows is local.         *)
Progress(c) == CompanionAnswers(c) \/ (\E t \in Times : Consume(c, t)) \/ Abandon(c)

FairDisclosureSpec == DisclosureSpec /\ \A c \in Processes : WF_allVars(Progress(c))

(***************************************************************************)
(* Properties                                                              *)
(***************************************************************************)

(* Every variable has its type.                                            *)
DisclosureTypeOK ==
  /\ StoreTypeOK
  /\ session \in [Processes -> Session]
  /\ evidence \in [Subjects -> 0..MaxEvidence]
  /\ credentials \subseteq Credential
  /\ presentations \subseteq Presentation
  /\ grants \in Seq(Grant)

(* A request is answered "valid" at most once, however often the same or   *)
(* another presentation is sent for it, to however many processes, and     *)
(* whichever of them dies (docs/phase4f-protocol-v1.md, "Replay").         *)
OneGrantPerRequest ==
  \A i, j \in DOMAIN grants :
     grants[i].presentation.request.challenge = grants[j].presentation.request.challenge
     => i = j

(* A grant is decided inside the lifetimes of the request, of the          *)
(* credential and of the issuer's authorization, however long the          *)
(* companion took to answer.                                               *)
GrantsWithinDeadlines ==
  \A i \in DOMAIN grants :
     LET g == grants[i]
         p == g.presentation
     IN  /\ Active(p.request.not_before, p.request.expires_at, g.at)
         /\ Active(p.claims.issued_at, p.claims.expires_at, g.at)
         /\ Active(p.authorization.not_before, p.authorization.expires_at, g.at)

(* Grants are decided in the order of their times: a clock that was set    *)
(* back cannot revive what had expired when an earlier one was decided.    *)
GrantsChronological ==
  \A i, j \in DOMAIN grants : i <= j => grants[i].at <= grants[j].at

(* A granted threshold was reached: the evaluator the verifier trusts      *)
(* counted that many settlements, of the subject and under the policy the  *)
(* verifier asked about, when it signed.                                   *)
GrantsBacked ==
  \A i \in DOMAIN grants :
     LET p == grants[i].presentation
         t == TermsOf[grants[i].policy]
     IN  /\ <<p.claims.subject, p.claims.network, p.claims.digest>>
               = <<t.subject, t.network, t.digest>>
         /\ p.authorization.evaluator = t.evaluator
         /\ p.counted >= t.threshold
         /\ \E cred \in credentials :
              /\ cred.authorization = p.authorization /\ cred.claims = p.claims
              /\ cred.counted = p.counted

(* Once a revocation of a key is stored nothing is granted on that key     *)
(* again, under that authorization or a newer one, fresh status or not.    *)
NoGrantForRevokedKey ==
  [][grants' # grants =>
       \A rev \in revocations :
          KeyOf(rev) # KeyOf(grants'[Len(grants')].presentation.authorization)]_allVars

(* The database is not left locked by a verification whose companion does  *)
(* not answer, whose checks fail or whose process dies.                    *)
LockReleased == \A c \in Processes : writer = c ~> writer # c
=============================================================================
