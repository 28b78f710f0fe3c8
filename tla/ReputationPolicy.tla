---------------------------- MODULE ReputationPolicy ----------------------------
(***************************************************************************)
(* reputation_summary: what an evaluator counts in its store under its     *)
(* policy.  The code goes through the attestations once, newest first, and *)
(* the loop is translated as it stands; the properties compare it with     *)
(* what it should amount to and with other stores.                         *)
(***************************************************************************)
EXTENDS ReputationStore, SequencesExt

Policy == [trusted_issuers : SUBSET Machines, max_per_issuer : Nat \ {0},
           min_age : Dates, max_age : Dates, require_settlement : BOOLEAN]

ASSUME PoliciesWellFormed == \A p \in Policies : p \in Policy /\ p.min_age <= p.max_age

(* sorted(attestations, key=(-issued_at, id)).                             *)
Newer(a, b) == a.issued_at > b.issued_at \/ (a.issued_at = b.issued_at /\ a.id < b.id)

About(s, network, subject) ==
  {a \in artifacts[s] : a.network = network /\ a.kind = "attestation" /\ a.subject = subject}

Observed(s, network, subject) ==
  {e \in settlements[s] : e.network = network /\ e.subject = subject}

(* revocations: pairs of the id revoked and the revoking issuer *)
RevokedByAnyone(s, a) ==                                            \* mutant
  \E r \in artifacts[s] : r.kind = "revocation" /\ r.network = a.network /\ r.target = a.id
Revoked(s, a) ==
  \E r \in artifacts[s] :
     /\ r.kind = "revocation" /\ r.network = a.network
     /\ <<r.target, r.issuer>> = <<a.id, a.issuer>>

Counts(s, policy, a, asOf) ==
  /\ ~Revoked(s, a)
  /\ a.issuer # a.subject /\ a.issuer \in policy.trusted_issuers
  /\ policy.min_age <= asOf - a.issued_at /\ asOf - a.issued_at <= policy.max_age
  /\ policy.require_settlement => a.evidence \in Observed(s, a.network, a.subject)

(* Ids differ, so that the order is total and there is one such sequence.  *)
Sorted(about) ==
  CHOOSE order \in SetToSeqs(about) :
     \A i, j \in DOMAIN order : i < j => Newer(order[i], order[j])

(* The loop: an attestation that counts is accepted unless its issuer has  *)
(* already contributed as many as the policy allows.                       *)
Consider(accepted, a, counting, limit) ==
  IF a \in counting /\ Cardinality({b \in accepted : b.issuer = a.issuer}) < limit
  THEN accepted \cup {a} ELSE accepted

OldestFirst(about, counting, limit) ==                              \* mutant
  FoldLeft(LAMBDA accepted, a : Consider(accepted, a, counting, limit), {},
           Reverse(Sorted(about)))
NewestFirst(about, counting, limit) ==
  FoldLeft(LAMBDA accepted, a : Consider(accepted, a, counting, limit), {}, Sorted(about))

Accepted(s, network, subject, policy, asOf) ==
  LET about == About(s, network, subject)
  IN  NewestFirst(about, {a \in about : Counts(s, policy, a, asOf)}, policy.max_per_issuer)

Summary(s, network, subject, policy, asOf) ==
  LET about    == About(s, network, subject)
      accepted == Accepted(s, network, subject, policy, asOf)
  IN  [settlement_events |-> Cardinality(Observed(s, network, subject)),
       attestations      |-> Cardinality(about),
       revoked           |-> Cardinality({a \in about : Revoked(s, a)}),
       accepted          |-> Cardinality(accepted),
       issuers           |-> Cardinality({a.issuer : a \in accepted}),
       outcomes          |-> [o \in Outcomes |-> Cardinality({a \in accepted : a.outcome = o})],
       times             |-> {a.issued_at : a \in accepted}]

(***************************************************************************)
(* Properties                                                              *)
(***************************************************************************)

(* Stores that were offered the same artifacts and hold the same           *)
(* settlements come to the same summaries, although a revocation may have  *)
(* arrived before what it revokes, and a store may hold unauthorized ones  *)
(* that another refused; unless capacity made one refuse.                  *)
SummaryOrderFree ==
  \A s, r \in Stores :
     /\ offered[s] = offered[r] /\ settlements[s] = settlements[r]
     /\ Size(s) < Capacity /\ Size(r) < Capacity
     => \A n \in Networks, m \in Machines, p \in Policies, t \in Dates :
          Summary(s, n, m, p, t) = Summary(r, n, m, p, t)

(* The single pass of the loop accepts, of each trusted issuer, its newest *)
(* attestations that count, up to the limit: what is revoked, too old or   *)
(* without its settlement takes no place from one that is not.             *)
NewestCounted ==
  \A s \in Stores, n \in Networks, m \in Machines, p \in Policies, t \in Dates :
     LET counting == {a \in About(s, n, m) : Counts(s, p, a, t)}
         Rivals(a) == {b \in counting : b.issuer = a.issuer /\ Newer(b, a)}
     IN  Accepted(s, n, m, p, t) = {a \in counting : Cardinality(Rivals(a)) < p.max_per_issuer}

(* Only its author takes an attestation out of the count: whatever other   *)
(* machines sign and import, and in whichever order, what it contributes   *)
(* is not reduced by a revocation of theirs.                               *)
OnlyAuthorRevokes ==
  \A s \in Stores, a \in Artifacts :
     /\ a.kind = "attestation"
     /\ \A r \in offered[s] : r.kind = "revocation" /\ r.target = a.id => r.issuer # a.issuer
     => ~Revoked(s, a)
=============================================================================
