------------------------------ MODULE MCReputation ------------------------------
(* Two trusted issuers and two stores.  Issuer 1 attests the subject twice  *)
(* and revokes the later; issuer 2 attests it once, with a settlement as    *)
(* evidence, signs a revocation of what issuer 1 said, and issuer 1 one of  *)
(* a revocation.                                                            *)
EXTENDS ReputationPolicy, TLC

CONSTANTS s1, s2, i1, i2, subject, main, tx1, tx2, inv1, inv2, b1

Paid == [network |-> main, subject |-> subject, txid |-> tx1, invoice |-> inv1, binding |-> b1]

Attests(id, issuer, at, outcome, evidence) ==
  [kind |-> "attestation", id |-> id, issuer |-> issuer, subject |-> subject, network |-> main,
   issued_at |-> at, outcome |-> outcome, evidence |-> evidence]
Revokes(id, issuer, at, target) ==
  [kind |-> "revocation", id |-> id, issuer |-> issuer, network |-> main, issued_at |-> at,
   target |-> target]

MCArtifacts == {Attests(1, i1, 1, "POSITIVE", NoEvidence), Attests(2, i1, 2, "NEGATIVE", NoEvidence),
                Attests(3, i2, 1, "POSITIVE", Paid), Revokes(4, i1, 2, 2), Revokes(5, i2, 2, 1),
                Revokes(6, i1, 2, 4)}
FewArtifacts == {a \in MCArtifacts : a.id \in {1, 4, 5}}

EitherStore == Permutations({s1, s2})

MCPolicy(n, young, old, settled) ==
  [trusted_issuers |-> {i1, i2}, max_per_issuer |-> n, min_age |-> young, max_age |-> old,
   require_settlement |-> settled]
MCPolicies == {MCPolicy(1, 0, 2, FALSE), MCPolicy(2, 1, 2, FALSE), MCPolicy(1, 0, 1, TRUE)}
=============================================================================
