--------------------------- MODULE MCSettlementBridge ---------------------------
(* Two invoices.  One pays an address of the wallet's network that two      *)
(* machines have bound, one of them twice, the second time without its      *)
(* owner's spend key; the other an address of another network, or one that  *)
(* is bound on a network that is not its own.                               *)
(* Machine m2 attests m1 twice, once with a settlement as evidence, and     *)
(* revokes the later; m3 signs a revocation of the earlier.                 *)
EXTENDS SettlementBridge, ReputationPolicy, TLC

CONSTANTS p1, p2, s1, m1, m2, m3, main, test, tx1, tx2, inv1, inv2, b1, b2, b3, b4, shared, own

MCRecipient == inv1 :> shared @@ inv2 :> own
MCTerms(a, n, m, signature) ==
  [address |-> a, network |-> n, machine |-> m, identity_signed |-> TRUE,
   wallet_signature |-> signature]
MCBindingTerms == b1 :> MCTerms(shared, main, m1, "spend") @@ b2 :> MCTerms(shared, main, m2, "spend")
                    @@ b3 :> MCTerms(own, main, m1, "spend") @@ b4 :> MCTerms(shared, main, m2, "view")
MCAddressFacts == shared :> [network |-> main, valid |-> TRUE, type |-> "subaddress"]
                    @@ own :> [network |-> test, valid |-> TRUE, type |-> "standard"]
AlikeRecorders == Permutations({p1, p2})

Paid == [network |-> main, subject |-> m1, txid |-> tx1, invoice |-> inv1, binding |-> b1]
Attests(id, at, outcome, evidence) ==
  [kind |-> "attestation", id |-> id, issuer |-> m2, subject |-> m1, network |-> main,
   issued_at |-> at, outcome |-> outcome, evidence |-> evidence]
Revokes(id, issuer, target) ==
  [kind |-> "revocation", id |-> id, issuer |-> issuer, network |-> main, issued_at |-> 1,
   target |-> target]
MCArtifacts == {Attests(1, 0, "POSITIVE", Paid), Attests(2, 1, "NEGATIVE", NoEvidence),
                Revokes(3, m2, 2), Revokes(4, m3, 1)}

MCPolicy(n, young, old, settled) ==
  [trusted_issuers |-> {m2}, max_per_issuer |-> n, min_age |-> young, max_age |-> old,
   require_settlement |-> settled]
MCPolicies == {MCPolicy(1, 0, 1, FALSE), MCPolicy(2, 1, 1, FALSE), MCPolicy(1, 0, 1, TRUE)}
=============================================================================
