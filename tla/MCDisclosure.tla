------------------------------ MODULE MCDisclosure ------------------------------
(* A machine whose settlements an evaluator counts; the evaluator's key is  *)
(* authorized twice.  Verifiers ask for the threshold under one reputation  *)
(* policy or another, and for one settlement or two.                        *)
EXTENDS Disclosure, TLC

CONSTANTS p1, p2, c1, c2, asked, other, more, e1, k1, main, machine, d1, d2

MCAuthorization(from, to) ==
  [evaluator |-> e1, bbs_key_id |-> k1, network |-> main, not_before |-> from, expires_at |-> to]
First == MCAuthorization(0, 2)
Second == MCAuthorization(1, 3)

MCRevocation(auth, t) ==
  [evaluator |-> e1, bbs_key_id |-> k1, network |-> main, authorization |-> auth, issued_at |-> t]

MCAuthorizations == {First, Second}
OneAuthorization == {First}
MCRevocations == {MCRevocation(First, 1)}

MCTerms(digest, threshold) ==
  [subject |-> machine, evaluator |-> e1, bbs_key_id |-> k1, network |-> main,
   digest |-> digest, threshold |-> threshold, freshness |-> 1]
OneAsked == asked :> MCTerms(d1, 1)
ThreeAsked == asked :> MCTerms(d1, 1) @@ other :> MCTerms(d2, 1) @@ more :> MCTerms(d1, 2)

OneLevel == {1}
TwoLevels == {1, 2}

Alike == Permutations({p1, p2}) \cup Permutations({c1, c2})
=============================================================================
