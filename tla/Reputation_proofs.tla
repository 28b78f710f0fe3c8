--------------------------- MODULE Reputation_proofs ---------------------------
(***************************************************************************)
(* Proofs about any number of reputation stores, their summaries, and      *)
(* recordings from a ledger into them, for all artifacts, settlements,     *)
(* policies, capacities, processes, invoices and bindings.                 *)
(***************************************************************************)
EXTENDS SettlementBridge, ReputationPolicy, FiniteSetTheorems,
        WellFoundedInduction, TLAPS

(* The size of a store is a number: its tables are finite.                 *)
LEMMA SizesAreNumbers ==
  ASSUME ReputationTypeOK, NEW s \in Stores
  PROVE  /\ IsFiniteSet(artifacts[s]) /\ Cardinality(artifacts[s]) \in Nat
         /\ IsFiniteSet(settlements[s]) /\ Cardinality(settlements[s]) \in Nat
<1>1. artifacts[s] \subseteq Artifacts /\ settlements[s] \subseteq Settlement
  BY DEF ReputationTypeOK
<1> QED BY <1>1, ReputationConstants, FS_Subset, FS_CardinalityType

(* One more element costs one place.                                       *)
LEMMA OneMore ==
  ASSUME NEW S, IsFiniteSet(S), NEW x, x \notin S
  PROVE  Cardinality(S \cup {x}) = Cardinality(S) + 1
  BY FS_AddElement

LEMMA InitIsTyped == ReputationInit => ReputationTypeOK
  BY DEF ReputationInit, ReputationTypeOK

LEMMA StepIsTyped ==
  ASSUME ReputationTypeOK, [ReputationNext]_reputationVars
  PROVE  ReputationTypeOK'
<1>1. ASSUME NEW s \in Stores, NEW a \in Artifacts, NEW network \in Networks,
             Import(s, a, network)
      PROVE  ReputationTypeOK'
  BY <1>1 DEF Import, ReputationTypeOK
<1>2. ASSUME NEW s \in Stores, NEW e \in Settlement, Record(s, e)
      PROVE  ReputationTypeOK'
  BY <1>2 DEF Record, ReputationTypeOK
<1>3. CASE UNCHANGED reputationVars
  BY <1>3 DEF reputationVars, ReputationTypeOK
<1> QED BY <1>1, <1>2, <1>3 DEF ReputationNext

(* Every variable has its type.                                            *)
THEOREM ReputationTypeCorrect == ReputationSpec => []ReputationTypeOK
<1>1. ReputationTypeOK /\ [ReputationNext]_reputationVars => ReputationTypeOK'
  BY StepIsTyped
<1> QED BY <1>1, InitIsTyped, PTL DEF ReputationSpec

-----------------------------------------------------------------------------

LEMMA StepKeepsRoom ==
  ASSUME ReputationTypeOK, NeverLockedOut, [ReputationNext]_reputationVars
  PROVE  NeverLockedOut'
<1>1. ASSUME NEW s \in Stores, NEW a \in Artifacts, NEW network \in Networks,
             Import(s, a, network), NEW r \in Stores
      PROVE  Size(r)' <= Capacity
  <2>1. CASE r = s /\ Importable(s, a) /\ a.network = network
    <3>1. artifacts'[r] = artifacts[r] \cup {a} /\ settlements'[r] = settlements[r]
      BY <1>1, <2>1 DEF Import, ReputationTypeOK
    <3>2. Cardinality(artifacts'[r]) = Cardinality(artifacts[r]) + 1
      BY <2>1, <3>1, OneMore, SizesAreNumbers DEF Importable
    <3>3. Cardinality(artifacts[r]) + Cardinality(settlements[r]) < Capacity
      BY <2>1 DEF Importable, Room, Size
    <3> QED BY <3>1, <3>2, <3>3, SizesAreNumbers, ReputationConstants DEF Size
  <2>2. CASE ~(r = s /\ Importable(s, a) /\ a.network = network)
    <3>1. artifacts'[r] = artifacts[r] /\ settlements'[r] = settlements[r]
      BY <1>1, <2>2 DEF Import, ReputationTypeOK
    <3> QED BY <3>1 DEF NeverLockedOut, Size
  <2> QED BY <2>1, <2>2
<1>2. ASSUME NEW s \in Stores, NEW e \in Settlement, Record(s, e), NEW r \in Stores
      PROVE  Size(r)' <= Capacity
  <2>1. CASE r = s /\ Recordable(s, e)
    <3>1. artifacts'[r] = artifacts[r] /\ settlements'[r] = settlements[r] \cup {e}
      BY <1>2, <2>1 DEF Record, ReputationTypeOK
    <3>2. Cardinality(settlements'[r]) = Cardinality(settlements[r]) + 1
      BY <2>1, <3>1, OneMore, SizesAreNumbers DEF Recordable
    <3>3. Cardinality(artifacts[r]) + Cardinality(settlements[r]) < Capacity
      BY <2>1 DEF Recordable, Room, Size
    <3> QED BY <3>1, <3>2, <3>3, SizesAreNumbers, ReputationConstants DEF Size
  <2>2. CASE ~(r = s /\ Recordable(s, e))
    <3>1. artifacts'[r] = artifacts[r] /\ settlements'[r] = settlements[r]
      BY <1>2, <2>2 DEF Record, ReputationTypeOK
    <3> QED BY <3>1 DEF NeverLockedOut, Size
  <2> QED BY <2>1, <2>2
<1>3. CASE UNCHANGED reputationVars
  BY <1>3 DEF reputationVars, NeverLockedOut, Size
<1> QED BY <1>1, <1>2, <1>3 DEF ReputationNext, NeverLockedOut

(* However imports and recordings alternate, a store stays small enough    *)
(* for _snapshot to accept it.                                             *)
THEOREM StoresStayUsable == ReputationSpec => []NeverLockedOut
<1>1. ReputationInit => NeverLockedOut
  BY FS_EmptySet, ReputationConstants DEF ReputationInit, NeverLockedOut, Size
<1>2. /\ ReputationTypeOK /\ NeverLockedOut /\ [ReputationNext]_reputationVars
      => NeverLockedOut'
  BY StepKeepsRoom
<1> QED BY <1>1, <1>2, ReputationTypeCorrect, PTL DEF ReputationSpec

-----------------------------------------------------------------------------

LEMMA StepAttributesOnce ==
  ASSUME ReputationTypeOK, AttributedOnce, [ReputationNext]_reputationVars
  PROVE  AttributedOnce'
<1>1. ASSUME NEW s \in Stores, NEW a \in Artifacts, NEW network \in Networks,
             Import(s, a, network)
      PROVE  AttributedOnce'
  BY <1>1 DEF Import, AttributedOnce
<1>2. ASSUME NEW s \in Stores, NEW e \in Settlement, Record(s, e)
      PROVE  AttributedOnce'
  <2>1. CASE Recordable(s, e)
    <3>1. /\ settlements'[s] = settlements[s] \cup {e}
          /\ \A r \in Stores \ {s} : settlements'[r] = settlements[r]
      BY <1>2, <2>1 DEF Record, ReputationTypeOK
    <3>2. ~Attributed(s, e)
      BY <2>1 DEF Recordable
    <3> QED BY <3>1, <3>2 DEF Attributed, AttributedOnce
  <2>2. CASE ~Recordable(s, e)
    BY <1>2, <2>2 DEF Record, AttributedOnce
  <2> QED BY <2>1, <2>2
<1>3. CASE UNCHANGED reputationVars
  BY <1>3 DEF reputationVars, AttributedOnce
<1> QED BY <1>1, <1>2, <1>3 DEF ReputationNext

(* A transaction and a payment request count once in a store, under        *)
(* whichever subjects and bindings they are recorded.                      *)
THEOREM PaymentsAttributedOnce == ReputationSpec => []AttributedOnce
<1>1. ReputationInit => AttributedOnce
  BY DEF ReputationInit, AttributedOnce
<1>2. /\ ReputationTypeOK /\ AttributedOnce /\ [ReputationNext]_reputationVars
      => AttributedOnce'
  BY StepAttributesOnce
<1> QED BY <1>1, <1>2, ReputationTypeCorrect, PTL DEF ReputationSpec

-----------------------------------------------------------------------------

(* Importing an attestation can be refused for want of room alone, and a   *)
(* revocation also because what it names is there and not its author's.    *)
(* So a store that still has room holds every artifact that it was ever    *)
(* offered, but for such revocations; and it holds no other artifacts.     *)
Kept(s) ==
  \A a \in offered[s] \ artifacts[s] : a.kind = "revocation" /\ Unauthorized(s, a)

OffersInv ==
  \A s \in Stores : artifacts[s] \subseteq offered[s] /\ (Size(s) < Capacity => Kept(s))

LEMMA StepKeepsOffers ==
  ASSUME ReputationTypeOK, OffersInv, [ReputationNext]_reputationVars
  PROVE  OffersInv'
<1>1. ASSUME NEW s \in Stores, NEW a \in Artifacts, NEW network \in Networks,
             Import(s, a, network), NEW r \in Stores
      PROVE  (artifacts[r] \subseteq offered[r])' /\ (Size(r)' < Capacity => Kept(r)')
  <2>1. CASE r # s \/ a.network # network
    <3>1. artifacts'[r] = artifacts[r] /\ settlements'[r] = settlements[r] /\ offered'[r] = offered[r]
      BY <1>1, <2>1 DEF Import, ReputationTypeOK
    <3> QED BY <3>1 DEF OffersInv, Size, Kept, Unauthorized
  <2>2. CASE r = s /\ a.network = network /\ Importable(s, a)
    <3>1. /\ artifacts'[r] = artifacts[r] \cup {a} /\ settlements'[r] = settlements[r]
          /\ offered'[r] = offered[r] \cup {a}
      BY <1>1, <2>2 DEF Import, ReputationTypeOK
    <3>2. Size(r) < Capacity
      BY <2>2 DEF Importable, Room
    <3> QED BY <3>1, <3>2 DEF OffersInv, Kept, Unauthorized
  <2>3. CASE r = s /\ a.network = network /\ ~Importable(s, a)
    <3>1. /\ artifacts'[r] = artifacts[r] /\ settlements'[r] = settlements[r]
          /\ offered'[r] = offered[r] \cup {a}
      BY <1>1, <2>3 DEF Import, ReputationTypeOK
    <3>2. ASSUME Size(r) < Capacity, a \notin artifacts[r]
          PROVE  a.kind = "revocation" /\ Unauthorized(r, a)
      BY <2>3, <3>2, SizesAreNumbers, ReputationConstants DEF Importable, Room, Size
    <3> QED BY <3>1, <3>2 DEF OffersInv, Size, Kept, Unauthorized
  <2> QED BY <2>1, <2>2, <2>3
<1>2. ASSUME NEW s \in Stores, NEW e \in Settlement, Record(s, e), NEW r \in Stores
      PROVE  (artifacts[r] \subseteq offered[r])' /\ (Size(r)' < Capacity => Kept(r)')
  <2>1. artifacts'[r] = artifacts[r] /\ offered'[r] = offered[r]
    BY <1>2 DEF Record
  <2>2. Size(r)' < Capacity => Size(r) < Capacity
    <3>1. CASE settlements'[r] = settlements[r]
      BY <2>1, <3>1 DEF Size
    <3>2. CASE settlements'[r] # settlements[r]
      BY <1>2, <3>2 DEF Record, Recordable, Room, ReputationTypeOK
    <3> QED BY <3>1, <3>2
  <2> QED BY <2>1, <2>2 DEF OffersInv, Kept, Unauthorized
<1>3. CASE UNCHANGED reputationVars
  BY <1>3 DEF reputationVars, OffersInv, Size, Kept, Unauthorized
<1> QED BY <1>1, <1>2, <1>3 DEF ReputationNext, OffersInv

LEMMA OffersHold == ReputationSpec => []OffersInv
<1>1. ReputationInit => OffersInv
  BY DEF ReputationInit, OffersInv, Kept
<1>2. ReputationTypeOK /\ OffersInv /\ [ReputationNext]_reputationVars => OffersInv'
  BY StepKeepsOffers
<1> QED BY <1>1, <1>2, ReputationTypeCorrect, PTL DEF ReputationSpec

(* Only its author takes an attestation out of the count: a store holds    *)
(* no revocation that it was not offered.                                  *)
THEOREM AuthorsRevoke == ReputationSpec => []OnlyAuthorRevokes
<1>1. OffersInv => OnlyAuthorRevokes
  BY DEF OffersInv, OnlyAuthorRevokes, Revoked
<1> QED BY <1>1, OffersHold, PTL

(* A revocation that one store let in takes effect in the other, too: had  *)
(* that one refused it, then for what it names, which is the attestation   *)
(* itself, and that is its author's.                                       *)
LEMMA RevokedAlike ==
  ASSUME ReputationTypeOK, OffersInv, NEW s \in Stores, NEW r \in Stores,
         offered[s] = offered[r], Size(r) < Capacity,
         NEW a \in artifacts[r], a.kind = "attestation", Revoked(s, a)
  PROVE  Revoked(r, a)
<1>1. PICK v \in artifacts[s] :
        /\ v.kind = "revocation" /\ v.network = a.network
        /\ v.target = a.id /\ v.issuer = a.issuer
  BY DEF Revoked
<1>2. CASE v \in artifacts[r]
  BY <1>1, <1>2 DEF Revoked
<1>3. CASE v \notin artifacts[r]
  <2>1. Unauthorized(r, v)
    BY <1>3 DEF OffersInv, Kept
  <2>2. PICK t \in artifacts[r] :
          /\ t.id = v.target
          /\ t.kind # "attestation" \/ t.issuer # v.issuer \/ t.network # v.network
    BY <2>1 DEF Unauthorized
  <2>3. t = a
    BY <1>1, <2>2, ReputationConstants DEF ReputationTypeOK
  <2> QED BY <1>1, <2>2, <2>3
<1> QED BY <1>2, <1>3

(* Stores with room that were offered the same artifacts hold the same     *)
(* attestations, of which the same are revoked.                            *)
LEMMA SummariesAlike ==
  ASSUME ReputationTypeOK, OffersInv, NEW s \in Stores, NEW r \in Stores,
         offered[s] = offered[r], settlements[s] = settlements[r],
         Size(s) < Capacity, Size(r) < Capacity,
         NEW n \in Networks, NEW m \in Machines, NEW p \in Policies, NEW t \in Dates
  PROVE  Summary(s, n, m, p, t) = Summary(r, n, m, p, t)
<1>1. \A a : a.kind = "attestation" => (a \in artifacts[s] <=> a \in artifacts[r])
  BY DEF OffersInv, Kept
<1>2. About(s, n, m) = About(r, n, m)
  BY <1>1 DEF About
<1>3. \A k \in Networks, j \in Machines : Observed(s, k, j) = Observed(r, k, j)
  BY DEF Observed
<1>4. \A a \in About(s, n, m) : Revoked(s, a) <=> Revoked(r, a)
  BY <1>2, RevokedAlike DEF About
<1>5. \A a \in About(s, n, m) : Counts(s, p, a, t) <=> Counts(r, p, a, t)
  BY <1>3, <1>4 DEF Counts, About
<1>6. /\ {a \in About(s, n, m) : Counts(s, p, a, t)} = {a \in About(r, n, m) : Counts(r, p, a, t)}
      /\ {a \in About(s, n, m) : Revoked(s, a)} = {a \in About(r, n, m) : Revoked(r, a)}
  BY <1>2, <1>4, <1>5
<1>7. Accepted(s, n, m, p, t) = Accepted(r, n, m, p, t)
  BY <1>2, <1>6 DEF Accepted
<1> QED BY <1>2, <1>3, <1>6, <1>7 DEF Summary

(* In whichever orders stores receive the same artifacts, they come to the *)
(* same summaries as long as none of them had to refuse one for want of    *)
(* room.                                                                   *)
THEOREM SummariesOrderFree == ReputationSpec => []SummaryOrderFree
<1>1. ReputationTypeOK /\ OffersInv => SummaryOrderFree
  BY SummariesAlike DEF SummaryOrderFree
<1> QED BY <1>1, OffersHold, ReputationTypeCorrect, PTL

-----------------------------------------------------------------------------

(***************************************************************************)
(* The loop of reputation_summary, for any number of attestations.  What   *)
(* it computes is shown by induction over its iterations; the numbers are  *)
(* well-founded, and that gives induction over a SET of numbers.           *)
(***************************************************************************)

(* A set of numbers has a least element.                                   *)
LEMMA LeastNumber ==
  ASSUME NEW T \in SUBSET Nat, T # {}
  PROVE  \E n \in T : \A m \in T : n <= m
<1> DEFINE less == {ss \in Nat \X Nat : ss[1] < ss[2]}
<1>1. IsWellFoundedOn(less, Nat)
  BY NatLessThanWellFounded DEF OpToRel
<1> HIDE DEF less
<1>2. PICK n \in T : \A m \in T : <<m, n>> \notin less
  BY <1>1, WFMin
<1>3. \A m \in T : ~(m < n)
  BY <1>2 DEF less
<1> QED BY <1>3

(* What contains zero and the successor of each of its numbers has all.    *)
LEMMA Induction ==
  ASSUME NEW S, 0 \in S, \A n \in Nat : n \in S => n + 1 \in S
  PROVE  Nat \subseteq S
<1> SUFFICES ASSUME Nat \ S # {} PROVE FALSE
  OBVIOUS
<1>1. PICK n \in Nat \ S : \A m \in Nat \ S : n <= m
  BY LeastNumber
<1>2. n - 1 \in Nat /\ n - 1 \in S
  BY <1>1
<1> QED BY <1>1, <1>2

(* Max chooses what it says, from numbers up to n.                         *)
LEMMA MaxIsGreatest ==
  ASSUME NEW n \in Nat, NEW S \in SUBSET (1..n), S # {}
  PROVE  Max(S) \in S /\ \A i \in S : i <= Max(S)
<1> DEFINE T == {n - i : i \in S}
<1>1. \A i \in S : n - i \in Nat
  OBVIOUS
<1>2. T \in SUBSET Nat /\ T # {}
  BY <1>1
<1>3. PICK k \in T : \A m \in T : k <= m
  <2> HIDE DEF T
  <2> QED BY <1>2, LeastNumber
<1>4. PICK j \in S : k = n - j
  BY <1>3
<1>5. \A i \in S : j >= i
  BY <1>3, <1>4
<1>6. \E i \in S : \A j_1 \in S : i >= j_1
  BY <1>5
<1>7. Max(S) \in S /\ \A i \in S : Max(S) >= i
  BY <1>6 DEF Max
<1> QED BY <1>7

(* loop[i] is what has been accepted after i iterations.                   *)
Iterates(loop, n, about, counting, limit) ==
  /\ loop[0] = {}
  /\ \A i \in 1..n : loop[i] = Consider(loop[i - 1], Sorted(about)[i], counting, limit)

(* FoldLeft is the loop.  It applies a function that CHOOSE takes from     *)
(* those which satisfy its recursive equation; that one exists is shown on *)
(* ever larger intervals of iterations.                                    *)
LEMMA LoopSteps ==
  ASSUME NEW about, NEW counting, NEW limit, NEW n \in Nat, DOMAIN Sorted(about) = 1..n
  PROVE  \E loop : Iterates(loop, n, about, counting, limit)
                   /\ NewestFirst(about, counting, limit) = loop[n]
<1> DEFINE D == SUBSET (1..n)
           Step(g, s) == IF s = {} THEN {}
                         ELSE Consider(g[s \ {Max(s)}], Sorted(about)[Max(s)], counting, limit)
           fold == CHOOSE g : g = [s \in D |-> Step(g, s)]
           Good(k, g) == g = [s \in D |-> g[s]] /\ \A s \in D : s \subseteq 1..k => g[s] = Step(g, s)
           Goods == {k \in Nat : \E g : Good(k, g)}
<1>1. NewestFirst(about, counting, limit) = fold[1..n]
  BY DEF NewestFirst, FoldLeft, MapThenFoldSet
<1>2. 0 \in Goods
  <2> DEFINE g == [s \in D |-> {}]
  <2>1. g = [s \in D |-> g[s]]
    OBVIOUS
  <2>2. \A s : s \subseteq 1..0 => s = {}
    OBVIOUS
  <2>3. Good(0, g)
    BY <2>1, <2>2
  <2> HIDE DEF Good
  <2> QED BY <2>3
<1>3. ASSUME NEW k \in Nat, NEW g, Good(k, g)
      PROVE  \E h : Good(k + 1, h)
  <2> DEFINE h == [s \in D |-> IF s \subseteq 1..k THEN g[s] ELSE Step(g, s)]
  <2>1. ASSUME NEW s \in D, s \subseteq 1..(k + 1)
        PROVE  h[s] = Step(h, s)
    <3>1. CASE s = {}
      BY <1>3, <3>1
    <3>2. CASE s # {}
      <4>1. Max(s) \in s /\ \A i \in s : i <= Max(s)
        BY <3>2, MaxIsGreatest
      <4>2. ASSUME NEW i \in s, i # Max(s)
            PROVE  i \in 1..k
        <5>1. Max(s) \in 1..(k + 1) /\ i \in 1..(k + 1) /\ i <= Max(s)
          BY <2>1, <4>1
        <5> HIDE DEF Max
        <5> QED BY <4>2, <5>1
      <4>3. s \ {Max(s)} \subseteq 1..k /\ s \ {Max(s)} \in D
        BY <4>2
      <4>4. h[s \ {Max(s)}] = g[s \ {Max(s)}]
        BY <4>3
      <4>5. h[s] = Step(g, s)
        BY <1>3, <2>1
      <4> QED BY <4>4, <4>5
    <3> QED BY <3>1, <3>2
  <2>2. h = [s \in D |-> h[s]]
    OBVIOUS
  <2>3. Good(k + 1, h)
    <3> HIDE DEF h, Step
    <3> QED BY <2>1, <2>2
  <2> HIDE DEF Good
  <2> QED BY <2>3
<1>4. n \in Goods
  <2>1. \A k \in Nat : k \in Goods => k + 1 \in Goods
    <3> HIDE DEF Good
    <3> QED BY <1>3
  <2> HIDE DEF Goods
  <2> QED BY <1>2, <2>1, Induction
<1>5. PICK g : Good(n, g)
  <2> HIDE DEF Good
  <2> QED BY <1>4
<1>6. g = [s \in D |-> Step(g, s)]
  <2> HIDE DEF Step
  <2> QED BY <1>5
<1>7. fold = [s \in D |-> Step(fold, s)]
  <2> HIDE DEF Step
  <2> QED BY <1>6
<1>8. \A s \in D : fold[s] = Step(fold, s)
  <2> HIDE DEF fold, Step
  <2> QED BY <1>7
<1> DEFINE loop == [i \in 0..n |-> fold[1..i]]
<1> HIDE DEF fold
<1>9. loop[0] = {}
  <2>1. 1..0 = {}
    OBVIOUS
  <2>2. loop[0] = fold[{}]
    BY <2>1
  <2> QED BY <1>8, <2>2
<1>10. ASSUME NEW i \in 1..n
       PROVE  loop[i] = Consider(loop[i - 1], Sorted(about)[i], counting, limit)
  <2>1. 1..i \in D /\ 1..i # {} /\ i - 1 \in 0..n
    OBVIOUS
  <2>2. Max(1..i) = i
    <3>1. Max(1..i) \in 1..i /\ \A j \in 1..i : j <= Max(1..i)
      BY <2>1, MaxIsGreatest
    <3> QED BY <3>1
  <2>3. (1..i) \ {i} = 1..(i - 1)
    OBVIOUS
  <2>4. fold[1..i] = Consider(fold[1..(i - 1)], Sorted(about)[i], counting, limit)
    BY <1>8, <2>1, <2>2, <2>3
  <2> QED BY <2>1, <2>4
<1>11. NewestFirst(about, counting, limit) = loop[n]
  BY <1>1
<1> HIDE DEF loop
<1> QED BY <1>9, <1>10, <1>11 DEF Iterates

-----------------------------------------------------------------------------

(* Those of S that the loop meets before a.                                *)
Ahead(a, S) == {b \in S : Newer(b, a)}

(* Newer orders S, finitely many attestations, in one line.                *)
Ordered(S) ==
  /\ IsFiniteSet(S)
  /\ \A a \in S : ~Newer(a, a)
  /\ \A a, b \in S : a = b \/ Newer(a, b) \/ Newer(b, a)
  /\ \A a, b, c \in S : Newer(a, b) /\ Newer(b, c) => Newer(a, c)

(* The position of each in that line.                                      *)
Rank(S) == [a \in S |-> Cardinality(Ahead(a, S)) + 1]

(* Positions number the elements of S and order them as Newer does.        *)
LEMMA RanksOrder ==
  ASSUME NEW S, Ordered(S)
  PROVE  /\ Rank(S) \in Bijection(S, 1..Cardinality(S))
         /\ \A a, b \in S : Newer(a, b) <=> Rank(S)[a] < Rank(S)[b]
<1> DEFINE n == Cardinality(S)
           rank == Rank(S)
<1>1. n \in Nat /\ IsFiniteSet(S)
  BY FS_CardinalityType DEF Ordered
<1>2. ASSUME NEW T \in SUBSET S
      PROVE  IsFiniteSet(T) /\ Cardinality(T) \in Nat /\ Cardinality(T) <= n
  BY <1>1, FS_Subset, FS_CardinalityType
<1>3. ASSUME NEW T \in SUBSET S, NEW U \in SUBSET T, U # T
      PROVE  Cardinality(U) < Cardinality(T)
  <2>1. IsFiniteSet(T) /\ Cardinality(T) \in Nat /\ Cardinality(U) \in Nat
    BY <1>2
  <2>2. Cardinality(U) <= Cardinality(T) /\ Cardinality(T) # Cardinality(U)
    BY <1>3, <2>1, FS_Subset
  <2> QED BY <2>1, <2>2
<1>4. \A a \in S : rank[a] = Cardinality(Ahead(a, S)) + 1 /\ Cardinality(Ahead(a, S)) \in Nat
  BY <1>2 DEF Rank, Ahead
<1>5. \A a \in S : rank[a] \in 1..n
  <2>1. \A a \in S : a \notin Ahead(a, S) /\ Ahead(a, S) \subseteq S
    BY DEF Ahead, Ordered
  <2>2. \A a \in S : Cardinality(Ahead(a, S)) < n
    BY <1>3, <2>1
  <2> QED BY <1>1, <1>4, <2>2
<1>6. ASSUME NEW a \in S, NEW b \in S, Newer(a, b)
      PROVE  rank[a] < rank[b]
  <2>1. Ahead(a, S) \subseteq Ahead(b, S) /\ Ahead(b, S) \subseteq S
    BY <1>6 DEF Ahead, Ordered
  <2>2. a \in Ahead(b, S) /\ a \notin Ahead(a, S)
    BY <1>6 DEF Ahead, Ordered
  <2>3. Cardinality(Ahead(a, S)) < Cardinality(Ahead(b, S))
    BY <1>3, <2>1, <2>2
  <2> QED BY <1>4, <2>3
<1>7. rank \in [S -> 1..n]
  BY <1>5 DEF Rank
<1>8. ASSUME NEW a \in S, NEW b \in S, rank[a] < rank[b]
      PROVE  Newer(a, b)
  <2>1. rank[a] \in Nat /\ rank[b] \in Nat
    BY <1>5
  <2>2. a # b /\ ~Newer(b, a)
    <3> HIDE DEF rank
    <3> QED BY <1>6, <1>8, <2>1
  <2> QED BY <2>2 DEF Ordered
<1>9. ASSUME NEW a \in S, NEW b \in S, a # b
      PROVE  rank[a] # rank[b]
  <2>1. Newer(a, b) \/ Newer(b, a)
    BY <1>9 DEF Ordered
  <2>2. rank[a] < rank[b] \/ rank[b] < rank[a]
    BY <1>6, <2>1
  <2>3. rank[a] \in Nat /\ rank[b] \in Nat
    BY <1>5
  <2> QED BY <2>2, <2>3
<1> HIDE DEF rank
<1>10. rank \in Injection(S, 1..n)
  BY <1>7, <1>9 DEF Injection, IsInjective
<1>11. rank \in Surjection(S, 1..n)
  <2>1. IsFiniteSet(1..n) /\ Cardinality(1..n) = n
    BY <1>1, FS_Interval
  <2> QED BY <1>10, <2>1, FS_Injection
<1> QED BY <1>6, <1>8, <1>10, <1>11 DEF Bijection, rank

(* Those with fewer than k ahead of them are k, or all there are.          *)
LEMMA FirstOnes ==
  ASSUME NEW S, Ordered(S), NEW k \in Nat
  PROVE  LET first == {a \in S : Cardinality(Ahead(a, S)) < k}
         IN  Cardinality(first) = IF k <= Cardinality(S) THEN k ELSE Cardinality(S)
<1> DEFINE n == Cardinality(S)
           rank == Rank(S)
           first == {a \in S : Cardinality(Ahead(a, S)) < k}
           m == IF k <= n THEN k ELSE n
           part == [a \in first |-> rank[a]]
<1>1. n \in Nat /\ rank \in Bijection(S, 1..n)
  BY RanksOrder, FS_CardinalityType DEF Ordered
<1>2. m \in Nat
  BY <1>1
<1>3. \A a \in S : rank[a] \in 1..n /\ rank[a] = Cardinality(Ahead(a, S)) + 1
  BY <1>1 DEF Bijection, Injection, Rank
<1>4. \A a \in S : Cardinality(Ahead(a, S)) \in Nat
  <2>1. \A a \in S : Ahead(a, S) \subseteq S
    BY DEF Ahead
  <2> QED BY <2>1, FS_Subset, FS_CardinalityType DEF Ordered
<1>5. first = {a \in S : rank[a] \in 1..m}
  <2> HIDE DEF rank
  <2> QED BY <1>1, <1>3, <1>4
<1> HIDE DEF first, rank, m
<1>6. part \in Bijection(first, 1..m)
  <2>1. part \in [first -> 1..m]
    BY <1>5
  <2>2. \A a, b \in first : a # b => part[a] # part[b]
    BY <1>1, <1>5 DEF Bijection, Injection, IsInjective
  <2>3. ASSUME NEW i \in 1..m
        PROVE  \E a \in first : part[a] = i
    <3>1. i \in 1..n
      BY <1>1 DEF m
    <3>2. PICK a \in S : rank[a] = i
      BY <1>1, <3>1 DEF Bijection, Surjection
    <3> QED BY <1>5, <3>2
  <2> HIDE DEF part
  <2> QED BY <2>1, <2>2, <2>3 DEF Bijection, Injection, IsInjective, Surjection
<1>7. IsFiniteSet(first)
  BY FS_Subset DEF Ordered, first
<1>8. Cardinality(1..m) = Cardinality(first)
  <2>1. ExistsBijection(first, 1..m)
    BY <1>6 DEF ExistsBijection
  <2> QED BY <1>7, <2>1, FS_Bijection
<1>9. Cardinality(1..m) = m
  BY <1>2, FS_Interval
<1> QED BY <1>8, <1>9 DEF first, m

(* Sorted exists: it lists S without repetition, the newer ones first.     *)
LEMMA SortedSorts ==
  ASSUME NEW S, Ordered(S)
  PROVE  LET order == Sorted(S)  n == Cardinality(S)
         IN  /\ n \in Nat /\ DOMAIN order = 1..n
             /\ \A i \in 1..n : order[i] \in S
             /\ \A a \in S : \E i \in 1..n : order[i] = a
             /\ \A i, j \in 1..n : i < j <=> Newer(order[i], order[j])
<1> DEFINE n == Cardinality(S)
           rank == Rank(S)
           InOrder(order) == \A i, j \in DOMAIN order : i < j => Newer(order[i], order[j])
           found == [i \in 1..n |-> CHOOSE a \in S : rank[a] = i]
<1>1. /\ n \in Nat /\ rank \in Bijection(S, 1..n)
      /\ \A a, b \in S : Newer(a, b) <=> rank[a] < rank[b]
  BY RanksOrder, FS_CardinalityType DEF Ordered
<1> HIDE DEF rank
<1>2. \A i \in 1..n : found[i] \in S /\ rank[found[i]] = i
  BY <1>1 DEF Bijection, Surjection
<1>3. found \in SetToSeqs(S)
  <2>1. found \in [1..n -> S]
    BY <1>2
  <2>2. \A i, j \in 1..n : i # j => found[i] # found[j]
    BY <1>2
  <2> HIDE DEF found
  <2> QED BY <2>1, <2>2 DEF SetToSeqs
<1>4. InOrder(found)
  <2>1. DOMAIN found = 1..n
    OBVIOUS
  <2> HIDE DEF found
  <2> QED BY <1>1, <1>2, <2>1
<1>5. Sorted(S) \in SetToSeqs(S) /\ InOrder(Sorted(S))
  <2> HIDE DEF found
  <2> QED BY <1>3, <1>4 DEF Sorted
<1> DEFINE order == Sorted(S)
<1> HIDE DEF order
<1>6. order \in [1..n -> S] /\ \A i, j \in 1..n : i # j => order[i] # order[j]
  BY <1>5 DEF SetToSeqs, order
<1>7. order \in Surjection(1..n, S)
  <2>1. order \in Injection(1..n, S)
    BY <1>6 DEF Injection, IsInjective
  <2>2. IsFiniteSet(S) /\ IsFiniteSet(1..n) /\ Cardinality(1..n) = n
    BY <1>1, FS_Interval DEF Ordered
  <2> QED BY <2>1, <2>2, FS_Injection
<1>8. \A i, j \in 1..n : i < j => Newer(order[i], order[j])
  BY <1>5, <1>6 DEF order
<1>9. ASSUME NEW i \in 1..n, NEW j \in 1..n, Newer(order[i], order[j])
      PROVE  i < j
  <2>1. order[i] \in S /\ order[j] \in S
    BY <1>6
  <2>2. i # j /\ ~(j < i)
    BY <1>8, <1>9, <2>1 DEF Ordered
  <2> QED BY <1>1, <2>2
<1>10. \A a \in S : \E i \in 1..n : order[i] = a
  BY <1>7 DEF Surjection
<1> QED BY <1>1, <1>6, <1>8, <1>9, <1>10 DEF order

-----------------------------------------------------------------------------

(* The newer attestations of its issuer, which come before it.             *)
Rivals(a, counting) == {b \in counting : b.issuer = a.issuer /\ Newer(b, a)}

(* A part of a line is a line.                                             *)
LEMMA SubsetOrdered ==
  ASSUME NEW S, Ordered(S), NEW T \in SUBSET S
  PROVE  Ordered(T)
  BY FS_Subset DEF Ordered

(* What is ahead of a rival of a is again a rival of a.                    *)
LEMMA RivalsAhead ==
  ASSUME NEW counting, Ordered(counting), NEW a \in counting, NEW b \in Rivals(a, counting)
  PROVE  Rivals(b, counting) = Ahead(b, Rivals(a, counting))
  BY DEF Rivals, Ahead, Ordered

(* After each iteration the loop has accepted, of what it met, those with  *)
(* fewer rivals than the limit.  When it meets a, the mates of a that it   *)
(* has accepted are the first of its rivals, and they are as many as the   *)
(* limit exactly when the rivals are.                                      *)
LEMMA LoopAcceptsNewest ==
  ASSUME NEW about, Ordered(about), NEW counting \in SUBSET about, NEW limit \in Nat
  PROVE  NewestFirst(about, counting, limit) =
           {a \in counting : Cardinality(Rivals(a, counting)) < limit}
<1> DEFINE order == Sorted(about)
           n == Cardinality(about)
           Newest == {a \in counting : Cardinality(Rivals(a, counting)) < limit}
           Upto(i) == {a \in Newest : \E j \in 1..i : order[j] = a}
<1>1. /\ n \in Nat /\ DOMAIN order = 1..n
      /\ \A i \in 1..n : order[i] \in about
      /\ \A a \in about : \E i \in 1..n : order[i] = a
      /\ \A i, j \in 1..n : i < j <=> Newer(order[i], order[j])
  BY SortedSorts
<1>2. PICK loop : /\ Iterates(loop, n, about, counting, limit)
                  /\ NewestFirst(about, counting, limit) = loop[n]
  BY <1>1, LoopSteps
<1> DEFINE Right == {i \in Nat : i <= n => loop[i] = Upto(i)}
<1>3. 0 \in Right
  BY <1>2 DEF Iterates
<1>4. ASSUME NEW i \in Nat, i \in Right
      PROVE  i + 1 \in Right
  <2> SUFFICES ASSUME i + 1 <= n
               PROVE  loop[i + 1] = Upto(i + 1)
    OBVIOUS
  <2> DEFINE a == order[i + 1]
             mates == {b \in loop[i] : b.issuer = a.issuer}
             rivals == Rivals(a, counting)
  <2>1. i + 1 \in 1..n /\ (i + 1) - 1 = i /\ loop[i] = Upto(i)
    BY <1>1, <1>4
  <2>2. loop[i + 1] = Consider(loop[i], a, counting, limit)
    BY <1>2, <2>1 DEF Iterates
  <2>3. Upto(i + 1) = Upto(i) \cup ({a} \cap Newest)
    <3>1. \A j : j \in 1..(i + 1) <=> j \in 1..i \/ j = i + 1
      BY <1>4
    <3> HIDE DEF order, Newest
    <3> QED BY <3>1
  <2>4. CASE a \notin counting
    BY <2>1, <2>2, <2>3, <2>4 DEF Consider
  <2>5. CASE a \in counting
    <3>1. rivals \subseteq counting /\ Ordered(counting) /\ Ordered(rivals)
      <4>1. Ordered(counting)
        BY SubsetOrdered
      <4> QED BY <4>1, SubsetOrdered DEF Rivals
    <3>2. mates = {b \in rivals : Cardinality(Rivals(b, counting)) < limit}
      <4>1. ASSUME NEW b \in counting
            PROVE  (\E j \in 1..i : order[j] = b) <=> Newer(b, a)
        <5>1. PICK k \in 1..n : order[k] = b
          BY <1>1
        <5>2. k < i + 1 <=> Newer(b, a)
          BY <1>1, <2>1, <5>1
        <5>3. \A j \in 1..i : j \in 1..n /\ j < i + 1
          BY <1>1, <2>1
        <5>4. ASSUME NEW j \in 1..i, order[j] = b
              PROVE  Newer(b, a)
          BY <1>1, <2>1, <5>3, <5>4
        <5>5. ASSUME Newer(b, a)
              PROVE  k \in 1..i
          BY <5>2, <5>5
        <5> QED BY <5>1, <5>4, <5>5
      <4> QED BY <2>1, <4>1 DEF Rivals
    <3>3. mates = {b \in rivals : Cardinality(Ahead(b, rivals)) < limit}
      BY <3>1, <3>2, <2>5, RivalsAhead
    <3>4. /\ Cardinality(mates) = IF limit <= Cardinality(rivals) THEN limit ELSE Cardinality(rivals)
          /\ Cardinality(rivals) \in Nat
      <4> HIDE DEF mates, rivals
      <4> QED BY <3>1, <3>3, FirstOnes, FS_CardinalityType DEF Ordered
    <3>5. Cardinality(mates) < limit <=> Cardinality(rivals) < limit
      <4> HIDE DEF mates, rivals
      <4> QED BY <3>4
    <3> QED BY <2>1, <2>2, <2>3, <2>5, <3>5 DEF Consider
  <2> QED BY <2>4, <2>5
<1>5. n \in Right
  <2> HIDE DEF Right
  <2> QED BY <1>1, <1>3, <1>4, Induction
<1>6. Upto(n) = Newest
  BY <1>1
<1> QED BY <1>1, <1>2, <1>5, <1>6

(* Ids are digests: of two attestations of one time one has the lower id.  *)
LEMMA AboutOrdered ==
  ASSUME ReputationTypeOK, NEW s \in Stores, NEW n \in Networks, NEW m \in Machines
  PROVE  Ordered(About(s, n, m))
<1>1. About(s, n, m) \subseteq Artifacts /\ IsFiniteSet(About(s, n, m))
  BY SizesAreNumbers, FS_Subset DEF About, ReputationTypeOK
<1>2. \A a \in About(s, n, m) : a.issued_at \in Int /\ a.id \in Int
  <2>1. \A a \in About(s, n, m) : a \in Attestation
    BY <1>1, WellFormedArtifacts DEF About, Revocation
  <2> QED BY <2>1, ReputationConstants DEF Attestation, Dates
<1>3. \A a, b \in About(s, n, m) : a.id = b.id => a = b
  BY <1>1, ReputationConstants
<1> QED BY <1>1, <1>2, <1>3 DEF Ordered, Newer

(* What counts for an evaluator, of which the loop accepts the newest.      *)
Counting(s, n, m, p, t) == {a \in About(s, n, m) : Counts(s, p, a, t)}

(* An evaluator's loop goes through a line, whatever its store holds.      *)
LEMMA AcceptedNewest ==
  ASSUME ReputationTypeOK, NEW s \in Stores, NEW n \in Networks, NEW m \in Machines,
         NEW p \in Policies, NEW t \in Dates
  PROVE  LET counting == Counting(s, n, m, p, t)
         IN  /\ Ordered(counting)
             /\ Accepted(s, n, m, p, t) =
                  {a \in counting : Cardinality(Rivals(a, counting)) < p.max_per_issuer}
<1> DEFINE counting == Counting(s, n, m, p, t)
<1>1. p.max_per_issuer \in Nat
  BY PoliciesWellFormed DEF Policy
<1>2. Ordered(About(s, n, m)) /\ counting \in SUBSET About(s, n, m)
  BY AboutOrdered DEF Counting
<1>3. Ordered(counting)
  BY <1>2, SubsetOrdered
<1> HIDE DEF counting
<1>4. NewestFirst(About(s, n, m), counting, p.max_per_issuer) =
        {a \in counting : Cardinality(Rivals(a, counting)) < p.max_per_issuer}
  BY <1>1, <1>2, LoopAcceptsNewest
<1> QED BY <1>3, <1>4 DEF Accepted, Counting, counting

(* However the attestations that count are mixed with others, the single   *)
(* pass accepts of each trusted issuer its newest, up to the limit.        *)
THEOREM LoopCountsNewest == ReputationSpec => []NewestCounted
<1>1. ReputationTypeOK => NewestCounted
  <2> SUFFICES ASSUME ReputationTypeOK, NEW s \in Stores, NEW n \in Networks, NEW m \in Machines,
                      NEW p \in Policies, NEW t \in Dates
               PROVE  Accepted(s, n, m, p, t) =
                        {a \in Counting(s, n, m, p, t) :
                           Cardinality(Rivals(a, Counting(s, n, m, p, t))) < p.max_per_issuer}
    BY DEF NewestCounted, Counting, Rivals
  <2> QED BY AcceptedNewest
<1> QED BY <1>1, ReputationTypeCorrect, PTL

-----------------------------------------------------------------------------

(* What is of issuer i.                                                    *)
Of(i, S) == {a \in S : a.issuer = i}

(* What an evaluator counts is of its trusted issuers; each contributes    *)
(* max_per_issuer, or all that counts when it has fewer, neither more nor  *)
(* less.  So however many attestations and identities there are, the count *)
(* is within max_per_issuer for each issuer that contributed               *)
(* (docs/reputation-policy.md, max_per_issuer).                            *)
IssuersBounded ==
  \A s \in Stores, n \in Networks, m \in Machines, p \in Policies, t \in Dates :
     LET counting == Counting(s, n, m, p, t)
         accepted == Accepted(s, n, m, p, t)
         issuers  == {a.issuer : a \in accepted}
     IN  /\ issuers \subseteq p.trusted_issuers
         /\ \A i \in Machines :
              Cardinality(Of(i, accepted)) =
                IF p.max_per_issuer <= Cardinality(Of(i, counting)) THEN p.max_per_issuer
                ELSE Cardinality(Of(i, counting))
         /\ Cardinality(accepted) <= Cardinality(issuers) * p.max_per_issuer

(* Among its own, the rivals of an attestation are those ahead of it.      *)
LEMMA OneIssuersShare ==
  ASSUME NEW counting, Ordered(counting), NEW limit \in Nat, NEW i
  PROVE  LET newest == {a \in counting : Cardinality(Rivals(a, counting)) < limit}
             own    == Of(i, counting)
         IN  Cardinality(Of(i, newest)) = IF limit <= Cardinality(own) THEN limit ELSE Cardinality(own)
<1> DEFINE own == Of(i, counting)
           newest == {a \in counting : Cardinality(Rivals(a, counting)) < limit}
<1>1. Ordered(own)
  BY SubsetOrdered DEF Of
<1>2. \A a \in own : Rivals(a, counting) = Ahead(a, own)
  BY DEF Rivals, Ahead, Of
<1>3. Of(i, newest) = {a \in own : Cardinality(Ahead(a, own)) < limit}
  BY <1>2 DEF Of
<1> HIDE DEF own, newest
<1> QED BY <1>1, <1>3, FirstOnes DEF own, newest

(* Each of the accepted has a place of its own: its issuer and its number. *)
LEMMA AllShares ==
  ASSUME NEW counting, Ordered(counting), NEW limit \in Nat
  PROVE  LET newest  == {a \in counting : Cardinality(Rivals(a, counting)) < limit}
             issuers == {a.issuer : a \in newest}
         IN  Cardinality(newest) <= Cardinality(issuers) * limit
<1> DEFINE newest == {a \in counting : Cardinality(Rivals(a, counting)) < limit}
           issuers == {a.issuer : a \in newest}
           place == [a \in newest |-> <<a.issuer, Cardinality(Rivals(a, counting)) + 1>>]
<1>1. IsFiniteSet(counting) /\ IsFiniteSet(newest)
  BY FS_Subset DEF Ordered
<1>2. \A a \in counting : /\ IsFiniteSet(Rivals(a, counting))
                          /\ Cardinality(Rivals(a, counting)) \in Nat
  BY <1>1, FS_Subset, FS_CardinalityType DEF Rivals
<1>3. ASSUME NEW a \in newest, NEW b \in newest, a.issuer = b.issuer, Newer(a, b)
      PROVE  Cardinality(Rivals(a, counting)) # Cardinality(Rivals(b, counting))
  <2>1. Rivals(a, counting) \subseteq Rivals(b, counting)
    BY <1>3 DEF Rivals, Ordered
  <2>2. a \in Rivals(b, counting) /\ a \notin Rivals(a, counting)
    BY <1>3 DEF Rivals, Ordered
  <2> QED BY <1>2, <2>1, <2>2, FS_Subset
<1>4. place \in Injection(newest, issuers \X (1..limit))
  <2>1. place \in [newest -> issuers \X (1..limit)]
    BY <1>2
  <2>2. ASSUME NEW a \in newest, NEW b \in newest, a # b
        PROVE  place[a] # place[b]
    <3>1. Newer(a, b) \/ Newer(b, a)
      BY <2>2 DEF Ordered
    <3>2. a.issuer = b.issuer => Cardinality(Rivals(a, counting)) # Cardinality(Rivals(b, counting))
      BY <1>3, <3>1
    <3> QED BY <1>2, <3>2
  <2> HIDE DEF place, newest, issuers
  <2> QED BY <2>1, <2>2 DEF Injection, IsInjective
<1>5. IsFiniteSet(issuers)
  <2> DEFINE author == [a \in newest |-> a.issuer]
  <2>1. author \in Surjection(newest, issuers)
    BY DEF Surjection
  <2> HIDE DEF newest, issuers, author
  <2> QED BY <1>1, <2>1, FS_Surjection
<1>6. IsFiniteSet(1..limit) /\ Cardinality(1..limit) = limit
  BY FS_Interval
<1> HIDE DEF place, newest, issuers
<1>7. /\ IsFiniteSet(issuers \X (1..limit))
      /\ Cardinality(issuers \X (1..limit)) = Cardinality(issuers) * limit
  BY <1>5, <1>6, FS_Product
<1>8. Cardinality(newest) <= Cardinality(issuers \X (1..limit))
  BY <1>4, <1>7, FS_Injection
<1> QED BY <1>7, <1>8 DEF newest, issuers

(* No flood of attestations, signed by however many machines, gets more    *)
(* than its issuers' shares into a summary.                                *)
THEOREM IssuersStayBounded == ReputationSpec => []IssuersBounded
<1>1. ReputationTypeOK => IssuersBounded
  <2> SUFFICES ASSUME ReputationTypeOK, NEW s \in Stores, NEW n \in Networks, NEW m \in Machines,
                      NEW p \in Policies, NEW t \in Dates
               PROVE  LET counting == Counting(s, n, m, p, t)
                          accepted == Accepted(s, n, m, p, t)
                          issuers  == {a.issuer : a \in accepted}
                      IN  /\ issuers \subseteq p.trusted_issuers
                          /\ \A i \in Machines :
                               Cardinality(Of(i, accepted)) =
                                 IF p.max_per_issuer <= Cardinality(Of(i, counting))
                                 THEN p.max_per_issuer ELSE Cardinality(Of(i, counting))
                          /\ Cardinality(accepted) <= Cardinality(issuers) * p.max_per_issuer
    BY DEF IssuersBounded
  <2> DEFINE counting == Counting(s, n, m, p, t)
  <2>1. p.max_per_issuer \in Nat
    BY PoliciesWellFormed DEF Policy
  <2>2. \A a \in counting : a.issuer \in p.trusted_issuers
    BY DEF Counting, Counts
  <2> HIDE DEF counting
  <2>3. /\ Ordered(counting)
        /\ Accepted(s, n, m, p, t) =
             {a \in counting : Cardinality(Rivals(a, counting)) < p.max_per_issuer}
    BY AcceptedNewest DEF counting
  <2> QED BY <2>1, <2>2, <2>3, OneIssuersShare, AllShares DEF counting
<1> QED BY <1>1, ReputationTypeCorrect, PTL

-----------------------------------------------------------------------------

(* A step that brings a store only artifacts of issuers the policy does    *)
(* not trust changes nothing in what is accepted under it: the revocations *)
(* of strangers revoke nothing that counts, and their attestations, which  *)
(* the loop meets among the others, take no place.                         *)
StrangersChangeNothing ==
  \A s \in Stores, n \in Networks, m \in Machines, p \in Policies, t \in Dates :
     /\ settlements'[s] = settlements[s]
     /\ \A a \in artifacts'[s] \ artifacts[s] : a.issuer \notin p.trusted_issuers
     => Accepted(s, n, m, p, t)' = Accepted(s, n, m, p, t)

(* What an evaluator accepts depends on its trusted issuers alone.         *)
THEOREM StrangersDoNotCount == ReputationSpec => [][StrangersChangeNothing]_reputationVars
<1>1. ASSUME ReputationTypeOK, NewestCounted, NewestCounted', [ReputationNext]_reputationVars
      PROVE  StrangersChangeNothing
  <2> SUFFICES ASSUME NEW s \in Stores, NEW n \in Networks, NEW m \in Machines,
                      NEW p \in Policies, NEW t \in Dates,
                      settlements'[s] = settlements[s],
                      \A a \in artifacts'[s] \ artifacts[s] : a.issuer \notin p.trusted_issuers
               PROVE  Accepted(s, n, m, p, t)' = Accepted(s, n, m, p, t)
    BY DEF StrangersChangeNothing
  <2>1. artifacts[s] \subseteq artifacts'[s]
    BY <1>1 DEF ReputationNext, reputationVars, Import, Record, ReputationTypeOK
  <2>2. \A a : a.issuer \in p.trusted_issuers => (a \in artifacts'[s] <=> a \in artifacts[s])
    BY <2>1
  <2>3. \A a : a.issuer \in p.trusted_issuers => (Revoked(s, a)' <=> Revoked(s, a))
    BY <2>2 DEF Revoked
  <2>4. Observed(s, n, m)' = Observed(s, n, m)
    BY DEF Observed
  <2>5. Counting(s, n, m, p, t)' = Counting(s, n, m, p, t)
    <3>1. \A a : a \in Counting(s, n, m, p, t)' <=> a \in Counting(s, n, m, p, t)
      BY <2>2, <2>3, <2>4 DEF Counting, Counts, About
    <3> QED BY <3>1 DEF Counting
  <2>6. Accepted(s, n, m, p, t) = {a \in Counting(s, n, m, p, t) :
           Cardinality(Rivals(a, Counting(s, n, m, p, t))) < p.max_per_issuer}
    BY <1>1 DEF NewestCounted, Rivals, Counting
  <2>7. Accepted(s, n, m, p, t)' = {a \in Counting(s, n, m, p, t)' :
           Cardinality(Rivals(a, Counting(s, n, m, p, t)')) < p.max_per_issuer}
    BY <1>1 DEF NewestCounted, Rivals, Counting
  <2> QED BY <2>5, <2>6, <2>7
<1> QED BY <1>1, ReputationTypeCorrect, LoopCountsNewest, PTL DEF ReputationSpec

-----------------------------------------------------------------------------

(***************************************************************************)
(* A step of the bridge is a step of the reputation stores, or leaves them *)
(* alone.  What a call found out stays true while it is interrupted by     *)
(* others, because the ledger never takes back what is spent.              *)
(***************************************************************************)

Stage == {"idle", "verify", "recheck", "record"}

(* A call beyond its first step holds a settled invoice and a binding of   *)
(* its recipient; and after the wallet has answered, a valid one.          *)
CallOK(call) ==
  /\ call.at \in Stage
  /\ call.at # "idle" =>
       /\ call.store \in Stores /\ call.record \in spent /\ call.binding \in Bindings
       /\ Owns(call.binding, call.record.network, call.record.invoice_id)
  /\ call.at \in {"recheck", "record"} => WalletVerifies(call)

PaidFor(e) ==
  /\ [network |-> e.network, txid |-> e.txid, invoice_id |-> e.invoice] \in spent
  /\ BindingTerms[e.binding] =
       [address |-> Recipient[e.invoice], network |-> e.network, machine |-> e.subject,
        identity_signed |-> TRUE, wallet_signature |-> "spend"]
  /\ AddressFacts[Recipient[e.invoice]].network = e.network

CallsInv ==
  /\ DOMAIN bridge = Recorders /\ \A c \in Recorders : CallOK(bridge[c])
  /\ bridge = [c \in Recorders |-> bridge[c]]
  /\ spent \subseteq Billed!Settlement
  /\ EvidenceBacked

(* What was told to be inserted is there.                                  *)
ToldInv ==
  /\ inserted \in Seq(Stores \X Settlement)
  /\ \A i \in DOMAIN inserted : inserted[i][2] \in settlements[inserted[i][1]]
  /\ InsertedOnce

BridgeInv == ReputationTypeOK /\ AttributedOnce /\ CallsInv /\ ToldInv

LEMMA InitEstablishes == BridgeInit => BridgeInv
<1> SUFFICES ASSUME BridgeInit PROVE BridgeInv
  OBVIOUS
<1>1. ReputationTypeOK /\ AttributedOnce
  BY InitIsTyped DEF BridgeInit, ReputationInit, AttributedOnce
<1>2. CallsInv
  BY DEF BridgeInit, Billed!LedgerInit, ReputationInit, CallsInv, CallOK, NoRecording, Stage, EvidenceBacked
<1>3. ToldInv
  BY DEF BridgeInit, ToldInv, InsertedOnce
<1> QED BY <1>1, <1>2, <1>3 DEF BridgeInv

-----------------------------------------------------------------------------

(* The ledger takes nothing back.                                          *)
LEMMA LedgerGrows ==
  ASSUME Billed!LedgerNext, spent \subseteq Billed!Settlement
  PROVE  spent \subseteq spent' /\ spent' \subseteq Billed!Settlement
  BY DEF Billed!LedgerNext, Billed!Lapse, Billed!Issue, Billed!Settle

(* What a call knows survives the growth of the ledger.                    *)
LEMMA KnowledgeLasts ==
  ASSUME spent \subseteq spent', NEW call, CallOK(call)
  PROVE  CallOK(call)'
  BY DEF CallOK, WalletVerifies, BindingValid, Owns

(* What a call that the wallet answered would record is a settlement, and  *)
(* is backed.                                                              *)
LEMMA VerifiedIsBacked ==
  ASSUME NEW call, CallOK(call), call.at = "record", spent \subseteq Billed!Settlement
  PROVE  Evidence(call) \in Settlement /\ PaidFor(Evidence(call))
<1> DEFINE e == Evidence(call)
           terms == BindingTerms[call.binding]
<1>1. /\ call.record \in Billed!Settlement /\ call.record \in spent /\ call.binding \in Bindings
      /\ Owns(call.binding, call.record.network, call.record.invoice_id) /\ WalletVerifies(call)
  BY DEF CallOK
<1>2. /\ call.record.network \in Networks /\ call.record.txid \in TxIds
      /\ call.record.invoice_id \in Invoices
      /\ call.record = [network |-> call.record.network, txid |-> call.record.txid,
                        invoice_id |-> call.record.invoice_id]
  BY <1>1 DEF Billed!Settlement
<1>3. terms \in Binding
  BY <1>1, BridgeConstants
<1>4. /\ e.network = call.record.network /\ e.txid = call.record.txid
      /\ e.invoice = call.record.invoice_id /\ e.binding = call.binding
      /\ e.subject = terms.machine
  BY DEF Evidence
<1>5. e \in Settlement
  BY <1>1, <1>2, <1>3 DEF Evidence, Settlement, Binding
<1>6. /\ terms.address = Recipient[e.invoice] /\ terms.network = e.network
      /\ terms.machine = e.subject /\ terms.identity_signed = TRUE
      /\ terms.wallet_signature = "spend"
      /\ AddressFacts[terms.address].network = terms.network
  BY <1>1, <1>3, <1>4 DEF Owns, WalletVerifies, BindingValid, Binding
<1> HIDE DEF e, terms
<1>7. terms = [address |-> Recipient[e.invoice], network |-> e.network, machine |-> e.subject,
               identity_signed |-> TRUE, wallet_signature |-> "spend"]
  BY <1>3, <1>6 DEF Binding
<1> QED BY <1>1, <1>2, <1>4, <1>5, <1>6, <1>7 DEF PaidFor, e, terms

(* The state of one call changes, and neither the stores nor what was      *)
(* told do.                                                                *)
LEMMA OneCallMoves ==
  ASSUME BridgeInv, NEW c \in Recorders, NEW call,
         bridge' = [bridge EXCEPT ![c] = call], CallOK(call),
         UNCHANGED <<reputationVars, ledgerVars, inserted>>
  PROVE  BridgeInv'
<1>1. UNCHANGED <<artifacts, settlements, offered, spent, inserted>>
  BY DEF reputationVars, ledgerVars
<1>2. ReputationTypeOK' /\ AttributedOnce' /\ ToldInv'
  BY <1>1 DEF BridgeInv, ReputationTypeOK, AttributedOnce, ToldInv, InsertedOnce
<1>3. EvidenceBacked' /\ (spent \subseteq Billed!Settlement)'
  BY <1>1 DEF BridgeInv, CallsInv, EvidenceBacked
<1>4. CallOK(call)' /\ \A d \in Recorders : CallOK(bridge[d])'
  <2>1. CallOK(call)'
    BY <1>1, KnowledgeLasts
  <2>2. ASSUME NEW d \in Recorders PROVE CallOK(bridge'[d])
    BY DEF BridgeInv, CallsInv
  <2> QED BY <1>1, <2>1, <2>2 DEF CallOK, WalletVerifies, BindingValid, Owns
<1>5. DOMAIN bridge' = Recorders /\ bridge' = [d \in Recorders |-> bridge'[d]]
  BY DEF BridgeInv, CallsInv
<1> QED BY <1>2, <1>3, <1>4, <1>5 DEF BridgeInv, CallsInv

-----------------------------------------------------------------------------

(* Recording what a call has verified.                                     *)
LEMMA Recording ==
  ASSUME BridgeInv, NEW c \in Recorders, RecordEvidence(c)
  PROVE  BridgeInv' /\ ReputationNext
<1> DEFINE call == bridge[c]
           s == call.store
           e == Evidence(call)
<1>1. CallOK(call) /\ call.at = "record"
  BY DEF RecordEvidence, BridgeInv, CallsInv
<1>2. e \in Settlement /\ PaidFor(e) /\ s \in Stores
  BY <1>1, VerifiedIsBacked DEF BridgeInv, CallsInv, CallOK
<1>3. /\ Record(s, e) /\ bridge' = [bridge EXCEPT ![c] = NoRecording] /\ spent' = spent
      /\ \/ inserted' = IF Recordable(s, e) THEN Append(inserted, <<s, e>>) ELSE inserted
         \/ inserted' = inserted
  BY DEF RecordEvidence, ledgerVars
<1> HIDE DEF call, s, e
<1>4. ReputationNext
  BY <1>2, <1>3 DEF ReputationNext
<1>5. ReputationTypeOK' /\ AttributedOnce'
  BY <1>4, StepIsTyped, StepAttributesOnce DEF BridgeInv
<1>6. \A r \in Stores : /\ settlements[r] \subseteq settlements'[r]
                        /\ settlements'[r] \subseteq settlements[r] \cup {e}
  BY <1>2, <1>3 DEF Record, BridgeInv, ReputationTypeOK
<1>7. EvidenceBacked'
  <2>1. \A r \in Stores : \A old \in settlements'[r] : PaidFor(old)
    BY <1>2, <1>6 DEF BridgeInv, CallsInv, EvidenceBacked, PaidFor
  <2> QED BY <1>3, <2>1 DEF EvidenceBacked, PaidFor
<1>8. CallsInv'
  <2>1. CallOK(NoRecording)
    BY DEF CallOK, NoRecording, Stage
  <2>2. \A d \in Recorders : CallOK(bridge'[d])
    BY <1>3, <2>1 DEF BridgeInv, CallsInv
  <2>3. \A d \in Recorders : CallOK(bridge[d])'
    BY <1>3, <2>2 DEF CallOK, WalletVerifies, BindingValid, Owns
  <2>4. DOMAIN bridge' = Recorders /\ bridge' = [d \in Recorders |-> bridge'[d]]
    BY <1>3 DEF BridgeInv, CallsInv
  <2> QED BY <1>3, <1>7, <2>3, <2>4 DEF BridgeInv, CallsInv
<1>9. ToldInv'
  <2>1. CASE inserted' = inserted
    BY <1>6, <2>1 DEF BridgeInv, ToldInv, InsertedOnce
  <2>2. CASE Recordable(s, e) /\ inserted' = Append(inserted, <<s, e>>)
    <3> DEFINE n == Len(inserted)
    <3>1. /\ inserted \in Seq(Stores \X Settlement) /\ n \in Nat /\ DOMAIN inserted = 1..n
          /\ <<s, e>> \in Stores \X Settlement
      BY <1>2 DEF BridgeInv, ToldInv
    <3>2. /\ inserted' \in Seq(Stores \X Settlement) /\ DOMAIN inserted' = 1..(n + 1)
          /\ \A i \in 1..n : inserted'[i] = inserted[i]
          /\ inserted'[n + 1] = <<s, e>>
      BY <2>2, <3>1
    <3>3. \A i \in 1..n : inserted[i] \in Stores \X Settlement
      BY <3>1
    <3> HIDE DEF n
    <3>4. \A i \in DOMAIN inserted' : i \in 1..n \/ i = n + 1
      BY <3>1, <3>2
    <3>5. \A i \in 1..n :
             /\ inserted[i][1] \in Stores
             /\ inserted[i][2] \in settlements[inserted[i][1]]
      BY <3>1, <3>3 DEF BridgeInv, ToldInv
    <3>6. e \in settlements'[s]
      BY <1>2, <1>3, <2>2 DEF Record, BridgeInv, ReputationTypeOK
    <3>7. \A i \in DOMAIN inserted' : inserted'[i][2] \in settlements'[inserted'[i][1]]
      BY <1>6, <3>2, <3>4, <3>5, <3>6
    <3>8. \A i \in 1..n :
             ~(/\ inserted[i][1] = s /\ inserted[i][2].network = e.network
               /\ inserted[i][2].txid = e.txid)
      BY <2>2, <3>5 DEF Recordable, Attributed
    <3>9. \A i, j \in 1..n :
             /\ inserted[i][1] = inserted[j][1]
             /\ inserted[i][2].network = inserted[j][2].network
             /\ inserted[i][2].txid = inserted[j][2].txid
             => i = j
      BY <3>1 DEF BridgeInv, ToldInv, InsertedOnce
    <3>10. InsertedOnce'
      BY <3>2, <3>4, <3>8, <3>9 DEF InsertedOnce
    <3> QED BY <3>2, <3>7, <3>10 DEF ToldInv
  <2> QED BY <1>3, <2>1, <2>2
<1> QED BY <1>4, <1>5, <1>8, <1>9 DEF BridgeInv

LEMMA StepPreserves ==
  ASSUME BridgeInv, [BridgeNext]_bridgeVars
  PROVE  BridgeInv' /\ [ReputationNext]_reputationVars /\ [Billed!LedgerNext]_ledgerVars
<1>1. ASSUME NEW c \in Recorders, NEW s \in Stores, NEW rec \in spent, NEW b \in Bindings,
             BeginRecord(c, s, rec, b)
      PROVE  BridgeInv' /\ UNCHANGED <<reputationVars, ledgerVars>>
  <2> DEFINE call == [at |-> "verify", store |-> s, record |-> rec, binding |-> b]
  <2>1. CallOK(call)
    BY <1>1 DEF BeginRecord, CallOK, Stage
  <2>2. bridge' = [bridge EXCEPT ![c] = call] /\ UNCHANGED <<reputationVars, ledgerVars, inserted>>
    BY <1>1 DEF BeginRecord
  <2> HIDE DEF call
  <2> QED BY <2>1, <2>2, OneCallMoves
<1>2. ASSUME NEW c \in Recorders, NativeVerified(c) \/ Recheck(c)
      PROVE  BridgeInv' /\ UNCHANGED <<reputationVars, ledgerVars>>
  <2>1. PICK place \in {"recheck", "record"} :
          /\ bridge' = [bridge EXCEPT ![c].at = place]
          /\ UNCHANGED <<reputationVars, ledgerVars, inserted>>
          /\ WalletVerifies(bridge[c]) /\ bridge[c].at # "idle"
    BY <1>2 DEF NativeVerified, Recheck, BridgeInv, CallsInv, CallOK
  <2> DEFINE call == [bridge[c] EXCEPT !.at = place]
  <2>2. bridge' = [bridge EXCEPT ![c] = call]
    BY <2>1
  <2>3. CallOK(call)
    <3>1. CallOK(bridge[c])
      BY DEF BridgeInv, CallsInv
    <3> QED BY <2>1, <3>1 DEF CallOK, WalletVerifies, Stage
  <2> HIDE DEF call
  <2> QED BY <2>1, <2>2, <2>3, OneCallMoves
<1>3. ASSUME NEW c \in Recorders, RecordEvidence(c)
      PROVE  BridgeInv' /\ ReputationNext /\ UNCHANGED ledgerVars
  BY <1>3, Recording DEF RecordEvidence
<1>4. ASSUME NEW c \in Recorders, RecordingInterrupted(c)
      PROVE  BridgeInv' /\ UNCHANGED <<reputationVars, ledgerVars>>
  <2>1. CallOK(NoRecording)
    BY DEF CallOK, NoRecording, Stage
  <2> QED BY <1>4, <2>1, OneCallMoves DEF RecordingInterrupted
<1>5. CASE LedgerStep
  <2>1. spent \subseteq spent' /\ spent' \subseteq Billed!Settlement
    BY <1>5, LedgerGrows DEF LedgerStep, BridgeInv, CallsInv
  <2>2. UNCHANGED <<artifacts, settlements, offered, bridge, inserted>>
    BY <1>5 DEF LedgerStep, reputationVars
  <2>3. ReputationTypeOK' /\ AttributedOnce' /\ ToldInv'
    BY <2>2 DEF BridgeInv, ReputationTypeOK, AttributedOnce, ToldInv, InsertedOnce
  <2>4. EvidenceBacked'
    BY <2>1, <2>2 DEF BridgeInv, CallsInv, EvidenceBacked
  <2>5. \A c \in Recorders : CallOK(bridge[c])'
    BY <2>1, <2>2 DEF BridgeInv, CallsInv, CallOK, WalletVerifies, BindingValid, Owns
  <2> QED BY <1>5, <2>1, <2>2, <2>3, <2>4, <2>5 DEF BridgeInv, CallsInv, LedgerStep
<1>6. ASSUME NEW s \in Stores, NEW a \in Artifacts, ImportStep(s, a)
      PROVE  BridgeInv' /\ ReputationNext /\ UNCHANGED ledgerVars
  <2>1. PICK n \in Networks : Import(s, a, n)
    BY <1>6 DEF ImportStep
  <2>2. ReputationNext
    BY <2>1 DEF ReputationNext
  <2>3. UNCHANGED <<settlements, spent, bridge, inserted>> /\ UNCHANGED ledgerVars
    BY <1>6, <2>1 DEF ImportStep, Import, ledgerVars
  <2>4. ReputationTypeOK' /\ AttributedOnce'
    BY <2>2, StepIsTyped, StepAttributesOnce DEF BridgeInv
  <2>5. ToldInv' /\ CallsInv'
    BY <2>3 DEF BridgeInv, ToldInv, InsertedOnce, CallsInv, CallOK, WalletVerifies, BindingValid,
                Owns, EvidenceBacked
  <2> QED BY <2>2, <2>3, <2>4, <2>5 DEF BridgeInv
<1>7. CASE UNCHANGED bridgeVars
  <2>1. UNCHANGED <<artifacts, settlements, offered, spent, bridge, inserted>>
    BY <1>7 DEF bridgeVars, reputationVars, ledgerVars
  <2>2. BridgeInv'
    BY <2>1 DEF BridgeInv, ReputationTypeOK, AttributedOnce, ToldInv, InsertedOnce, CallsInv,
                CallOK, WalletVerifies, BindingValid, Owns, EvidenceBacked
  <2> QED BY <1>7, <2>2 DEF bridgeVars
<1> QED BY <1>1, <1>2, <1>3, <1>4, <1>5, <1>6, <1>7 DEF BridgeNext, LedgerStep, Billed!ledgerVars, ledgerVars

-----------------------------------------------------------------------------

(* What calls know, what stores hold and what was told fit always.         *)
THEOREM BridgeInvariant == BridgeSpec => []BridgeInv
<1>1. BridgeInv /\ [BridgeNext]_bridgeVars => BridgeInv'
  BY StepPreserves
<1> QED BY <1>1, InitEstablishes, PTL DEF BridgeSpec

(* The bridge uses the reputation stores by their operations alone, so     *)
(* that what is proved of them holds when evidence comes from a ledger.    *)
THEOREM BridgeImplementsStores == BridgeSpec => ReputationSpec
<1>1. BridgeInit => ReputationInit
  BY DEF BridgeInit
<1>2. BridgeInv /\ [BridgeNext]_bridgeVars => [ReputationNext]_reputationVars
  BY StepPreserves
<1> QED BY <1>1, <1>2, BridgeInvariant, PTL DEF BridgeSpec, ReputationSpec

(* What a store counts is a paid invoice of the ledger, paid to an address *)
(* that machine and wallet both signed to be the subject's.                *)
THEOREM CountedIsPaid == BridgeSpec => []EvidenceBacked
<1>1. BridgeInv => EvidenceBacked
  BY DEF BridgeInv, CallsInv
<1> QED BY <1>1, BridgeInvariant, PTL

(* A payment is reported as inserted at most once by each store.           *)
THEOREM ToldOnce == BridgeSpec => []InsertedOnce
<1>1. BridgeInv => InsertedOnce
  BY DEF BridgeInv, ToldInv
<1> QED BY <1>1, BridgeInvariant, PTL

-----------------------------------------------------------------------------

(* What the ledger keeps: an invoice is in one state, and both an invoice  *)
(* and a transaction of a network identify what was spent.                 *)
LedgerSound ==
  /\ pending \cap expired = {} /\ (pending \cup expired) \cap Billed!Paid = {}
  /\ \A x, y \in spent :
        x.invoice_id = y.invoice_id \/ <<x.network, x.txid>> = <<y.network, y.txid>> => x = y

(* Every step of the ledger keeps it.                                      *)
LEMMA LedgerStaysSound ==
  ASSUME LedgerSound, [Billed!LedgerNext]_ledgerVars
  PROVE  LedgerSound'
<1>1. ASSUME NEW late \in SUBSET pending, Billed!Lapse(late)
      PROVE  LedgerSound'
  BY <1>1 DEF Billed!Lapse, Billed!Paid, LedgerSound
<1>2. ASSUME NEW late \in SUBSET pending, NEW i \in Invoices, Billed!Issue(late, i)
      PROVE  LedgerSound'
  BY <1>2 DEF Billed!Issue, Billed!Paid, LedgerSound
<1>3. ASSUME NEW late \in SUBSET pending, NEW x \in Billed!Settlement, Billed!Settle(late, x)
      PROVE  LedgerSound'
  <2>1. \A y \in spent : y.invoice_id # x.invoice_id
    BY <1>3 DEF Billed!Settle, Billed!Paid, LedgerSound
  <2> QED BY <1>3, <2>1 DEF Billed!Settle, Billed!Paid, LedgerSound
<1>4. CASE UNCHANGED ledgerVars
  BY <1>4 DEF ledgerVars, Billed!Paid, LedgerSound
<1> QED BY <1>1, <1>2, <1>3, <1>4 DEF Billed!LedgerNext

(* No two stores contradict each other, whichever processes recorded into  *)
(* them, for whichever machines and at whichever times: settlements of one *)
(* transaction, or of one invoice, name the same transaction and invoice.  *)
StoresAgree ==
  \A s, r \in Stores : \A d \in settlements[s], e \in settlements[r] :
     d.invoice = e.invoice \/ <<d.network, d.txid>> = <<e.network, e.txid>>
     => d.invoice = e.invoice /\ d.network = e.network /\ d.txid = e.txid

(* The bridge only reads the ledger.                                       *)
LEMMA BridgeLedgerSound == BridgeSpec => []LedgerSound
<1>1. BridgeInit => LedgerSound
  BY DEF BridgeInit, Billed!LedgerInit, Billed!Paid, LedgerSound
<1>2. [BridgeNext]_bridgeVars => [Billed!LedgerNext]_ledgerVars
  BY DEF BridgeNext, BeginRecord, NativeVerified, Recheck, RecordEvidence, RecordingInterrupted,
         LedgerStep, ImportStep, bridgeVars
<1>3. LedgerSound /\ [BridgeNext]_bridgeVars => LedgerSound'
  BY <1>2, LedgerStaysSound
<1> QED BY <1>1, <1>3, PTL DEF BridgeSpec

(* Stores that share nothing agree, because each rests on the ledger.      *)
THEOREM StoresNeverContradict == BridgeSpec => []StoresAgree
<1>1. EvidenceBacked /\ LedgerSound => StoresAgree
  BY DEF EvidenceBacked, LedgerSound, StoresAgree
<1> QED BY <1>1, CountedIsPaid, BridgeLedgerSound, PTL

(* Under a policy that requires settlement, what an evaluator accepts names*)
(* as evidence a paid invoice, to an address that machine and wallet both  *)
(* signed to be the subject's.                                             *)
AcceptedIsPaid ==
  \A s \in Stores, n \in Networks, m \in Machines, p \in Policies, t \in Dates :
     p.require_settlement =>
       \A a \in Accepted(s, n, m, p, t) :
          a.evidence \in Observed(s, n, m) /\ PaidFor(a.evidence)

(* Opinions that need a settlement rest on the ledger of paid invoices.    *)
THEOREM OpinionsArePaid == BridgeSpec => []AcceptedIsPaid
<1>1. ReputationTypeOK /\ NewestCounted /\ EvidenceBacked => AcceptedIsPaid
  <2> SUFFICES ASSUME ReputationTypeOK, NewestCounted, EvidenceBacked,
                      NEW s \in Stores, NEW n \in Networks, NEW m \in Machines,
                      NEW p \in Policies, NEW t \in Dates, p.require_settlement,
                      NEW a \in Accepted(s, n, m, p, t)
               PROVE  a.evidence \in Observed(s, n, m) /\ PaidFor(a.evidence)
    BY DEF AcceptedIsPaid
  <2>1. Accepted(s, n, m, p, t) =
          {b \in Counting(s, n, m, p, t) :
             Cardinality(Rivals(b, Counting(s, n, m, p, t))) < p.max_per_issuer}
    BY DEF NewestCounted, Counting, Rivals
  <2>2. a \in About(s, n, m) /\ a.evidence \in Observed(s, n, m)
    BY <2>1 DEF Counting, Counts, About
  <2> QED BY <2>2 DEF Observed, EvidenceBacked, PaidFor
<1>2. BridgeSpec => []ReputationTypeOK /\ []NewestCounted
  BY BridgeImplementsStores, ReputationTypeCorrect, LoopCountsNewest, PTL
<1> QED BY <1>1, <1>2, CountedIsPaid, PTL
=============================================================================
