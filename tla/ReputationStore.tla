---------------------------- MODULE ReputationStore -----------------------------
(***************************************************************************)
(* ReputationStore: a local database of signed opinions and of settlements *)
(* that its own verifier observed.  Artifacts are imported from anywhere,  *)
(* in any order; every operation revalidates the whole table and is one    *)
(* transaction, and one that raises leaves no trace.                       *)
(*                                                                         *)
(* Several stores are modelled side by side, the databases of parties who  *)
(* receive the same artifacts in different orders.                         *)
(***************************************************************************)
EXTENDS Integers, FiniteSets, WalletNetworks

CONSTANTS Stores, Machines, Outcomes, Invoices, Bindings,
          Artifacts,     \* the signed artifacts in circulation; ids are digests of their content
          Policies,      \* the reputation policies that evaluators apply
          Capacity, MaxDate

Dates == 0..MaxDate
NoEvidence == [network |-> "none"]

(* What record_verified_settlement observed: which transaction paid which  *)
(* request, and the machine that was shown to own the recipient's address. *)
Settlement == [network : Networks, subject : Machines, txid : TxIds, invoice : Invoices,
               binding : Bindings]

Attestation == [kind : {"attestation"}, id : Nat, issuer : Machines, subject : Machines,
                network : Networks, issued_at : Dates, outcome : Outcomes,
                evidence : Settlement \cup {NoEvidence}]
Revocation == [kind : {"revocation"}, id : Nat, issuer : Machines, network : Networks,
               issued_at : Dates, target : Nat]

ASSUME ReputationConstants ==
  /\ IsFiniteSet(Artifacts) /\ IsFiniteSet(Settlement)
  /\ Capacity \in Nat \ {0} /\ MaxDate \in Nat
  /\ \A a \in Artifacts : a.kind \in {"attestation", "revocation"}
  /\ \A a, b \in Artifacts : a.id = b.id => a = b

(* _validate: a self-attestation is no artifact.                           *)
ASSUME WellFormedArtifacts ==
  \A a \in Artifacts :
     \/ a \in Attestation /\ a.issuer # a.subject
     \/ a \in Revocation

VARIABLES artifacts,     \* [Stores -> the artifacts stored]
          settlements,   \* [Stores -> the observations stored]
          offered        \* history: [Stores -> the artifacts ever imported or refused]

reputationVars == <<artifacts, settlements, offered>>

Size(s) == Cardinality(artifacts[s]) + Cardinality(settlements[s])

RoomInclusive(s) == Size(s) <= Capacity                             \* mutant
Room(s) == Size(s) < Capacity

(***************************************************************************)
(* import_artifact                                                         *)
(***************************************************************************)

(* A revocation is refused when its target is stored here and is not an    *)
(* attestation of the same issuer and network.  When the target is not     *)
(* stored here yet nothing can be said, and it is let in.                  *)
UnauthorizedOrUnknown(s, a) ==                                      \* mutant
  ~\E t \in artifacts[s] :
     /\ t.id = a.target
     /\ t.kind = "attestation" /\ t.issuer = a.issuer /\ t.network = a.network
Unauthorized(s, a) ==
  \E t \in artifacts[s] :
     /\ t.id = a.target
     /\ t.kind # "attestation" \/ t.issuer # a.issuer \/ t.network # a.network

(* An artifact stands for its issuer and statement, which are what its id  *)
(* is the digest of.  One that comes again is not stored again, whether it *)
(* is the same or differs in its signature alone and is refused as         *)
(* conflicting.                                                            *)
Importable(s, a) ==
  /\ Size(s) <= Capacity
  /\ a \notin artifacts[s]
  /\ a.kind = "revocation" => ~Unauthorized(s, a)
  /\ Room(s)

(* The offer is remembered whether or not the artifact was stored; one for *)
(* another network than the importer expects is refused before anything.   *)
Import(s, a, network) ==
  /\ IF a.network = network /\ Importable(s, a)
     THEN artifacts' = [artifacts EXCEPT ![s] = @ \cup {a}]
     ELSE UNCHANGED artifacts
  /\ offered' = IF a.network = network THEN [offered EXCEPT ![s] = @ \cup {a}] ELSE offered
  /\ UNCHANGED settlements

(***************************************************************************)
(* _record_settlement                                                      *)
(***************************************************************************)

AttributedToSubject(s, e) ==                                        \* mutant
  \E old \in settlements[s] :
     /\ old.network = e.network /\ old.subject = e.subject
     /\ old.txid = e.txid \/ old.invoice = e.invoice
Attributed(s, e) ==
  \E old \in settlements[s] :
     /\ old.network = e.network
     /\ old.txid = e.txid \/ old.invoice = e.invoice

Recordable(s, e) == Size(s) <= Capacity /\ e \notin settlements[s] /\ ~Attributed(s, e) /\ Room(s)

Record(s, e) ==
  /\ settlements' = IF Recordable(s, e) THEN [settlements EXCEPT ![s] = @ \cup {e}]
                    ELSE settlements
  /\ UNCHANGED <<artifacts, offered>>

-----------------------------------------------------------------------------

ReputationInit ==
  /\ artifacts = [s \in Stores |-> {}]
  /\ settlements = [s \in Stores |-> {}]
  /\ offered = [s \in Stores |-> {}]

ReputationNext ==
  \E s \in Stores :
     \/ \E a \in Artifacts, network \in Networks : Import(s, a, network)
     \/ \E e \in Settlement : Record(s, e)

ReputationSpec == ReputationInit /\ [][ReputationNext]_reputationVars

(***************************************************************************)
(* Properties                                                              *)
(***************************************************************************)

(* Every variable has its type.                                            *)
ReputationTypeOK ==
  /\ artifacts \in [Stores -> SUBSET Artifacts]
  /\ settlements \in [Stores -> SUBSET Settlement]
  /\ offered \in [Stores -> SUBSET Artifacts]

(* Imports and recordings share one capacity and never fill the database   *)
(* past it; _snapshot refuses a larger one, and with it every operation.   *)
NeverLockedOut == \A s \in Stores : Size(s) <= Capacity

(* One network/transaction and one network/request contribute at most one  *)
(* observation to a store, for whichever subject (docs/reputation.md).     *)
AttributedOnce ==
  \A s \in Stores : \A d, e \in settlements[s] :
     d.network = e.network /\ (d.txid = e.txid \/ d.invoice = e.invoice) => d = e
=============================================================================
