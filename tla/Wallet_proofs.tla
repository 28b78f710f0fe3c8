------------------------------ MODULE Wallet_proofs ------------------------------
(***************************************************************************)
(* Proofs about address bindings, for all machines, wallets, networks,     *)
(* creators and verifiers, whatever is signed by hand.                     *)
(***************************************************************************)
EXTENDS AddressBinding, WalletRpc, TLAPS

Bindable == [wallet : Wallets, type : {"standard", "subaddress"}]

(* A statement that create has had signed by the identity of its machine.  *)
Stated(c, s) ==
  /\ s \in Statement /\ s.address \in Bindable
  /\ s.machine = options[c].machine
  /\ s.network = NetworkOf[s.address.wallet]
  /\ s.address.type = options[c].type
  /\ options[c].type = "standard" => options[c].allow_standard
  /\ [machine |-> s.machine, context |-> "address-binding", data |-> s] \in machineSigned

(* Where a creation is, and what it holds there.                           *)
CreationOK(c) ==
  \/ creating[c] = NotCreating
  \/ \E a \in Bindable : /\ a.type = options[c].type
                         /\ creating[c] = [at |-> "validate", address |-> a]
  \/ \E s \in Statement : Stated(c, s) /\ creating[c] = [at |-> "sign", statement |-> s]
  \/ \E s \in Statement, g \in walletSigned :
       Stated(c, s) /\ creating[c] = [at |-> "check", statement |-> s, signature |-> g]

Genuine(b) ==
  /\ Supported(b.statement)
  /\ WalletSigned(b.statement, b.wallet_signature)
  /\ IdentitySigned(b.statement, b.identity_signature)

(* The answer that a binding deserves, and that to an expectation.         *)
Deserved(b) == YesOrNo(Genuine(b))
Authentic(b, e) == IF e.machine = Anyone THEN "null"
                   ELSE YesOrNo(Genuine(b) /\ AsExpected(e, b.statement))

(* Where a verification is: the parts of its binding exist, it goes on only *)
(* for a supported address, and its answer is exactly what they deserve.    *)
VerificationOK(call) ==
  \/ call = NotVerifying
  \/ \E place \in {"own", "check"}, b \in Presentable, e \in Expectations :
       /\ call = [at |-> place, binding |-> b, expected |-> e]
       /\ Supported(b.statement)
  \/ /\ call.at = "answered" /\ call.binding \in Presentable
     /\ call.binding_valid = Deserved(call.binding)
     /\ call.authentication_valid = Authentic(call.binding, call.expected)

SignaturesOK ==
  /\ options \in [Creators -> Option] /\ opened \in Wallets
  /\ machineSigned \subseteq MachineSignature /\ walletSigned \subseteq WalletSignature

CreationsOK ==
  /\ creating = [c \in Creators |-> creating[c]]
  /\ \A c \in Creators : CreationOK(c)

VerificationsOK ==
  /\ verifying = [v \in Verifiers |-> verifying[v]]
  /\ \A v \in Verifiers : VerificationOK(verifying[v])

BindingInv == SignaturesOK /\ CreationsOK /\ CreatedVerify /\ VerificationsOK

(* Signatures are only ever added.                                         *)
Grows ==
  /\ machineSigned \subseteq machineSigned' /\ walletSigned \subseteq walletSigned'
  /\ options' = options

LEMMA InitIsBound == BindingInit => BindingInv
  BY BindingConstants DEF BindingInit, BindingInv, SignaturesOK, CreationsOK, CreationOK,
     CreatedVerify, VerificationsOK, VerificationOK

(* What a creation or a verification holds stays true of it.               *)
LEMMA CreationsKeep ==
  ASSUME Grows, NEW c \in Creators, CreationOK(c), creating'[c] = creating[c]
  PROVE  CreationOK(c)'
<1>1. ASSUME NEW s, Stated(c, s) PROVE Stated(c, s)'
  BY <1>1 DEF Grows, Stated
<1>2. CASE creating[c] = NotCreating
  BY <1>2 DEF CreationOK
<1>3. CASE \E a \in Bindable : /\ a.type = options[c].type
                               /\ creating[c] = [at |-> "validate", address |-> a]
  BY <1>3 DEF CreationOK, Grows
<1>4. CASE \E s \in Statement : Stated(c, s) /\ creating[c] = [at |-> "sign", statement |-> s]
  BY <1>4, <1>1 DEF CreationOK
<1>5. CASE \E s \in Statement, g \in walletSigned :
             Stated(c, s) /\ creating[c] = [at |-> "check", statement |-> s, signature |-> g]
  BY <1>5, <1>1 DEF CreationOK, Grows
<1> QED BY <1>2, <1>3, <1>4, <1>5 DEF CreationOK

LEMMA VerificationsKeep ==
  ASSUME Grows, NEW call, VerificationOK(call)
  PROVE  VerificationOK(call)'
<1>1. Presentable \subseteq Presentable'
  BY DEF Grows, Presentable
<1>2. CASE call = NotVerifying
  BY <1>2 DEF VerificationOK
<1>3. CASE \E place \in {"own", "check"}, b \in Presentable, e \in Expectations :
             /\ call = [at |-> place, binding |-> b, expected |-> e]
             /\ Supported(b.statement)
  BY <1>1, <1>3 DEF VerificationOK, Supported
<1>4. CASE /\ call.at = "answered" /\ call.binding \in Presentable
           /\ call.binding_valid = Deserved(call.binding)
           /\ call.authentication_valid = Authentic(call.binding, call.expected)
  <2>1. Deserved(call.binding)' = Deserved(call.binding)
    BY DEF Deserved, Genuine, Supported, WalletSigned, IdentitySigned
  <2>2. Authentic(call.binding, call.expected)' = Authentic(call.binding, call.expected)
    BY DEF Authentic, Genuine, Supported, WalletSigned, IdentitySigned, AsExpected
  <2> QED BY <1>1, <1>4, <2>1, <2>2 DEF VerificationOK
<1> QED BY <1>2, <1>3, <1>4 DEF VerificationOK

LEMMA CreatedKeep ==
  ASSUME Grows, CreatedVerify, made' = made
  PROVE  CreatedVerify'
<1>1. ASSUME NEW s, Consented(s) PROVE Consented(s)'
  BY <1>1 DEF Grows, Consented
<1> QED BY <1>1 DEF CreatedVerify, Grows, IdentitySigned, WalletSigned

(* The creation of c moves on, and the others do not.                      *)
LEMMA CreationMoves ==
  ASSUME BindingInv, Grows, NEW c \in Creators, NEW call,
         creating' = [creating EXCEPT ![c] = call],
         creating'[c] = call => CreationOK(c)'
  PROVE  CreationsOK'
<1>1. creating'[c] = call /\ creating' = [d \in Creators |-> creating'[d]]
  BY DEF BindingInv, CreationsOK
<1>2. ASSUME NEW d \in Creators, d # c PROVE CreationOK(d)'
  <2>1. creating'[d] = creating[d]
    BY <1>2 DEF BindingInv, CreationsOK
  <2> QED BY <2>1, CreationsKeep DEF BindingInv, CreationsOK
<1> QED BY <1>1, <1>2 DEF CreationsOK

(* Verifications that stay, while signatures are added.                    *)
LEMMA VerificationsStay ==
  ASSUME BindingInv, Grows, verifying' = verifying
  PROVE  VerificationsOK'
  BY VerificationsKeep DEF BindingInv, VerificationsOK

LEMMA CreationsStay ==
  ASSUME BindingInv, Grows, creating' = creating
  PROVE  CreationsOK'
  BY CreationsKeep DEF BindingInv, CreationsOK

LEMMA SelectKeeps ==
  ASSUME BindingInv, NEW c \in Creators, SelectAddress(c)
  PROVE  BindingInv'
<1> DEFINE a == [wallet |-> opened, type |-> options[c].type]
<1>1. Grows /\ SignaturesOK'
  BY DEF SelectAddress, Grows, BindingInv, SignaturesOK
<1>2. a \in Bindable /\ a.type = options[c].type
  BY DEF BindingInv, SignaturesOK, Option, Bindable
<1>3. ASSUME creating'[c] = [at |-> "validate", address |-> a] PROVE CreationOK(c)'
  BY <1>1, <1>2, <1>3 DEF CreationOK, Grows
<1>4. CreationsOK'
  BY <1>1, <1>3, CreationMoves DEF SelectAddress
<1> QED BY <1>1, <1>4, VerificationsStay, CreatedKeep DEF SelectAddress, BindingInv

LEMMA ValidateKeeps ==
  ASSUME BindingInv, NEW c \in Creators, ValidateSelected(c)
  PROVE  BindingInv'
<1> PICK s : s = [machine |-> options[c].machine, network |-> NetworkOf[opened],
                  address |-> creating[c].address]
  OBVIOUS
<1> PICK g : g = [machine |-> s.machine, context |-> "address-binding", data |-> s]
  OBVIOUS
<1>1. PICK a \in Bindable : /\ a.type = options[c].type
                            /\ creating[c] = [at |-> "validate", address |-> a]
  <2>1. CreationOK(c) /\ creating[c].at = "validate"
    BY DEF BindingInv, CreationsOK, ValidateSelected
  <2>2. ASSUME NEW x \in Statement, creating[c] = [at |-> "sign", statement |-> x]
        PROVE  FALSE
    BY <2>1, <2>2
  <2>3. ASSUME NEW x \in Statement, NEW y \in walletSigned,
               creating[c] = [at |-> "check", statement |-> x, signature |-> y]
        PROVE  FALSE
    BY <2>1, <2>3
  <2>4. creating[c] # NotCreating
    BY <2>1 DEF NotCreating
  <2> QED BY <2>1, <2>2, <2>3, <2>4 DEF CreationOK
<1>2. s \in Statement /\ s.address \in Bindable /\ s.network = NetworkOf[s.address.wallet]
  <2>1. s.address = a /\ a \in AddressOf
    BY <1>1 DEF Bindable, AddressOf
  <2>2. NetworkOf[opened] \in Networks /\ options[c].machine \in Machines
    BY BindingConstants DEF BindingInv, SignaturesOK, Option
  <2>3. NetworkOf[a.wallet] = NetworkOf[opened]
    BY <1>1 DEF ValidateSelected, OnOpenedNetwork
  <2> QED BY <2>1, <2>2, <2>3 DEF Statement
<1>3. g \in MachineSignature
  BY <1>2 DEF MachineSignature, Contexts, Statement
<1>4. Grows /\ SignaturesOK' /\ machineSigned' = machineSigned \cup {g}
  BY <1>3 DEF ValidateSelected, Grows, BindingInv, SignaturesOK
<1>5. Stated(c, s)'
  <2>1. s.machine = options[c].machine /\ s.address = a
    BY <1>1
  <2>2. options[c].type = "standard" => options[c].allow_standard
    BY <1>1 DEF ValidateSelected
  <2> QED BY <1>1, <1>2, <1>4, <2>1, <2>2 DEF Stated, Grows
<1>6. ASSUME creating'[c] = [at |-> "sign", statement |-> s] PROVE CreationOK(c)'
  BY <1>2, <1>5, <1>6 DEF CreationOK
<1>7. CreationsOK'
  BY <1>4, <1>6, CreationMoves DEF ValidateSelected
<1> QED BY <1>4, <1>7, VerificationsStay, CreatedKeep DEF ValidateSelected, BindingInv

LEMMA RequestKeeps ==
  ASSUME BindingInv, NEW c \in Creators, RequestSignature(c)
  PROVE  BindingInv'
<1>1. PICK s \in Statement : Stated(c, s) /\ creating[c] = [at |-> "sign", statement |-> s]
  BY DEF BindingInv, CreationsOK, CreationOK, RequestSignature, NotCreating
<1>2. PICK kind \in Kinds :
        LET g == [signer |-> [wallet |-> opened, type |-> options[c].type],
                  data |-> creating[c].statement, kind |-> kind]
        IN  /\ walletSigned' = walletSigned \cup {g}
            /\ \/ creating' = [creating EXCEPT ![c] =
                    [at |-> "check", statement |-> creating[c].statement, signature |-> g]]
               \/ creating' = [creating EXCEPT ![c] = NotCreating]
  BY DEF RequestSignature
<1> DEFINE g == [signer |-> [wallet |-> opened, type |-> options[c].type],
                 data |-> s, kind |-> kind]
<1>3. g \in WalletSignature
  BY DEF BindingInv, SignaturesOK, Option, WalletSignature
<1>4. Grows /\ SignaturesOK' /\ g \in walletSigned'
  BY <1>1, <1>2, <1>3 DEF RequestSignature, Grows, BindingInv, SignaturesOK
<1>5. Stated(c, s)'
  BY <1>1, <1>4 DEF Stated, Grows
<1>6. ASSUME creating'[c] = [at |-> "check", statement |-> s, signature |-> g]
      PROVE  CreationOK(c)'
  BY <1>4, <1>5, <1>6 DEF CreationOK
<1>7. ASSUME creating'[c] = NotCreating PROVE CreationOK(c)'
  BY <1>7 DEF CreationOK
<1>8. CreationsOK'
  <2>1. CASE creating' = [creating EXCEPT ![c] = [at |-> "check", statement |-> s,
                                                  signature |-> g]]
    BY <2>1, <1>4, <1>6, CreationMoves
  <2>2. CASE creating' = [creating EXCEPT ![c] = NotCreating]
    BY <2>2, <1>4, <1>7, CreationMoves
  <2> QED BY <1>1, <1>2, <2>1, <2>2
<1> QED BY <1>4, <1>8, VerificationsStay, CreatedKeep DEF RequestSignature, BindingInv

(* The check is what makes a binding: the wallet that signed was the one   *)
(* of the address.                                                         *)
LEMMA CheckKeeps ==
  ASSUME BindingInv, NEW c \in Creators, CheckMade(c)
  PROVE  BindingInv'
<1>1. PICK s \in Statement, g \in walletSigned :
        Stated(c, s) /\ creating[c] = [at |-> "check", statement |-> s, signature |-> g]
  BY DEF BindingInv, CreationsOK, CreationOK, CheckMade, NotCreating
<1> DEFINE i == [machine |-> options[c].machine, context |-> "address-binding", data |-> s]
           b == [statement |-> s, identity_signature |-> i, wallet_signature |-> g]
<1>2. Grows /\ SignaturesOK' /\ made' = made \cup {b}
  BY <1>1 DEF CheckMade, Grows, BindingInv, SignaturesOK
<1>3. WalletSigned(s, g) /\ IdentitySigned(s, i) /\ i \in machineSigned
  BY <1>1 DEF CheckMade, Stated, IdentitySigned
<1>4. KeyOf(s.address) = s.address
  BY <1>1 DEF Stated, Bindable, KeyOf
<1>5. Consented(s)
  BY <1>1, <1>3, <1>4 DEF Consented, Stated, WalletSigned
<1>6. CreatedVerify'
  <2>1. ASSUME NEW x \in made'
        PROVE  /\ Consented(x.statement)'
               /\ IdentitySigned(x.statement, x.identity_signature)
               /\ WalletSigned(x.statement, x.wallet_signature)
               /\ \E d \in Creators : /\ options[d].machine = x.statement.machine
                                      /\ options[d].type = x.statement.address.type
                                      /\ options[d].type = "standard" => options[d].allow_standard
    <3>1. Consented(x.statement) => Consented(x.statement)'
      BY <1>2 DEF Grows, Consented
    <3>2. CASE x \in made
      BY <3>1, <3>2 DEF BindingInv, CreatedVerify
    <3>3. CASE x = b
      BY <3>1, <3>3, <1>1, <1>3, <1>5 DEF Stated
    <3> QED BY <1>2, <3>2, <3>3
  <2> QED BY <2>1, <1>2 DEF CreatedVerify, Grows, IdentitySigned, WalletSigned
<1>7. ASSUME creating'[c] = NotCreating PROVE CreationOK(c)'
  BY <1>7 DEF CreationOK
<1>8. CreationsOK'
  BY <1>2, <1>7, CreationMoves DEF CheckMade
<1> QED BY <1>2, <1>6, <1>8, VerificationsStay DEF CheckMade, BindingInv

LEMMA FailKeeps ==
  ASSUME BindingInv, NEW c \in Creators, CreateFails(c)
  PROVE  BindingInv'
<1>1. Grows /\ SignaturesOK'
  BY DEF CreateFails, Grows, BindingInv, SignaturesOK
<1>2. ASSUME creating'[c] = NotCreating PROVE CreationOK(c)'
  BY <1>2 DEF CreationOK
<1>3. CreationsOK'
  BY <1>1, <1>2, CreationMoves DEF CreateFails
<1> QED BY <1>1, <1>3, VerificationsStay, CreatedKeep DEF CreateFails, BindingInv

(* An answer is what the parts of the binding deserve.                     *)
LEMMA ResultsAreExact ==
  ASSUME NEW call, NEW supported \in BOOLEAN, NEW wallet_signed \in BOOLEAN,
         call.binding \in Presentable,
         (supported /\ wallet_signed) <=>
           (Supported(call.binding.statement)
            /\ WalletSigned(call.binding.statement, call.binding.wallet_signature))
  PROVE  VerificationOK(Result(call, supported, wallet_signed))
<1> DEFINE s == call.binding.statement
           signed == IdentitySigned(s, call.binding.identity_signature)
           r == Result(call, supported, wallet_signed)
<1>1. ((supported /\ wallet_signed) /\ signed) <=> Genuine(call.binding)
  BY DEF Genuine
<1>2. r.at = "answered" /\ r.binding = call.binding /\ r.expected = call.expected
  BY DEF Result
<1>3. r.binding_valid = Deserved(call.binding)
  BY <1>1 DEF Result, YesOrNo, Deserved
<1>4. r.authentication_valid = Authentic(call.binding, call.expected)
  BY <1>1 DEF Result, YesOrNo, Authentic
<1> HIDE DEF r
<1>5. VerificationOK(r)
  BY <1>2, <1>3, <1>4 DEF VerificationOK
<1> QED BY <1>5 DEF r

(* One verification moves on, and nothing else does.                       *)
LEMMA VerificationMoves ==
  ASSUME BindingInv, NEW v \in Verifiers, NEW call, VerificationOK(call),
         verifying' = [verifying EXCEPT ![v] = call],
         UNCHANGED <<options, opened, creating, machineSigned, walletSigned, made>>
  PROVE  BindingInv'
<1>1. Grows /\ SignaturesOK'
  BY DEF Grows, BindingInv, SignaturesOK
<1>2. verifying' = [u \in Verifiers |-> verifying'[u]]
  BY DEF BindingInv, VerificationsOK
<1>3. ASSUME NEW u \in Verifiers PROVE VerificationOK(verifying'[u])
  BY <1>3 DEF BindingInv, VerificationsOK
<1>4. ASSUME NEW u \in Verifiers PROVE VerificationOK(verifying[u])'
  BY <1>1, <1>3, VerificationsKeep
<1>5. VerificationsOK'
  BY <1>2, <1>4 DEF VerificationsOK
<1> QED BY <1>1, <1>5, CreationsStay, CreatedKeep DEF BindingInv

LEMMA VerifyKeeps ==
  ASSUME BindingInv, NEW v \in Verifiers,
         \/ \E b \in Presentable, e \in Expectations : BeginVerify(v, b, e)
         \/ ValidateOwn(v) \/ CheckWalletSignature(v) \/ VerifyFails(v)
  PROVE  BindingInv'
<1>1. VerificationOK(verifying[v]) /\ verifying = [u \in Verifiers |-> verifying[u]]
  BY DEF BindingInv, VerificationsOK
<1>2. ASSUME NEW b \in Presentable, NEW e \in Expectations, BeginVerify(v, b, e)
      PROVE  BindingInv'
  <2> DEFINE call == [at |-> "own", binding |-> b, expected |-> e]
  <2>1. CASE Supported(b.statement)
    <3>1. VerificationOK(call)
      BY <2>1 DEF VerificationOK
    <3>2. verifying' = [verifying EXCEPT ![v] = call]
      BY <1>2, <2>1 DEF BeginVerify
    <3> HIDE DEF call
    <3> QED BY <1>2, <3>1, <3>2, VerificationMoves DEF BeginVerify
  <2>2. CASE ~Supported(b.statement)
    <3>1. call.binding = b
      OBVIOUS
    <3>2. verifying' = [verifying EXCEPT ![v] = Result(call, FALSE, FALSE)]
      BY <1>2, <2>2 DEF BeginVerify
    <3> HIDE DEF call
    <3>3. VerificationOK(Result(call, FALSE, FALSE))
      BY <3>1, <2>2, ResultsAreExact
    <3> QED BY <1>2, <3>2, <3>3, VerificationMoves DEF BeginVerify
  <2> QED BY <2>1, <2>2
<1>3. ASSUME NEW place \in {"own", "check"}, verifying[v].at = place
      PROVE  \E b \in Presentable, e \in Expectations :
               /\ verifying[v] = [at |-> place, binding |-> b, expected |-> e]
               /\ Supported(b.statement)
  BY <1>1, <1>3 DEF VerificationOK, NotVerifying
<1>4. ASSUME ValidateOwn(v) PROVE BindingInv'
  <2>1. PICK b \in Presentable, e \in Expectations :
          /\ verifying[v] = [at |-> "own", binding |-> b, expected |-> e]
          /\ Supported(b.statement)
    BY <1>3, <1>4 DEF ValidateOwn
  <2> DEFINE call == [at |-> "check", binding |-> b, expected |-> e]
  <2>2. verifying' = [verifying EXCEPT ![v] = call]
    <3>1. [verifying[v] EXCEPT !.at = "check"] = call
      BY <2>1
    <3> QED BY <1>4, <3>1 DEF ValidateOwn
  <2>3. VerificationOK(call)
    BY <2>1 DEF VerificationOK
  <2> HIDE DEF call
  <2> QED BY <1>4, <2>2, <2>3, VerificationMoves DEF ValidateOwn
<1>5. ASSUME CheckWalletSignature(v) PROVE BindingInv'
  <2>1. PICK b \in Presentable, e \in Expectations :
          /\ verifying[v] = [at |-> "check", binding |-> b, expected |-> e]
          /\ Supported(b.statement)
    BY <1>3, <1>5 DEF CheckWalletSignature
  <2> DEFINE signed == WalletSigned(b.statement, b.wallet_signature)
  <2>2. verifying' = [verifying EXCEPT ![v] = Result(verifying[v], TRUE, signed)]
    BY <1>5, <2>1 DEF CheckWalletSignature
  <2>3. verifying[v].binding = b /\ signed \in BOOLEAN
    BY <2>1 DEF WalletSigned
  <2>4. VerificationOK(Result(verifying[v], TRUE, signed))
    BY <2>1, <2>3, ResultsAreExact
  <2> HIDE DEF signed
  <2> QED BY <1>5, <2>2, <2>4, VerificationMoves DEF CheckWalletSignature
<1>6. ASSUME VerifyFails(v) PROVE BindingInv'
  <2>1. VerificationOK(NotVerifying)
    BY DEF VerificationOK
  <2> QED BY <1>6, <2>1, VerificationMoves DEF VerifyFails
<1> QED BY <1>2, <1>4, <1>5, <1>6

LEMMA SurroundingsKeep ==
  ASSUME BindingInv,
         \/ \E w \in Wallets : OpenWallet(w)
         \/ \E signature \in ByHand : SignByHand(signature)
         \/ UNCHANGED bindingVars
  PROVE  BindingInv'
<1>1. /\ Grows /\ SignaturesOK'
      /\ UNCHANGED <<creating, made, verifying>>
  BY DEF OpenWallet, SignByHand, bindingVars, Grows, BindingInv, SignaturesOK
<1> QED BY <1>1, CreationsStay, VerificationsStay, CreatedKeep DEF BindingInv

LEMMA StepKeepsBindings ==
  ASSUME BindingInv, [BindingNext]_bindingVars
  PROVE  BindingInv'
<1>1. ASSUME NEW c \in Creators,
             \/ SelectAddress(c) \/ ValidateSelected(c) \/ RequestSignature(c)
             \/ CheckMade(c) \/ CreateFails(c)
      PROVE  BindingInv'
  BY <1>1, SelectKeeps, ValidateKeeps, RequestKeeps, CheckKeeps, FailKeeps
<1> QED BY <1>1, VerifyKeeps, SurroundingsKeep DEF BindingNext

LEMMA BindingsHold == BindingSpec => []BindingInv
<1>1. BindingInv /\ [BindingNext]_bindingVars => BindingInv'
  BY StepKeepsBindings
<1> QED BY InitIsBound, <1>1, PTL DEF BindingSpec

(* Whatever create returns was consented to by machine and wallet, and     *)
(* verifies: although each of its calls may be answered by another wallet, *)
(* the last one is answered for the address and the statement.             *)
THEOREM CreatedBindingsVerify == BindingSpec => []CreatedVerify
<1>1. BindingInv => CreatedVerify
  BY DEF BindingInv
<1> QED BY BindingsHold, <1>1, PTL

(* A binding that is answered to be valid was consented to; one that was   *)
(* created is always answered to be; and expectations are met.             *)
LEMMA AnswersAreExact ==
  ASSUME BindingInv
  PROVE  VerdictsExact
<1> SUFFICES ASSUME NEW v \in Verifiers, verifying[v].at = "answered"
             PROVE  /\ verifying[v].binding_valid = "yes" =>
                          Consented(verifying[v].binding.statement)
                    /\ verifying[v].binding \in made => verifying[v].binding_valid = "yes"
                    /\ verifying[v].authentication_valid = "yes" =>
                         /\ verifying[v].binding_valid = "yes"
                         /\ verifying[v].expected.machine = verifying[v].binding.statement.machine
                         /\ verifying[v].expected.network
                              \in {Anyone, verifying[v].binding.statement.network}
  BY DEF VerdictsExact
<1> DEFINE b == verifying[v].binding
           e == verifying[v].expected
<1>1. /\ b \in Presentable
      /\ verifying[v].binding_valid = Deserved(b)
      /\ verifying[v].authentication_valid = Authentic(b, e)
  <2>1. VerificationOK(verifying[v])
    BY DEF BindingInv, VerificationsOK
  <2>2. ASSUME NEW place \in {"own", "check"}, NEW x \in Presentable, NEW y \in Expectations,
               verifying[v] = [at |-> place, binding |-> x, expected |-> y]
        PROVE  FALSE
    BY <2>2
  <2>3. verifying[v] # NotVerifying
    BY DEF NotVerifying
  <2> QED BY <2>1, <2>2, <2>3 DEF VerificationOK
<1>2. ASSUME Genuine(b) PROVE Consented(b.statement)
  <2> DEFINE s == b.statement
  <2>1. /\ b.identity_signature \in machineSigned /\ b.wallet_signature \in walletSigned
    BY <1>1 DEF Presentable
  <2>2. /\ b.identity_signature = [machine |-> s.machine, context |-> "address-binding", data |-> s]
        /\ b.wallet_signature = [signer |-> KeyOf(s.address), data |-> s, kind |-> "spend"]
        /\ s.address.type \in {"standard", "subaddress"}
        /\ s.network = NetworkOf[s.address.wallet]
    BY <1>2 DEF Genuine, Supported, WalletSigned, IdentitySigned
  <2>3. s \in Statement
    BY <2>1, <2>2 DEF BindingInv, SignaturesOK, MachineSignature
  <2>4. KeyOf(s.address) = s.address
    BY <2>2, <2>3 DEF Statement, AddressOf, KeyOf
  <2> QED BY <2>1, <2>2, <2>4 DEF Consented
<1>3. ASSUME b \in made PROVE Genuine(b)
  BY <1>3 DEF BindingInv, CreatedVerify, Genuine, Supported, Consented, SignaturesOK, Option
<1> HIDE DEF b, e
<1>4. Deserved(b) = "yes" <=> Genuine(b)
  BY DEF Deserved, YesOrNo
<1>5. Authentic(b, e) = "yes" => Genuine(b) /\ AsExpected(e, b.statement) /\ e.machine # Anyone
  BY DEF Authentic, YesOrNo
<1> QED BY <1>1, <1>2, <1>3, <1>4, <1>5 DEF AsExpected, b, e

(* binding verify answers that a binding is valid only when machine and    *)
(* wallet consented to it, whichever wallets were opened between its       *)
(* calls; what create made it never finds invalid; and it authenticates    *)
(* nothing but the machine and the network it was asked for.               *)
THEOREM AnsweredVerdictsExact == BindingSpec => []VerdictsExact
<1> QED BY BindingsHold, AnswersAreExact, PTL

-----------------------------------------------------------------------------
(***************************************************************************)
(* Calls with a mutation                                                   *)
(***************************************************************************)

Place == {"idle", "validate", "sent", "check", "save", "done", "failed", "retry"}
Word == ReadOnlyCodes \cup {"invalid_input", "invalid_configuration", "none", "not_sent",
                          "check", "save"}
          \cup Answers \cup Faults
ErrorOf == [code : Word, outcome_unknown : BOOLEAN]
Call == [at : Place, attempt : 0..MaxAttempts, authorized : BOOLEAN,
         error : ErrorOf, cause : Word]

CallsTyped ==
  /\ client \in [Callers -> Call] /\ requires \in BOOLEAN
  /\ arriving \subseteq Message
  /\ answers \subseteq [message : Message, kind : Answers]
  /\ performed \in [Callers -> [Attempts -> Nat]]

(* A request can have an effect if it is authorized exactly when the wallet *)
(* requires it.  The one of an attempt is sent once, by now or never.      *)
Effective(c, a) == [caller |-> c, attempt |-> a, authorized |-> requires]
Sent(m) ==
  /\ m.attempt <= client[m.caller].attempt
  /\ m.attempt = client[m.caller].attempt =>
       /\ client[m.caller].at # "validate"
       /\ m.authorized => client[m.caller].authorized

ChallengesMean ==
  /\ \A m \in arriving : Sent(m) /\ (m.authorized => requires)
  /\ \A r \in answers : r.kind = "challenge" => requires
  /\ \A c \in Callers :
       /\ client[c].authorized => requires
       /\ client[c].at = "validate" => ~client[c].authorized
       /\ client[c].at \in {"check", "save"} => Operation[c] = "bind"
       /\ client[c].at \in {"sent", "validate"} => client[c].attempt \in Attempts

EffectOnce ==
  \A c \in Callers, a \in Attempts :
     /\ performed[c][a] <= 1
     /\ performed[c][a] > 0 => Sent(Effective(c, a)) /\ Effective(c, a) \notin arriving

(* A caller that has reason to believe that nothing was done is right, and *)
(* nothing will be.                                                        *)
Quiet(c, call) ==
  \/ call.at \in {"idle", "retry", "validate"}
  \/ call.at = "failed" /\ SaysNotDone(c, call.error)
HasEffect(c, a) == performed[c][a] > 0 \/ Effective(c, a) \in arriving

EffectsAreCurrent ==
  \A c \in Callers, a \in Attempts :
     HasEffect(c, a) => a = client[c].attempt /\ ~Quiet(c, client[c])

(* A request that was answered so had no effect, and is gone.              *)
RefusalsMean ==
  \A r \in answers :
     r.message.authorized = requires /\ r.kind \in {"rpc_error", "challenge", "unauthorized"} =>
        r.message \notin arriving /\ performed[r.message.caller][r.message.attempt] = 0
AnswersSent == \A r \in answers : Sent(r.message) /\ (r.message.authorized => requires)

CallsInv ==
  /\ CallsTyped /\ ChallengesMean /\ EffectOnce /\ EffectsAreCurrent
  /\ RefusalsMean /\ AnswersSent

LEMMA IdleIsCall == Idle \in Call /\ ~Idle.authorized
<1>1. "none" \in Word /\ 0 \in 0..MaxAttempts
  BY WalletConstants DEF Word
<1>2. None \in ErrorOf
  BY <1>1 DEF None, ErrorOf
<1> QED BY <1>1, <1>2 DEF Idle, Call, Place

LEMMA InitIsQuiet == WalletInit => CallsInv
<1> SUFFICES ASSUME WalletInit PROVE CallsInv
  OBVIOUS
<1>1. Idle \in Call
  BY IdleIsCall
<1>2. CallsTyped
  BY <1>1 DEF WalletInit, CallsTyped
<1>3. ChallengesMean /\ EffectsAreCurrent /\ EffectOnce /\ RefusalsMean /\ AnswersSent
  BY DEF WalletInit, ChallengesMean, EffectsAreCurrent, EffectOnce, RefusalsMean, AnswersSent,
         Idle, HasEffect
<1> QED BY <1>2, <1>3 DEF CallsInv

(* What was sent stays so.                                                 *)
LEMMA StaysSent ==
  ASSUME CallsInv, NEW c \in Callers, NEW call \in Call, client' = [client EXCEPT ![c] = call],
         call.attempt >= client[c].attempt,
         call.attempt = client[c].attempt =>
           call.at # "validate" /\ (client[c].authorized => call.authorized),
         NEW m \in Message, Sent(m)
  PROVE  Sent(m)'
<1>1. CASE m.caller = c
  <2>1. m.attempt \in Nat /\ client[c].attempt \in Nat /\ call.attempt \in Nat
    BY WalletConstants DEF Message, Attempts, CallsInv, CallsTyped, Call
  <2>2. client'[c] = call
    BY DEF CallsInv, CallsTyped
  <2> QED BY <1>1, <2>1, <2>2 DEF Sent
<1>2. CASE m.caller # c
  <2>1. client'[m.caller] = client[m.caller]
    BY <1>2 DEF CallsInv, CallsTyped, Message
  <2> QED BY <2>1 DEF Sent
<1> QED BY <1>1, <1>2

(* A call that moves without sending anything.                             *)
Moves(c, call) ==
  /\ client' = [client EXCEPT ![c] = call]
  /\ UNCHANGED <<requires, arriving, answers, performed>>
  /\ call.attempt >= client[c].attempt
  /\ call.attempt = client[c].attempt =>
       call.at # "validate" /\ (client[c].authorized => call.authorized)
  /\ call.authorized => requires
  /\ call.at = "validate" => ~call.authorized
  /\ call.at \in {"check", "save"} => Operation[c] = "bind"
  /\ call.at \in {"sent", "validate"} => call.attempt \in Attempts
  /\ \A a \in Attempts :
       HasEffect(c, a) => call.attempt = client[c].attempt /\ ~Quiet(c, call)

LEMMA CallMoves ==
  ASSUME CallsInv, NEW c \in Callers, NEW call \in Call, Moves(c, call)
  PROVE  CallsInv'
<1>1. CallsTyped' /\ client'[c] = call /\ \A d \in Callers : d # c => client'[d] = client[d]
  BY DEF Moves, CallsInv, CallsTyped
<1>2. ASSUME NEW m \in Message, Sent(m) PROVE Sent(m)'
  BY <1>2, StaysSent DEF Moves
<1>3. \A r \in answers : r.message \in Message
  BY DEF CallsInv, CallsTyped
<1>4. ASSUME NEW d \in Callers, NEW a \in Attempts PROVE Effective(d, a) \in Message
  BY DEF Effective, Message, CallsInv, CallsTyped
<1>5. ChallengesMean'
  BY <1>1, <1>2 DEF Moves, CallsInv, CallsTyped, ChallengesMean
<1>6. AnswersSent'
  BY <1>2, <1>3 DEF Moves, CallsInv, AnswersSent
<1>7. RefusalsMean'
  BY DEF Moves, CallsInv, RefusalsMean
<1>8. EffectOnce'
  <2>1. \A d \in Callers, a \in Attempts : Effective(d, a)' = Effective(d, a)
    BY DEF Effective, Moves
  <2> QED BY <1>2, <1>4, <2>1 DEF Moves, CallsInv, EffectOnce
<1>9. EffectsAreCurrent'
  <2> SUFFICES ASSUME NEW d \in Callers, NEW a \in Attempts, HasEffect(d, a)'
               PROVE  a = client'[d].attempt /\ ~Quiet(d, client'[d])
    BY DEF EffectsAreCurrent, Quiet, SaysNotDone
  <2>1. HasEffect(d, a)
    BY DEF HasEffect, Effective, Moves
  <2>2. a = client[d].attempt /\ ~Quiet(d, client[d])
    BY <2>1 DEF CallsInv, EffectsAreCurrent
  <2> QED BY <1>1, <2>1, <2>2 DEF Moves
<1> QED BY <1>1, <1>5, <1>6, <1>7, <1>8, <1>9 DEF CallsInv

LEMMA BeginKeeps ==
  ASSUME CallsInv, NEW c \in Callers, Begin(c)
  PROVE  CallsInv'
<1> DEFINE call == [Idle EXCEPT !.at = "validate", !.attempt = client[c].attempt + 1]
<1>1. client[c] \in Call /\ client[c].attempt \in 0..MaxAttempts /\ MaxAttempts \in Nat
  BY WalletConstants DEF CallsInv, CallsTyped, Call
<1>2. /\ Idle \in Call => call.attempt = client[c].attempt + 1 /\ call.at = "validate"
                            /\ call.authorized = Idle.authorized
      /\ Idle \in Call /\ client[c].attempt + 1 \in 0..MaxAttempts => call \in Call
  BY DEF Call, Place
<1>3. call.attempt \in Attempts /\ call.attempt > client[c].attempt /\ call \in Call
  BY <1>1, <1>2, IdleIsCall DEF Begin, Attempts
<1>4. Quiet(c, client[c])
  BY DEF Begin, Quiet
<1>5. \A a \in Attempts : ~HasEffect(c, a)
  BY <1>4 DEF CallsInv, EffectsAreCurrent
<1>6. call.at = "validate" /\ ~call.authorized
  BY <1>2, IdleIsCall
<1>7. client' = [client EXCEPT ![c] = call] /\ UNCHANGED <<requires, arriving, answers, performed>>
  BY DEF Begin
<1> HIDE DEF call
<1>9. call.attempt >= client[c].attempt /\ call.attempt # client[c].attempt
  BY <1>1, <1>3 DEF Attempts
<1>8. Moves(c, call)
  BY <1>3, <1>5, <1>6, <1>7, <1>9, Zenon DEF Moves
<1> QED BY <1>3, <1>8, CallMoves

(* What raises an error leaves the attempt and its authorization alone.    *)
LEMMA RaiseKeeps ==
  ASSUME CallsInv, NEW c \in Callers, NEW error \in ErrorOf, NEW cause \in Word, Raise(c, error, cause),
         UNCHANGED <<requires, arriving, answers, performed>>,
         SaysNotDone(c, error) => \A a \in Attempts : ~HasEffect(c, a)
  PROVE  CallsInv'
<1> DEFINE call == [client[c] EXCEPT !.at = "failed", !.error = error, !.cause = cause]
<1>1. client[c] \in Call
  BY DEF CallsInv, CallsTyped
<1>8. client[c].attempt \in Nat
  BY <1>1, WalletConstants DEF Call
<1>9. call \in Call
  BY <1>1 DEF Call, Place
<1>2. /\ call.at = "failed" /\ call.attempt = client[c].attempt
      /\ call.authorized = client[c].authorized /\ call.error = error
  BY <1>1 DEF Call
<1>6. call.at \notin {"validate", "check", "save", "sent", "retry"}
  BY <1>2
<1>3. client' = [client EXCEPT ![c] = call]
  BY DEF Raise
<1>4. call.authorized => requires
  BY <1>2 DEF CallsInv, ChallengesMean
<1>5. \A a \in Attempts : HasEffect(c, a) => ~Quiet(c, call)
  BY <1>2 DEF Quiet
<1> HIDE DEF call
<1>10. call.attempt >= client[c].attempt
  BY <1>2, <1>8
<1>7. Moves(c, call)
  BY <1>2, <1>3, <1>4, <1>5, <1>6, <1>10, Zenon DEF Moves
<1> QED BY <1>7, <1>9, CallMoves

LEMMA RefusedKeeps ==
  ASSUME CallsInv, NEW c \in Callers, Refused(c)
  PROVE  CallsInv'
<1>1. PICK code \in ReadOnlyCodes \cup {"invalid_input", "invalid_configuration"} :
        Raise(c, Error(code, FALSE), "not_sent")
  BY DEF Refused
<1>2. Error(code, FALSE) \in ErrorOf /\ "not_sent" \in Word
  BY DEF Error, ErrorOf, Word
<1>3. \A a \in Attempts : ~HasEffect(c, a)
  BY DEF Refused, Quiet, CallsInv, EffectsAreCurrent
<1> QED BY <1>1, <1>2, <1>3, RaiseKeeps DEF Refused

(* The wallet refused what an error that says so is about: the message     *)
(* that was sent last, which alone could have had an effect.               *)
LEMMA RefusalIsCertain ==
  ASSUME CallsInv, NEW c \in Callers, client[c].at = "sent",
         NEW kind \in Received(c), kind \in {"rpc_error", "challenge", "unauthorized"},
         NEW a \in Attempts
  PROVE  ~HasEffect(c, a)
<1> SUFFICES ASSUME HasEffect(c, a) PROVE FALSE
  OBVIOUS
<1>1. a = client[c].attempt
  BY DEF CallsInv, EffectsAreCurrent
<1>2. PICK r \in answers : r.message = Current(c) /\ r.kind = kind
  BY DEF Received
<1>3. Current(c) = [caller |-> c, attempt |-> a, authorized |-> client[c].authorized]
  BY <1>1 DEF Current
<1>4. Effective(c, a).caller = c /\ Effective(c, a).attempt = a
      /\ Effective(c, a).authorized = requires
  BY DEF Effective
<1>5. CASE client[c].authorized = requires
  <2>1. r.message = Effective(c, a)
    BY <1>2, <1>3, <1>5 DEF Effective
  <2>2. Effective(c, a) \notin arriving /\ performed[c][a] = 0
    BY <2>1, <1>2, <1>4 DEF CallsInv, RefusalsMean
  <2> QED BY <2>2 DEF HasEffect
<1>6. CASE client[c].authorized # requires
  <2>1. requires /\ ~client[c].authorized
    BY <1>6 DEF CallsInv, ChallengesMean, CallsTyped, Call
  <2>2. ~Sent(Effective(c, a))
    BY <1>1, <1>4, <2>1 DEF Sent
  <2> QED BY <2>2 DEF HasEffect, CallsInv, ChallengesMean, EffectOnce
<1> QED BY <1>5, <1>6

(* A call that sends a message that it had not sent yet.                   *)
LEMMA CallSends ==
  ASSUME CallsInv, NEW c \in Callers, NEW call \in Call,
         client' = [client EXCEPT ![c] = call],
         call.at = "sent", call.attempt = client[c].attempt, call.attempt \in Attempts,
         client[c].authorized => call.authorized, call.authorized => requires,
         NEW m, m = [caller |-> c, attempt |-> call.attempt, authorized |-> call.authorized],
         ~Sent(m), arriving' = arriving \cup {m},
         UNCHANGED <<requires, answers, performed>>
  PROVE  CallsInv'
<1>1. m \in Message
  BY DEF Message, Call
<1>2. CallsTyped' /\ client'[c] = call /\ \A d \in Callers : d # c => client'[d] = client[d]
  BY <1>1 DEF CallsInv, CallsTyped
<1>3. client[c].attempt \in Nat /\ call.attempt >= client[c].attempt
  BY WalletConstants DEF Attempts
<1>4. ASSUME NEW n \in Message, Sent(n) PROVE Sent(n)'
  BY <1>3, <1>4, StaysSent
<1>5. Sent(m)'
  BY <1>2, <1>3 DEF Sent
<1>6. /\ \A n \in arriving : n \in Message /\ Sent(n) /\ (n.authorized => requires)
      /\ \A r \in answers : r.message \in Message /\ Sent(r.message)
                              /\ (r.message.authorized => requires)
  BY DEF CallsInv, CallsTyped, ChallengesMean, AnswersSent
<1>7. ChallengesMean'
  <2>1. \A n \in arriving' : Sent(n)' /\ (n.authorized => requires)
    BY <1>4, <1>5, <1>6
  <2>2. \A d \in Callers :
          /\ client'[d].authorized => requires
          /\ client'[d].at = "validate" => ~client'[d].authorized
          /\ client'[d].at \in {"check", "save"} => Operation[d] = "bind"
          /\ client'[d].at \in {"sent", "validate"} => client'[d].attempt \in Attempts
    BY <1>2 DEF CallsInv, ChallengesMean
  <2> QED BY <2>1, <2>2 DEF CallsInv, ChallengesMean
<1>8. AnswersSent'
  BY <1>4, <1>6 DEF AnswersSent
<1>9. RefusalsMean'
  BY <1>6 DEF CallsInv, RefusalsMean
<1>10. ASSUME NEW d \in Callers, NEW a \in Attempts
       PROVE  /\ Effective(d, a)' = Effective(d, a) /\ Effective(d, a) \in Message
              /\ Effective(d, a) = m => d = c /\ a = client[c].attempt
  BY DEF Effective, Message, CallsInv, CallsTyped
<1>11. EffectOnce'
  BY <1>4, <1>10 DEF CallsInv, EffectOnce
<1>12. EffectsAreCurrent'
  <2> SUFFICES ASSUME NEW d \in Callers, NEW a \in Attempts, HasEffect(d, a)'
               PROVE  a = client'[d].attempt /\ ~Quiet(d, client'[d])
    BY DEF EffectsAreCurrent, Quiet, SaysNotDone
  <2>1. HasEffect(d, a) \/ (d = c /\ a = client[c].attempt)
    BY <1>10 DEF HasEffect
  <2>2. HasEffect(d, a) => a = client[d].attempt /\ ~Quiet(d, client[d])
    BY DEF CallsInv, EffectsAreCurrent
  <2>3. ~Quiet(c, call)
    BY DEF Quiet
  <2> QED BY <1>2, <2>1, <2>2, <2>3
<1> QED BY <1>2, <1>7, <1>8, <1>9, <1>11, <1>12 DEF CallsInv

LEMMA SendKeeps ==
  ASSUME CallsInv, NEW c \in Callers, Send(c)
  PROVE  CallsInv'
<1> DEFINE call == [client[c] EXCEPT !.at = "sent"]
<1>1. client[c] \in Call /\ client[c].at = "validate"
  BY DEF Send, CallsInv, CallsTyped
<1>2. call \in Call
  BY <1>1 DEF Call, Place
<1>3. call.at = "sent" /\ call.attempt = client[c].attempt
      /\ call.authorized = client[c].authorized
  BY <1>1 DEF Call
<1>4. client[c].attempt \in Attempts /\ (client[c].authorized => requires)
  BY <1>1 DEF CallsInv, ChallengesMean
<1>5. Current(c) = [caller |-> c, attempt |-> call.attempt, authorized |-> call.authorized]
  BY <1>3 DEF Current
<1>6. ~Sent(Current(c))
  BY <1>1 DEF Sent, Current
<1>7. /\ client' = [client EXCEPT ![c] = call]
      /\ arriving' = arriving \cup {Current(c)} /\ UNCHANGED <<requires, answers, performed>>
  BY DEF Send
<1> HIDE DEF call
<1> QED BY <1>2, <1>3, <1>4, <1>5, <1>6, <1>7, CallSends

LEMMA AuthorizeKeeps ==
  ASSUME CallsInv, NEW c \in Callers, Authorize(c)
  PROVE  CallsInv'
<1> DEFINE call == [client[c] EXCEPT !.authorized = TRUE]
           m == [Current(c) EXCEPT !.authorized = TRUE]
<1>1. client[c] \in Call /\ client[c].at = "sent" /\ ~client[c].authorized
  BY DEF Authorize, CanAuthorize, CallsInv, CallsTyped
<1>2. call \in Call
  BY <1>1 DEF Call, Place
<1>3. call.at = "sent" /\ call.attempt = client[c].attempt /\ call.authorized = TRUE
  BY <1>1 DEF Call
<1>4. client[c].attempt \in Attempts
  BY <1>1 DEF CallsInv, ChallengesMean
<1>5. requires
  BY DEF Authorize, CanAuthorize, Received, CallsInv, ChallengesMean
<1>6. m = [caller |-> c, attempt |-> call.attempt, authorized |-> call.authorized]
  <2>1. /\ Current(c) \in Message /\ Current(c).caller = c
        /\ Current(c).attempt = client[c].attempt
    BY <1>1, <1>4 DEF Current, Message, Call
  <2>2. /\ m \in Message /\ m.caller = c /\ m.attempt = client[c].attempt
        /\ m.authorized = TRUE
    BY <2>1 DEF Message
  <2> HIDE DEF call, m
  <2> QED BY <1>3, <2>2 DEF Message
<1>7. /\ client' = [client EXCEPT ![c] = call]
      /\ arriving' = arriving \cup {m} /\ UNCHANGED <<requires, answers, performed>>
  BY DEF Authorize
<1> HIDE DEF call, m
<1>8. ~Sent(m)
  BY <1>1, <1>3, <1>6 DEF Sent
<1> QED BY <1>2, <1>3, <1>4, <1>5, <1>6, <1>7, <1>8, CallSends

LEMMA SucceedKeeps ==
  ASSUME CallsInv, NEW c \in Callers, Succeed(c)
  PROVE  CallsInv'
<1> DEFINE call == [client[c] EXCEPT !.at = IF Operation[c] = "pay" THEN "done" ELSE "check"]
<1>1. client[c] \in Call /\ client[c].attempt \in Nat /\ Operation[c] \in {"pay", "bind"}
  BY WalletConstants DEF CallsInv, CallsTyped, Call
<1>2. call \in Call
  BY <1>1 DEF Call, Place
<1>3. /\ call.at = IF Operation[c] = "pay" THEN "done" ELSE "check"
      /\ call.attempt = client[c].attempt /\ call.authorized = client[c].authorized
  BY <1>1 DEF Call
<1>4. client' = [client EXCEPT ![c] = call] /\ UNCHANGED <<requires, arriving, answers, performed>>
  BY DEF Succeed
<1> HIDE DEF call
<1>5. call.at \in {"done", "check"} /\ (call.at = "check" => Operation[c] = "bind")
  BY <1>1, <1>3
<1>6. call.authorized => requires
  BY <1>3 DEF CallsInv, ChallengesMean
<1>7. ~Quiet(c, call)
  BY <1>5 DEF Quiet
<1>8. call.attempt >= client[c].attempt
  BY <1>1, <1>3
<1>9. call.at \notin {"validate", "sent"}
  BY <1>5
<1>10. Moves(c, call)
  BY <1>3, <1>4, <1>5, <1>6, <1>7, <1>8, <1>9, Zenon DEF Moves
<1> QED BY <1>2, <1>10, CallMoves

LEMMA CallFailKeeps ==
  ASSUME CallsInv, NEW c \in Callers, Fail(c)
  PROVE  CallsInv'
<1>1. PICK kind \in Received(c) \cup Faults :
        kind # "result" /\ Raise(c, Error(CodeOf(kind), kind \in Flagged), kind)
  BY DEF Fail
<1>2. kind \in (Answers \ {"result"}) \cup Faults
  BY <1>1 DEF Received, CallsInv, CallsTyped
<1>3. kind \in Word /\ CodeOf(kind) \in Word
  BY <1>2 DEF Word, ReadOnlyCodes, Answers, Results, Faults, CodeOf
<1>4. Error(CodeOf(kind), kind \in Flagged) \in ErrorOf
  BY <1>3 DEF Error, ErrorOf
<1>5. SaysNotDone(c, Error(CodeOf(kind), kind \in Flagged)) =>
        kind \in {"rpc_error", "challenge", "unauthorized"} /\ kind \notin Faults
  BY <1>2 DEF SaysNotDone, CertainCodes, Error, CodeOf, Flagged, Answers, Results, Faults
<1>6. SaysNotDone(c, Error(CodeOf(kind), kind \in Flagged)) =>
        \A a \in Attempts : ~HasEffect(c, a)
  BY <1>1, <1>5, RefusalIsCertain DEF Fail
<1> QED BY <1>1, <1>3, <1>4, <1>6, RaiseKeeps DEF Fail

(* A binding that moves on after the wallet signed: to its file, or to its *)
(* end.  It is no payment, so that no error of its is trusted.             *)
LEMMA AfterSigning ==
  ASSUME CallsInv, NEW c \in Callers, client[c].at \in {"check", "save"},
         UNCHANGED <<requires, arriving, answers, performed>>,
         \/ \E place \in {"save", "done"} : client' = [client EXCEPT ![c].at = place]
         \/ \E code \in ReadOnlyCodes \cup {"invalid_configuration"}, cause \in {"check", "save"} :
              Raise(c, Error(code, FALSE), cause)
  PROVE  CallsInv'
<1>0. Operation[c] = "bind"
  BY DEF CallsInv, ChallengesMean
<1>1. ASSUME NEW place \in {"save", "done"}, client' = [client EXCEPT ![c].at = place]
      PROVE  CallsInv'
  <2> DEFINE call == [client[c] EXCEPT !.at = place]
  <2>1. client[c] \in Call /\ client[c].attempt \in Nat
    BY WalletConstants DEF CallsInv, CallsTyped, Call
  <2>2. call \in Call
    BY <2>1 DEF Call, Place
  <2>3. /\ call.at = place /\ call.attempt = client[c].attempt
        /\ call.authorized = client[c].authorized
    BY <2>1 DEF Call
  <2>4. client' = [client EXCEPT ![c] = call]
    BY <1>1
  <2> HIDE DEF call
  <2>5. call.authorized => requires
    BY <2>3 DEF CallsInv, ChallengesMean
  <2>6. ~Quiet(c, call) /\ call.at \notin {"validate", "sent"}
    BY <2>3 DEF Quiet
  <2>7. call.attempt >= client[c].attempt
    BY <2>1, <2>3
  <2>8. Moves(c, call)
    BY <1>0, <2>3, <2>4, <2>5, <2>6, <2>7, Zenon DEF Moves
  <2> QED BY <2>2, <2>8, CallMoves
<1>2. ASSUME NEW code \in ReadOnlyCodes \cup {"invalid_configuration"},
             NEW cause \in {"check", "save"}, Raise(c, Error(code, FALSE), cause)
      PROVE  CallsInv'
  <2>1. Error(code, FALSE) \in ErrorOf /\ cause \in Word
    BY DEF Error, ErrorOf, Word
  <2>2. ~SaysNotDone(c, Error(code, FALSE))
    BY <1>0 DEF SaysNotDone
  <2> QED BY <1>2, <2>1, <2>2, RaiseKeeps
<1> QED BY <1>1, <1>2

LEMMA CallCheckKeeps ==
  ASSUME CallsInv, NEW c \in Callers, CheckSignature(c) \/ SaveBinding(c)
  PROVE  CallsInv'
  BY AfterSigning DEF CheckSignature, SaveBinding

LEMMA TryAgainKeeps ==
  ASSUME CallsInv, NEW c \in Callers, TryAgain(c)
  PROVE  CallsInv'
<1> DEFINE call == [client[c] EXCEPT !.at = "retry"]
<1>1. client[c] \in Call /\ client[c].attempt \in Nat
  BY WalletConstants DEF CallsInv, CallsTyped, Call
<1>2. call \in Call
  BY <1>1 DEF Call, Place
<1>3. call.at = "retry" /\ call.attempt = client[c].attempt
      /\ call.authorized = client[c].authorized
  BY <1>1 DEF Call
<1>4. client' = [client EXCEPT ![c] = call] /\ UNCHANGED <<requires, arriving, answers, performed>>
  BY DEF TryAgain
<1> HIDE DEF call
<1>5. \A a \in Attempts : ~HasEffect(c, a)
  BY DEF TryAgain, Quiet, CallsInv, EffectsAreCurrent
<1>6. call.authorized => requires
  BY <1>3 DEF CallsInv, ChallengesMean
<1>7. call.attempt >= client[c].attempt /\ call.at \notin {"validate", "sent", "check"}
  BY <1>1, <1>3
<1>8. Moves(c, call)
  BY <1>3, <1>4, <1>5, <1>6, <1>7, Zenon DEF Moves
<1> QED BY <1>2, <1>8, CallMoves

(* A message that the wallet answers, performing its operation or not.     *)
LEMMA ProcessKeeps ==
  ASSUME CallsInv, NEW m \in arriving, Process(m)
  PROVE  CallsInv'
<1>1. /\ m \in Message /\ Sent(m) /\ m.caller \in Callers /\ m.attempt \in Attempts
      /\ m.authorized => requires
  BY DEF CallsInv, CallsTyped, ChallengesMean, Message
<1>2. /\ arriving' = arriving \ {m} /\ UNCHANGED <<client, requires>>
  BY DEF Process
<1>3. PICK kind \in Answers :
        /\ answers' = answers \cup {[message |-> m, kind |-> kind]}
        /\ kind = "challenge" => requires
        /\ \/ UNCHANGED performed
           \/ /\ requires => m.authorized
              /\ kind \in Results
              /\ performed' = [performed EXCEPT ![m.caller][m.attempt] = @ + 1]
  BY DEF Process, Answer, Answers, Results
<1>4. \A n : Sent(n)' <=> Sent(n)
  BY <1>2 DEF Sent
<1>5. ASSUME NEW d \in Callers, NEW a \in Attempts
      PROVE  /\ Effective(d, a)' = Effective(d, a) /\ Effective(d, a) \in Message
             /\ Effective(d, a).caller = d /\ Effective(d, a).attempt = a
  BY <1>2 DEF Effective, Message, CallsInv, CallsTyped
<1>6. m.authorized = requires => m = Effective(m.caller, m.attempt)
  BY <1>1 DEF Message, Effective
<1>7. m.authorized = requires => performed[m.caller][m.attempt] = 0
  BY <1>1, <1>6 DEF CallsInv, CallsTyped, EffectOnce
<1>8. ASSUME NEW d \in Callers, NEW a \in Attempts
      PROVE  /\ performed[d][a] \in Nat
             /\ \/ performed'[d][a] = performed[d][a]
                \/ /\ d = m.caller /\ a = m.attempt /\ m.authorized = requires
                   /\ kind \in Results
                   /\ performed[d][a] = 0 /\ performed'[d][a] = 1
  <2>1. performed[d] \in [Attempts -> Nat]
    BY DEF CallsInv, CallsTyped
  <2>2. CASE UNCHANGED performed
    BY <2>1, <2>2
  <2>3. CASE /\ requires => m.authorized
             /\ kind \in Results
             /\ performed' = [performed EXCEPT ![m.caller][m.attempt] = @ + 1]
    <3>1. m.authorized = requires
      BY <1>1, <2>3 DEF Message, CallsInv, CallsTyped
    <3>2. performed'[d][a] = IF d = m.caller /\ a = m.attempt THEN performed[d][a] + 1
                                                             ELSE performed[d][a]
      BY <2>1, <2>3 DEF CallsInv, CallsTyped
    <3> QED BY <1>7, <2>1, <2>3, <3>1, <3>2
  <2> QED BY <1>3, <2>2, <2>3
<1>9. CallsTyped'
  <2>1. performed' \in [Callers -> [Attempts -> Nat]]
    BY <1>1, <1>3 DEF CallsInv, CallsTyped
  <2> QED BY <1>1, <1>2, <1>3, <2>1 DEF CallsInv, CallsTyped
<1>10. ChallengesMean'
  BY <1>2, <1>3, <1>4 DEF CallsInv, ChallengesMean
<1>11. AnswersSent'
  BY <1>1, <1>2, <1>3, <1>4 DEF CallsInv, AnswersSent
<1>12. EffectOnce'
  <2> SUFFICES ASSUME NEW d \in Callers, NEW a \in Attempts
               PROVE  /\ performed'[d][a] <= 1
                      /\ performed'[d][a] > 0 => Sent(Effective(d, a))'
                                                /\ Effective(d, a)' \notin arriving'
    BY DEF EffectOnce
  <2>1. CASE performed'[d][a] = performed[d][a]
    <3>1. performed[d][a] <= 1 /\ (performed[d][a] > 0 => Sent(Effective(d, a))
                                                         /\ Effective(d, a) \notin arriving)
      BY DEF CallsInv, EffectOnce
    <3>2. Sent(Effective(d, a))' <=> Sent(Effective(d, a))
      BY <1>2 DEF Sent, Effective
    <3> QED BY <1>2, <1>5, <2>1, <3>1, <3>2
  <2>2. CASE d = m.caller /\ a = m.attempt /\ m.authorized = requires /\ performed'[d][a] = 1
    <3>1. Effective(d, a) = m /\ Effective(d, a)' = m
      BY <1>5, <1>6, <2>2
    <3>2. Sent(Effective(d, a))'
      BY <1>1, <1>2, <3>1 DEF Sent
    <3> QED BY <1>2, <2>2, <3>1, <3>2
  <2> QED BY <1>8, <2>1, <2>2
<1>13. EffectsAreCurrent'
  <2> SUFFICES ASSUME NEW d \in Callers, NEW a \in Attempts, HasEffect(d, a)'
               PROVE  a = client'[d].attempt /\ ~Quiet(d, client'[d])
    BY DEF EffectsAreCurrent, Quiet, SaysNotDone
  <2>1. HasEffect(d, a)
    <3>1. CASE performed'[d][a] = performed[d][a]
      BY <1>2, <1>5, <3>1 DEF HasEffect
    <3>2. CASE d = m.caller /\ a = m.attempt /\ m.authorized = requires
      BY <1>6, <3>2 DEF HasEffect
    <3> QED BY <1>8, <3>1, <3>2
  <2> QED BY <1>2, <2>1 DEF CallsInv, EffectsAreCurrent
<1>14. RefusalsMean'
  <2> SUFFICES ASSUME NEW r \in answers', r.message.authorized = requires,
                      r.kind \in {"rpc_error", "challenge", "unauthorized"}
               PROVE  /\ r.message \notin arriving'
                      /\ performed'[r.message.caller][r.message.attempt] = 0
    BY <1>2 DEF RefusalsMean
  <2>1. CASE r \in answers
    <3>1. r.message \in Message /\ r.message.caller \in Callers /\ r.message.attempt \in Attempts
      BY <2>1 DEF CallsInv, CallsTyped, Message
    <3>2. r.message \notin arriving /\ performed[r.message.caller][r.message.attempt] = 0
      BY <2>1 DEF CallsInv, RefusalsMean
    <3>3. ~(/\ r.message.caller = m.caller /\ r.message.attempt = m.attempt
            /\ r.message.authorized = m.authorized)
      BY <1>1, <3>1, <3>2 DEF Message
    <3> QED BY <1>2, <1>8, <3>1, <3>2, <3>3
  <2>2. CASE r = [message |-> m, kind |-> kind]
    <3>1. r.message = m /\ r.kind = kind
      BY <2>2
    <3> QED BY <1>1, <1>2, <1>7, <1>8, <3>1 DEF Results
  <2> QED BY <1>3, <2>1, <2>2
<1> QED BY <1>9, <1>10, <1>11, <1>12, <1>13, <1>14 DEF CallsInv

LEMMA CallsStep == CallsInv /\ [WalletNext]_walletVars => CallsInv'
<1> SUFFICES ASSUME CallsInv, [WalletNext]_walletVars PROVE CallsInv'
  OBVIOUS
<1>1. CASE UNCHANGED walletVars
  BY <1>1 DEF walletVars, CallsInv, CallsTyped, ChallengesMean, EffectOnce, EffectsAreCurrent,
              RefusalsMean, AnswersSent, Sent, Effective, HasEffect, Quiet, SaysNotDone
<1>2. ASSUME NEW c \in Callers,
             \/ Begin(c) \/ Refused(c) \/ Send(c) \/ Authorize(c) \/ Succeed(c) \/ Fail(c)
             \/ CheckSignature(c) \/ SaveBinding(c) \/ TryAgain(c)
      PROVE  CallsInv'
  BY <1>2, BeginKeeps, RefusedKeeps, SendKeeps, AuthorizeKeeps, SucceedKeeps, CallFailKeeps,
     CallCheckKeeps, TryAgainKeeps
<1>3. ASSUME NEW m \in arriving, Process(m) PROVE CallsInv'
  BY <1>3, ProcessKeeps
<1> QED BY <1>1, <1>2, <1>3 DEF WalletNext

(* Requests under way, effects and answers of a call belong together: each *)
(* attempt has one effect at most, and a request that was refused or       *)
(* challenged had none and is gone.                                        *)
THEOREM CallsHold == WalletSpec => []CallsInv
<1> QED BY InitIsQuiet, CallsStep, PTL DEF WalletSpec

(* However the network delays, loses or duplicates the answers, one call   *)
(* has its operation performed once at most, the digest's second request   *)
(* included.                                                               *)
THEOREM CallsPerformOnce == WalletSpec => []PerformedOncePerCall
<1>1. CallsInv => PerformedOncePerCall
  BY DEF CallsInv, EffectOnce, PerformedOncePerCall
<1> QED BY <1>1, CallsHold, PTL

(* A caller that tries again only after the errors that say that nothing   *)
(* was done has its operation performed once over all its attempts.        *)
THEOREM RetriesPerformOnce == WalletSpec => []PerformedOnce
<1>1. CallsInv => PerformedOnce
  BY DEF CallsInv, EffectsAreCurrent, HasEffect, PerformedOnce
<1> QED BY <1>1, CallsHold, PTL

-----------------------------------------------------------------------------

(* The causes of an error without the flag although the wallet may have    *)
(* performed the operation: the HTTP exception that call does not handle,  *)
(* and what pay, create and the command make of a result after call has    *)
(* returned.                                                               *)
Unmarked == {"broken_http", "malformed_result", "noncanonical_result", "check", "save"}

(* Any other failed call has told the truth: without the flag, none of its *)
(* caller's attempts had an effect or will have one, a request that is     *)
(* still on its way included.                                              *)
UnflaggedMeansNothing ==
  \A c \in Callers :
     /\ client[c].at = "failed" /\ ~client[c].error.outcome_unknown
     /\ client[c].cause \notin Unmarked
     => \A a \in Attempts : ~HasEffect(c, a)

(* A call that raises does so for a fault, which is flagged or unmarked,   *)
(* or for an answer that shows that nothing was done.                      *)
LEMMA RaisingTellsTruth ==
  ASSUME CallsInv, NEW c \in Callers, Refused(c) \/ Fail(c) \/ CheckSignature(c) \/ SaveBinding(c),
         client'[c].at = "failed", ~client'[c].error.outcome_unknown,
         client'[c].cause \notin Unmarked, NEW a \in Attempts
  PROVE  ~HasEffect(c, a)'
<1>1. HasEffect(c, a)' <=> HasEffect(c, a)
  BY DEF Refused, Fail, CheckSignature, SaveBinding, HasEffect, Effective
<1>2. CASE Refused(c)
  BY <1>1, <1>2 DEF Refused, Quiet, CallsInv, EffectsAreCurrent
<1>3. CASE Fail(c)
  <2>1. PICK kind \in Received(c) \cup Faults :
          kind # "result" /\ Raise(c, Error(CodeOf(kind), kind \in Flagged), kind)
    BY <1>3 DEF Fail
  <2>2. client'[c].cause = kind /\ client'[c].error.outcome_unknown = (kind \in Flagged)
    BY <2>1 DEF Raise, Error, CallsInv, CallsTyped, Call
  <2>3. kind \in Answers \cup Faults
    BY <2>1 DEF Received, CallsInv, CallsTyped
  <2>4. kind \in {"rpc_error", "challenge", "unauthorized"} /\ kind \in Received(c)
    BY <2>1, <2>2, <2>3 DEF Answers, Results, Faults, Flagged, Unmarked
  <2> QED BY <1>1, <1>3, <2>4, RefusalIsCertain DEF Fail
<1>4. CASE CheckSignature(c) \/ SaveBinding(c)
  <2>1. client'[c].at # "failed" \/ client'[c].cause \in {"check", "save"}
    BY <1>4 DEF CheckSignature, SaveBinding, Raise, CallsInv, CallsTyped, Call
  <2> QED BY <2>1 DEF Unmarked
<1> QED BY <1>2, <1>3, <1>4

(* What had no effect and is not under way has none later.                 *)
LEMMA EffectsComeFromRequests ==
  ASSUME CallsInv, NEW m \in arriving, Process(m), NEW c \in Callers, NEW a \in Attempts,
         HasEffect(c, a)'
  PROVE  HasEffect(c, a)
<1>1. /\ m \in Message /\ (m.authorized => requires)
      /\ arriving' = arriving \ {m} /\ UNCHANGED <<client, requires>>
  BY DEF CallsInv, CallsTyped, ChallengesMean, Process
<1>2. Effective(c, a)' = Effective(c, a)
  BY <1>1 DEF Effective
<1>3. CASE UNCHANGED performed
  BY <1>1, <1>2, <1>3 DEF HasEffect
<1>4. CASE /\ requires => m.authorized
           /\ performed' = [performed EXCEPT ![m.caller][m.attempt] = @ + 1]
  <2>1. CASE m.caller = c /\ m.attempt = a
    <3>1. m = Effective(c, a)
      BY <1>1, <1>4, <2>1 DEF Message, Effective, CallsInv, CallsTyped
    <3> QED BY <3>1 DEF HasEffect
  <2>2. CASE ~(m.caller = c /\ m.attempt = a)
    <3>1. performed'[c][a] = performed[c][a]
      BY <1>1, <1>4, <2>2 DEF CallsInv, CallsTyped, Message
    <3> QED BY <1>1, <1>2, <3>1 DEF HasEffect
  <2> QED BY <2>1, <2>2
<1> QED BY <1>3, <1>4 DEF Process

(* A step of the caller itself or of another, or of the wallet.            *)
LEMMA TruthStays ==
  ASSUME CallsInv, UnflaggedMeansNothing, [WalletNext]_walletVars
  PROVE  UnflaggedMeansNothing'
<1> SUFFICES ASSUME NEW c \in Callers, client'[c].at = "failed",
                    ~client'[c].error.outcome_unknown, client'[c].cause \notin Unmarked,
                    NEW a \in Attempts
             PROVE  ~HasEffect(c, a)'
  BY DEF UnflaggedMeansNothing
<1>1. CASE UNCHANGED walletVars
  BY <1>1 DEF walletVars, UnflaggedMeansNothing, HasEffect, Effective
<1>2. ASSUME NEW m \in arriving, Process(m)
      PROVE  ~HasEffect(c, a)'
  BY <1>2, EffectsComeFromRequests DEF Process, UnflaggedMeansNothing
<1>3. ASSUME NEW d \in Callers, Refused(d) \/ Fail(d) \/ CheckSignature(d) \/ SaveBinding(d)
      PROVE  ~HasEffect(c, a)'
  <2>1. CASE d = c
    BY <1>3, <2>1, RaisingTellsTruth
  <2>2. CASE d # c
    <3>1. client'[c] = client[c] /\ UNCHANGED <<requires, arriving, performed>>
      BY <1>3, <2>2 DEF Refused, Fail, CheckSignature, SaveBinding, Raise, CallsInv, CallsTyped
    <3> QED BY <3>1 DEF UnflaggedMeansNothing, HasEffect, Effective
  <2> QED BY <2>1, <2>2
<1>4. ASSUME NEW d \in Callers, Begin(d) \/ Send(d) \/ Authorize(d) \/ Succeed(d) \/ TryAgain(d)
      PROVE  ~HasEffect(c, a)'
  <2>1. client'[d].at # "failed" /\ (c # d => client'[c] = client[c])
    <3>1. client \in [Callers -> Call] /\ Idle \in Call
      BY IdleIsCall DEF CallsInv, CallsTyped
    <3>2. CASE Begin(d)
      BY <3>1, <3>2 DEF Begin, Call, Idle
    <3>3. CASE Send(d)
      BY <3>1, <3>3 DEF Send, Call
    <3>4. CASE Authorize(d)
      BY <3>1, <3>4 DEF Authorize, CanAuthorize, Call
    <3>5. CASE Succeed(d)
      BY <3>1, <3>5 DEF Succeed, Call
    <3>6. CASE TryAgain(d)
      BY <3>1, <3>6 DEF TryAgain, Call
    <3> QED BY <1>4, <3>2, <3>3, <3>4, <3>5, <3>6
  <2>2. /\ UNCHANGED <<requires, performed>>
        /\ \A m \in arriving' \ arriving : m.caller = d
    BY <1>4 DEF Begin, Send, Authorize, Succeed, TryAgain, Current
  <2> QED BY <1>4, <2>1, <2>2 DEF UnflaggedMeansNothing, HasEffect, Effective
<1> QED BY <1>1, <1>2, <1>3, <1>4 DEF WalletNext

(* An error without outcome_unknown, pay's or create's, of whatever code,  *)
(* means that nothing was done; the causes of Unmarked are all there are   *)
(* to the contrary.                                                    *)
THEOREM UnflaggedErrorsMean == WalletSpec => []UnflaggedMeansNothing
<1>1. WalletInit => UnflaggedMeansNothing
  BY DEF WalletInit, UnflaggedMeansNothing, Idle
<1>2. CallsInv /\ UnflaggedMeansNothing /\ [WalletNext]_walletVars => UnflaggedMeansNothing'
  BY TruthStays
<1> QED BY <1>1, <1>2, CallsHold, PTL DEF WalletSpec
==============================================================================
