---------------------------- MODULE AddressBinding ----------------------------
(***************************************************************************)
(* AddressBindingService: a statement that an address of a network belongs *)
(* to a machine, signed by the machine's identity and by the wallet of the *)
(* address.  create and verify make several calls of one Wallet RPC server *)
(* each, and between two calls its operator may close the wallet and open  *)
(* another, of the same network or not.                                    *)
(*                                                                         *)
(* A signature is what was signed, by whom and how; nobody produces one    *)
(* without the key.  The bindings presented for verification are any       *)
(* arrangement of a statement and two signatures of whatever there are: a  *)
(* signature of something else stands for every one that does not verify.  *)
(***************************************************************************)
EXTENDS Naturals, FiniteSets

CONSTANTS Machines, Networks, Wallets,
          NetworkOf,        \* [Wallets -> Networks]
          Creators,         \* processes that run binding create
          Options,          \* the options that a creator may be run with
          Verifiers,        \* processes that run binding verify
          ByHand,           \* signatures that are made outside of binding create
          Expectations,     \* what a verifier may expect of machine and network
          Anyone,           \* no expectation
          MaxSignatures     \* bound: signatures of machines, and of wallets

(* The primary address of a wallet, a subaddress, an integrated address    *)
(* made of the primary one, and text that no wallet takes for an address.  *)
AddressOf == [wallet : Wallets, type : {"standard", "subaddress", "integrated", "invalid"}]
Statement == [machine : Machines, network : Networks, address : AddressOf]

(* The contexts of an identity signature, and the kinds of a wallet's.     *)
Contexts == {"address-binding", "another"}
Kinds == {"spend", "view"}

MachineSignature == [machine : Machines, context : Contexts, data : Statement]
WalletSignature == [signer : [wallet : Wallets, type : {"standard", "subaddress"}],
                    data : Statement, kind : Kinds]

(* The machine's identity, the type of the address of the configured       *)
(* index, and --allow-standard-address.                                    *)
Option == [machine : Machines, type : {"standard", "subaddress"}, allow_standard : BOOLEAN]

ASSUME BindingConstants ==
  /\ NetworkOf \in [Wallets -> Networks]
  /\ Options \subseteq Option
  /\ ByHand \subseteq MachineSignature \cup WalletSignature
  /\ Expectations \subseteq [machine : Machines \cup {Anyone}, network : Networks \cup {Anyone}]
  /\ MaxSignatures \in Nat

ASSUME AnyoneIsNone == Anyone \notin Machines \cup Networks

Binding == [statement : Statement, identity_signature : MachineSignature,
            wallet_signature : WalletSignature]

VARIABLES options,         \* [Creators -> Options]
          opened,          \* the wallet that the RPC server has open
          creating,        \* [Creators -> where create is]
          machineSigned, walletSigned,   \* the signatures that exist
          made,            \* bindings that create returned
          verifying        \* [Verifiers -> where verify is, and what it answered]

bindingVars == <<options, opened, creating, machineSigned, walletSigned, made, verifying>>

(***************************************************************************)
(* What the signatures of a statement are checked for                      *)
(***************************************************************************)
KeyOf(address) ==
  [wallet |-> address.wallet,
   type   |-> IF address.type = "subaddress" THEN "subaddress" ELSE "standard"]

(* PublicMachineIdentity.verify: the frame names machine and context.      *)
IdentitySigned(s, signature) ==
  signature = [machine |-> s.machine, context |-> "address-binding", data |-> s]

(* The wallet's verify and what is asked of it: good, version 2, not old,  *)
(* and of type spend.                                                      *)
WalletSignedAnyKind(s, signature) ==                                \* mutant
  \E k \in Kinds : signature = [signer |-> KeyOf(s.address), data |-> s, kind |-> k]
WalletSigned(s, signature) ==
  signature = [signer |-> KeyOf(s.address), data |-> s, kind |-> "spend"]

OnOpenedNetwork(address) == NetworkOf[address.wallet] = NetworkOf[opened]

(***************************************************************************)
(* binding create                                                          *)
(***************************************************************************)
NotCreating == [at |-> "idle"]

SelectAddress(c) ==
  /\ creating[c] = NotCreating
  /\ creating' = [creating EXCEPT ![c] =
       [at |-> "validate", address |-> [wallet |-> opened, type |-> options[c].type]]]
  /\ UNCHANGED <<options, opened, machineSigned, walletSigned, made, verifying>>

(* validate_address on the network of the wallet that is open by now, and  *)
(* the identity signs: the network in the statement is that wallet's.      *)
ValidateSelected(c) ==
  LET s == [machine |-> options[c].machine, network |-> NetworkOf[opened],
            address |-> creating[c].address]
      signature == [machine |-> options[c].machine, context |-> "address-binding", data |-> s]
  IN  /\ creating[c].at = "validate"
      /\ OnOpenedNetwork(creating[c].address)
      /\ creating[c].address.type = "standard" => options[c].allow_standard
      /\ Cardinality(machineSigned \cup {signature}) <= MaxSignatures
      /\ machineSigned' = machineSigned \cup {signature}
      /\ creating' = [creating EXCEPT ![c] = [at |-> "sign", statement |-> s]]
      /\ UNCHANGED <<options, opened, walletSigned, made, verifying>>

(* The wallet that is open signs, with its address of the index; it may    *)
(* answer with a signature of another type, or its answer may be lost.     *)
RequestSignature(c) ==
  /\ creating[c].at = "sign"
  /\ \E kind \in Kinds :
       LET signature == [signer |-> [wallet |-> opened, type |-> options[c].type],
                         data |-> creating[c].statement, kind |-> kind]
       IN  /\ Cardinality(walletSigned \cup {signature}) <= MaxSignatures
           /\ walletSigned' = walletSigned \cup {signature}
           /\ \/ creating' = [creating EXCEPT ![c] =
                   [at |-> "check", statement |-> creating[c].statement,
                    signature |-> signature]]
              \/ creating' = [creating EXCEPT ![c] = NotCreating]
  /\ UNCHANGED <<options, opened, machineSigned, made, verifying>>

CheckMadeUnchecked(c) ==                                       \* mutant
  /\ creating[c].at = "check"
  /\ made' = made \cup
       {[statement |-> creating[c].statement,
         identity_signature |-> [machine |-> options[c].machine, context |-> "address-binding",
                                 data |-> creating[c].statement],
         wallet_signature |-> creating[c].signature]}
  /\ creating' = [creating EXCEPT ![c] = NotCreating]
  /\ UNCHANGED <<options, opened, machineSigned, walletSigned, verifying>>

CheckMade(c) ==
  /\ creating[c].at = "check"
  /\ WalletSigned(creating[c].statement, creating[c].signature)
  /\ made' = made \cup
       {[statement |-> creating[c].statement,
         identity_signature |-> [machine |-> options[c].machine, context |-> "address-binding",
                                 data |-> creating[c].statement],
         wallet_signature |-> creating[c].signature]}
  /\ creating' = [creating EXCEPT ![c] = NotCreating]
  /\ UNCHANGED <<options, opened, machineSigned, walletSigned, verifying>>

(* A refusal, a failed call, or the end of the process.                    *)
CreateFails(c) ==
  /\ creating[c] # NotCreating
  /\ creating' = [creating EXCEPT ![c] = NotCreating]
  /\ UNCHANGED <<options, opened, machineSigned, walletSigned, made, verifying>>

(***************************************************************************)
(* binding verify                                                          *)
(***************************************************************************)
NotVerifying == [at |-> "idle"]

(* Bindings that can be put together from signatures that exist.           *)
Presentable ==
  [statement : {g.data : g \in machineSigned \cup walletSigned},
   identity_signature : machineSigned, wallet_signature : walletSigned]

YesOrNo(p) == IF p THEN "yes" ELSE "no"

AsExpected(e, s) == e.machine \in {Anyone, s.machine} /\ e.network \in {Anyone, s.network}

(* _result: what the wallet found of the address and of its signature, and *)
(* what was expected.                                                      *)
Result(call, supported, wallet_signed) ==
  LET s             == call.binding.statement
      binding_valid == /\ supported /\ wallet_signed
                       /\ IdentitySigned(s, call.binding.identity_signature)
      valid         == YesOrNo(binding_valid /\ AsExpected(call.expected, s))
  IN  [at |-> "answered", binding |-> call.binding, expected |-> call.expected,
       binding_valid        |-> YesOrNo(binding_valid),
       authentication_valid |-> IF call.expected.machine = Anyone THEN "null" ELSE valid,
       valid                |-> valid]

(* Whatever its network, the address is none, or cannot be bound, or is    *)
(* not of the network that the binding says.                               *)
Supported(s) ==
  /\ s.address.type \in {"standard", "subaddress"}
  /\ s.network = NetworkOf[s.address.wallet]

BeginVerify(v, b, e) ==
  LET call == [at |-> "own", binding |-> b, expected |-> e]
  IN  /\ verifying[v] = NotVerifying
      /\ verifying' = [verifying EXCEPT ![v] =
           IF Supported(b.statement) THEN call ELSE Result(call, FALSE, FALSE)]
      /\ UNCHANGED <<options, opened, creating, machineSigned, walletSigned, made>>

ValidateOwn(v) ==
  /\ verifying[v].at = "own"
  /\ OnOpenedNetwork(verifying[v].binding.statement.address)
  /\ verifying' = [verifying EXCEPT ![v].at = "check"]
  /\ UNCHANGED <<options, opened, creating, machineSigned, walletSigned, made>>

CheckWalletSignature(v) ==
  LET b == verifying[v].binding
  IN  /\ verifying[v].at = "check"
      /\ OnOpenedNetwork(b.statement.address)
      /\ verifying' = [verifying EXCEPT ![v] =
           Result(verifying[v], TRUE, WalletSigned(b.statement, b.wallet_signature))]
      /\ UNCHANGED <<options, opened, creating, machineSigned, walletSigned, made>>

(* The wallet is of another network, or the call of it fails.              *)
VerifyFails(v) ==
  /\ verifying[v].at \in {"own", "check"}
  /\ verifying' = [verifying EXCEPT ![v] = NotVerifying]
  /\ UNCHANGED <<options, opened, creating, machineSigned, walletSigned, made>>

(***************************************************************************)
(* The operator of the server, and other uses of the keys                  *)
(***************************************************************************)
OpenWallet(w) ==
  /\ w # opened
  /\ opened' = w
  /\ UNCHANGED <<options, creating, machineSigned, walletSigned, made, verifying>>

(* identity sign takes any message and any context; a wallet, this one or  *)
(* another user's, signs any message.                                      *)
SignByHand(signature) ==
  /\ \/ /\ signature \in MachineSignature \ machineSigned
        /\ Cardinality(machineSigned) < MaxSignatures
        /\ machineSigned' = machineSigned \cup {signature}
        /\ UNCHANGED walletSigned
     \/ /\ signature \in WalletSignature \ walletSigned
        /\ Cardinality(walletSigned) < MaxSignatures
        /\ walletSigned' = walletSigned \cup {signature}
        /\ UNCHANGED machineSigned
  /\ UNCHANGED <<options, opened, creating, made, verifying>>

-----------------------------------------------------------------------------

BindingInit ==
  /\ options \in [Creators -> Options]
  /\ opened \in Wallets
  /\ creating = [c \in Creators |-> NotCreating]
  /\ machineSigned = {} /\ walletSigned = {} /\ made = {}
  /\ verifying = [v \in Verifiers |-> NotVerifying]

BindingNext ==
  \/ \E c \in Creators :
       \/ SelectAddress(c) \/ ValidateSelected(c) \/ RequestSignature(c)
       \/ CheckMade(c) \/ CreateFails(c)
  \/ \E v \in Verifiers :
       \/ \E b \in Presentable, e \in Expectations : BeginVerify(v, b, e)
       \/ ValidateOwn(v) \/ CheckWalletSignature(v) \/ VerifyFails(v)
  \/ \E w \in Wallets : OpenWallet(w)
  \/ \E signature \in ByHand : SignByHand(signature)

BindingSpec == BindingInit /\ [][BindingNext]_bindingVars

(***************************************************************************)
(* Properties                                                              *)
(***************************************************************************)

(* docs/address-binding-v1.md, section 1: the controllers of the machine's *)
(* key and of the address's spend key both authorized the statement, each  *)
(* in the way of a binding, and the address is one that can be bound, of   *)
(* the network that the statement says.                                    *)
Consented(s) ==
  /\ [machine |-> s.machine, context |-> "address-binding", data |-> s] \in machineSigned
  /\ [signer |-> s.address, data |-> s, kind |-> "spend"] \in walletSigned
  /\ s.network = NetworkOf[s.address.wallet]

(* Every binding that create returns is one that both consented to, of an  *)
(* address that the options allow, and that verifies wherever the wallet   *)
(* is opened on its network: though get_address, validate_address, sign    *)
(* and verify may each have been answered by another wallet.               *)
CreatedVerify ==
  \A b \in made :
     /\ Consented(b.statement)
     /\ IdentitySigned(b.statement, b.identity_signature)
     /\ WalletSigned(b.statement, b.wallet_signature)
     /\ \E c \in Creators : /\ options[c].machine = b.statement.machine
                            /\ options[c].type = b.statement.address.type
                            /\ options[c].type = "standard" => options[c].allow_standard

(* A binding that is answered to be valid is one that both consented to,   *)
(* whoever arranged its parts and whichever wallets were opened meanwhile; *)
(* one that create returned is never answered to be anything else; and a   *)
(* verifier that expects a machine on a network authenticates nothing but  *)
(* what that very machine consented to, on that network.                   *)
VerdictsExact ==
  \A v \in Verifiers :
     LET b == verifying[v].binding
         e == verifying[v].expected
     IN  verifying[v].at = "answered" =>
            /\ verifying[v].binding_valid = "yes" => Consented(b.statement)
            /\ b \in made => verifying[v].binding_valid = "yes"
            /\ verifying[v].authentication_valid = "yes" =>
                 /\ verifying[v].binding_valid = "yes"
                 /\ e.machine = b.statement.machine
                 /\ e.network \in {Anyone, b.statement.network}
=============================================================================
