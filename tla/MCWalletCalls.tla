---------------------------- MODULE MCWalletCalls -----------------------------
(* Calls that move money or sign, by a payer with credentials and a machine *)
(* without them; or bindings, while the operator of the server opens two    *)
(* wallets of one network and one of another.  People sign by hand, beside  *)
(* what the machine binds: a statement of the other machine about the same  *)
(* address, one of an integrated address, and one of a wrong network.  The  *)
(* two systems share nothing, so that their interleavings are left out.     *)
EXTENDS WalletRpc, AddressBinding, TLC

CONSTANTS alice, bob, m1, m2, main, test, w1, w2, w3, c1, v1

MCOperation == [c \in Callers |-> IF c = alice THEN "pay" ELSE "bind"]
MCCredentials == [c \in Callers |-> c = alice]

MCNetworkOf == w1 :> main @@ w2 :> main @@ w3 :> test
MCOption(type, allowed) == [machine |-> m1, type |-> type, allow_standard |-> allowed]
MCOptions == {MCOption("subaddress", FALSE), MCOption("standard", FALSE), MCOption("standard", TRUE)}

States(m, n, w, type) ==
  [machine |-> m, network |-> n, address |-> [wallet |-> w, type |-> type]]
Identity(x, s) == [machine |-> s.machine, context |-> x, data |-> s]
Owner(k, s) == [signer |-> KeyOf(s.address), data |-> s, kind |-> k]

Substituted == States(m2, main, w1, "subaddress")
Integrated == States(m1, main, w1, "integrated")
Misplaced == States(m1, test, w1, "subaddress")
MCByHand ==
  {Identity("address-binding", s) : s \in {Substituted, Integrated, Misplaced}} \cup
  {Owner("spend", s) : s \in {Substituted, Integrated, Misplaced}} \cup
  {Identity("another", Substituted), Owner("view", Substituted)}

MCExpectations == {[machine |-> Anyone, network |-> Anyone], [machine |-> m1, network |-> main]}

CallsNext ==
  \/ /\ machineSigned = {} /\ walletSigned = {} /\ opened = w1
     /\ \A c \in Creators : creating[c] = NotCreating
     /\ WalletNext /\ UNCHANGED bindingVars
  \/ /\ \A c \in Callers : client[c] = Idle /\ ~requires
     /\ BindingNext /\ UNCHANGED walletVars

CallsInit == WalletInit /\ BindingInit

CallsSpec == CallsInit /\ [][CallsNext]_<<walletVars, bindingVars>>
=============================================================================
