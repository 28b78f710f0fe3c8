-------------------------------- MODULE MCWallet ---------------------------------
(* A payer with credentials, and a machine without them that binds an       *)
(* address.  A configuration takes the one whose calls it is about.         *)
EXTENDS WalletRpc

CONSTANTS alice, bob

MCOperation == [c \in Callers |-> IF c = alice THEN "pay" ELSE "bind"]
MCCredentials == [c \in Callers |-> c = alice]
=============================================================================
