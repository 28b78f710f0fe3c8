---------------------------- MODULE WalletNetworks ----------------------------
(***************************************************************************)
(* What invoices, bindings and settlements all speak about: the networks   *)
(* that wallets are opened on, the transactions that wallets see there,    *)
(* and the addresses that these pay.                                       *)
(***************************************************************************)
CONSTANTS Networks, TxIds, Addresses
=============================================================================
