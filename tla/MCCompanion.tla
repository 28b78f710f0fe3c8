------------------------------ MODULE MCCompanion -------------------------------
(* Two clients; one gives up or is rejected and calls again.                *)
EXTENDS Companion

CONSTANTS c1, c2
=============================================================================
