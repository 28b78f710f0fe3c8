----------------------------- MODULE RequestGate ------------------------------
(***************************************************************************)
(* What a store of disclosure requests promises: a challenge is opened     *)
(* once and spent at most once; a spent one never opens again.             *)
(***************************************************************************)
CONSTANT Challenges

VARIABLES open,    \* challenges that wait for their presentation
          spent    \* challenges that were answered

gateVars == <<open, spent>>

GateInit == open = {} /\ spent = {}

Open(c) ==
  /\ c \notin open \cup spent
  /\ open' = open \cup {c}
  /\ UNCHANGED spent

Spend(c) ==
  /\ c \in open
  /\ open' = open \ {c}
  /\ spent' = spent \cup {c}

GateNext == \E c \in Challenges : Open(c) \/ Spend(c)

GateSpec == GateInit /\ [][GateNext]_gateVars
=============================================================================
