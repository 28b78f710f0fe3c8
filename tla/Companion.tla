-------------------------------- MODULE Companion --------------------------------
(***************************************************************************)
(* The BBS companion and its clients.  BbsBackend.call is two requests,    *)
(* hello and the operation, each on a connection of its own; a client that *)
(* waited long enough gives up, without a retry, while the companion may   *)
(* still be at work.  The companion is a Node process: its handlers        *)
(* interleave where they wait, for a body or for the cryptography, and a   *)
(* flag lets one request in at a time.                                     *)
(***************************************************************************)
EXTENDS Integers, FiniteSets

CONSTANTS Clients,
          MaxRequests     \* bound: how many requests a client sends

ASSUME CompanionConstants == IsFiniteSet(Clients) /\ MaxRequests \in Nat \ {0}

Requests == Clients \X (1..MaxRequests)

(* Where the handler of a request is: before it; in it, awaiting the body  *)
(* or the operation; answered with 200, or with 400 or not at all.         *)
Stages == {"none", "sent", "reading", "executing", "ok", "failed"}

VARIABLES client,      \* [Clients -> what it waits for, and how many requests it made]
          request,     \* [Requests -> Stages]
          busy

companionVars == <<client, request, busy>>

Client == [at : {"idle", "hello", "operation"}, sent : 0..MaxRequests]

Latest(c) == <<c, client[c].sent>>
Move(r, stage) == request' = [request EXCEPT ![r] = stage]

(***************************************************************************)
(* BbsBackend                                                              *)
(***************************************************************************)
SendRequest(c, what) ==
  /\ client[c].sent < MaxRequests
  /\ client' = [client EXCEPT ![c] = [at |-> what, sent |-> @.sent + 1]]
  /\ Move(<<c, client[c].sent + 1>>, "sent")
  /\ UNCHANGED busy

BeginCall(c) == client[c].at = "idle" /\ SendRequest(c, "hello")

ContinueCall(c) ==
  /\ client[c].at = "hello" /\ request[Latest(c)] = "ok"
  /\ SendRequest(c, "operation")

(* The operation was answered; or the call fails, because a request was    *)
(* rejected or nothing came in time.  What was sent is not taken back.     *)
EndCall(c) ==
  /\ client[c].at # "idle"
  /\ client' = [client EXCEPT ![c].at = "idle"]
  /\ UNCHANGED <<request, busy>>

(***************************************************************************)
(* serve                                                                   *)
(***************************************************************************)
AdmitLowering(r) ==                                                 \* mutant
  /\ request[r] = "sent"
  /\ \/ ~busy /\ busy' = TRUE /\ Move(r, "reading")
     \/ busy' = FALSE /\ Move(r, "failed")
  /\ UNCHANGED client

(* The flag is tested and set without a wait in between.  A request that   *)
(* finds it set, or whose head or capability is wrong, is answered 400 and *)
(* leaves the flag alone.                                                  *)
Admit(r) ==
  /\ request[r] = "sent"
  /\ \/ ~busy /\ busy' = TRUE /\ Move(r, "reading")
     \/ busy' = busy /\ Move(r, "failed")
  /\ UNCHANGED client

(* The whole body came, and it is a request. *)
Execute(r) ==
  /\ request[r] = "reading"
  /\ Move(r, "executing")
  /\ UNCHANGED <<client, busy>>

RespondLoweringOnSuccess(r) ==                                      \* mutant
  /\ \/ request[r] = "executing" /\ Move(r, "ok") /\ busy' = FALSE
     \/ request[r] \in {"reading", "executing"} /\ Move(r, "failed") /\ busy' = busy
  /\ UNCHANGED client

(* The result; or an error, of the body, the operation or the connection,  *)
(* which is destroyed when nothing comes for ten seconds or its client has *)
(* gone.  The flag is lowered in either case.                              *)
Respond(r) ==
  /\ \/ request[r] = "executing" /\ Move(r, "ok")
     \/ request[r] \in {"reading", "executing"} /\ Move(r, "failed")
  /\ busy' = FALSE
  /\ UNCHANGED client

(* The process is killed, and started again. *)
Restart ==
  LET lost == {r \in Requests : request[r] \in {"sent", "reading", "executing"}}
  IN  /\ lost # {}
      /\ request' = [r \in Requests |-> IF r \in lost THEN "failed" ELSE request[r]]
      /\ busy' = FALSE
      /\ UNCHANGED client

-----------------------------------------------------------------------------

CompanionInit ==
  /\ client = [c \in Clients |-> [at |-> "idle", sent |-> 0]]
  /\ request = [r \in Requests |-> "none"]
  /\ busy = FALSE

Call(c) == BeginCall(c) \/ ContinueCall(c) \/ EndCall(c)

CompanionNext ==
  \/ \E c \in Clients : Call(c)
  \/ \E r \in Requests : Admit(r) \/ Execute(r) \/ Respond(r)
  \/ Restart

CompanionSpec == CompanionInit /\ [][CompanionNext]_companionVars

(* Sockets have timeouts and the operations of the cryptography end.       *)
FairCompanionSpec ==
  CompanionSpec /\ \A r \in Requests : WF_companionVars(Execute(r) \/ Respond(r))

(***************************************************************************)
(* Properties                                                              *)
(***************************************************************************)

(* Every variable has its type.                                            *)
CompanionTypeOK ==
  /\ client \in [Clients -> Client]
  /\ request \in [Requests -> Stages]
  /\ busy \in BOOLEAN

Inside == {r \in Requests : request[r] \in {"reading", "executing"}}

(* However requests, rejections, errors and restarts interleave, the       *)
(* signing key is used by one request at a time, and the flag is up        *)
(* exactly while there is one: a rejected request does not let a second    *)
(* one in beside the first.                                                *)
OneAtATime ==
  /\ busy <=> Inside # {}
  /\ \A r, q \in Inside : r = q

(* The companion does not stay closed, whatever becomes of the request     *)
(* that it works on and of the client that sent it.                        *)
BusyLowered == busy ~> ~busy
=============================================================================
