------------------------------- MODULE WalletRpc --------------------------------
(***************************************************************************)
(* WalletRpcClient.call with a mutation, and the two commands that make    *)
(* one: pay (transfer) and binding create (sign), each up to the answer    *)
(* that it prints.  The wallet and the connection to it are external: a    *)
(* request may reach the wallet after the client has given up, an answer   *)
(* may be lost, delayed, or replaced by something else on the way.         *)
(*                                                                         *)
(* With Digest credentials the same request is sent twice on a connection, *)
(* first without and, when that is challenged, with authorization.         *)
(***************************************************************************)
EXTENDS Integers, FiniteSets

CONSTANTS Callers,
          Operation,     \* [Callers -> {"pay", "bind"}]
          Credentials,   \* [Callers -> BOOLEAN]: username and password are configured
          MaxAttempts    \* bound: how often a caller tries

ASSUME WalletConstants ==
  /\ Operation \in [Callers -> {"pay", "bind"}]
  /\ Credentials \in [Callers -> BOOLEAN]
  /\ MaxAttempts \in Nat \ {0}

Attempts == 1..MaxAttempts
Message == [caller : Callers, attempt : Attempts, authorized : BOOLEAN]

(* What can come back: an answer of the wallet, or what became of it.  The *)
(* result of what it performed may lack a field or have one of a wrong     *)
(* type, or give as text what is no transaction id and no SigV2 signature. *)
Results == {"result", "malformed_result", "noncanonical_result"}
Answers == Results \cup {"rpc_error", "challenge", "unauthorized"}
Faults == {"timeout", "connection", "http_status", "bad_json", "broken_http"}

None == [code |-> "none", outcome_unknown |-> FALSE]

VARIABLES client,        \* [Callers -> where the call is and the error it raised]
          requires,      \* whether the wallet requires authentication
          arriving,      \* messages that the wallet may still come to process
          answers,       \* messages that it answered, with its answer
          performed      \* [Callers -> [Attempts -> times the wallet performed it]]

walletVars == <<client, requires, arriving, answers, performed>>

Idle == [at |-> "idle", attempt |-> 0, authorized |-> FALSE, error |-> None, cause |-> "none"]

Current(c) == [caller |-> c, attempt |-> client[c].attempt, authorized |-> client[c].authorized]

Raise(c, error, cause) ==
  client' = [client EXCEPT ![c].at = "failed", ![c].error = error, ![c].cause = cause]

Error(code, unknown) == [code |-> code, outcome_unknown |-> unknown]

(***************************************************************************)
(* Before the mutation: arguments and address are validated by read-only   *)
(* RPCs, whose failure, of whatever code, is never flagged.                *)
(***************************************************************************)
Begin(c) ==
  /\ client[c].at \in {"idle", "retry"}
  /\ client[c].attempt < MaxAttempts
  /\ client' = [client EXCEPT ![c] = [Idle EXCEPT !.at = "validate",
                                                    !.attempt = client[c].attempt + 1]]
  /\ UNCHANGED <<requires, arriving, answers, performed>>

ReadOnlyCodes == {"rpc_transport_error", "rpc_protocol_error", "rpc_authentication_failed",
                  "wallet_rpc_error", "internal_error"}

Refused(c) ==
  /\ client[c].at = "validate"
  /\ \E code \in ReadOnlyCodes \cup {"invalid_input", "invalid_configuration"} :
       Raise(c, Error(code, FALSE), "not_sent")
  /\ UNCHANGED <<requires, arriving, answers, performed>>

(* _send of the request; the network may deliver it now, later or never.   *)
Send(c) ==
  /\ client[c].at = "validate"
  /\ client' = [client EXCEPT ![c].at = "sent"]
  /\ arriving' = arriving \cup {Current(c)}
  /\ UNCHANGED <<requires, answers, performed>>

(***************************************************************************)
(* The wallet: external                                                    *)
(***************************************************************************)
Answer(m, kind) == answers' = answers \cup {[message |-> m, kind |-> kind]}

Process(m) ==
  /\ m \in arriving
  /\ arriving' = arriving \ {m}
  /\ \/ /\ requires /\ ~m.authorized
        /\ \E kind \in {"challenge", "unauthorized"} : Answer(m, kind)
        /\ UNCHANGED performed
     \/ /\ requires => m.authorized
        /\ \/ /\ Answer(m, "rpc_error")
              /\ UNCHANGED performed
           \/ /\ \E kind \in Results : Answer(m, kind)
              /\ performed' = [performed EXCEPT ![m.caller][m.attempt] = @ + 1]
     \/ /\ m.authorized /\ Answer(m, "unauthorized")
        /\ UNCHANGED performed
  /\ UNCHANGED <<client, requires>>

(***************************************************************************)
(* What the client makes of what it receives                               *)
(***************************************************************************)

(* The error that a call raises with mutation=True, by what came back.  An *)
(* http.client.HTTPException (a broken status line, a chunked body that    *)
(* ends early) is none of the exceptions that call handles, and leaves the *)
(* command line as an internal error.  The results of transfer and sign    *)
(* are validated by pay and create, after call has returned: a missing or  *)
(* mistyped field is an error of the protocol, but a transaction id or a   *)
(* signature of a wrong form is one of the input, as if the caller had     *)
(* given it.                                                               *)
FlaggedUnlessTimeout == {"connection", "http_status", "bad_json"}   \* mutant
Flagged == {"timeout", "connection", "http_status", "bad_json"}

CodeOf(kind) ==
  CASE kind \in {"timeout", "connection", "http_status"} -> "rpc_transport_error"
    [] kind \in {"bad_json", "malformed_result"}         -> "rpc_protocol_error"
    [] kind = "noncanonical_result"                      -> "invalid_input"
    [] kind \in {"challenge", "unauthorized"}            -> "rpc_authentication_failed"
    [] kind = "rpc_error"                                -> "wallet_rpc_error"
    [] kind = "broken_http"                              -> "internal_error"

Received(c) == {a.kind : a \in {b \in answers : b.message = Current(c)}}

CanAuthorizeOnFault(c) ==                                           \* mutant
  client[c].at = "sent" /\ Credentials[c] /\ ~client[c].authorized
CanAuthorize(c) ==
  /\ client[c].at = "sent" /\ Credentials[c] /\ ~client[c].authorized
  /\ "challenge" \in Received(c)

(* The challenge is answered on the same connection. *)
Authorize(c) ==
  /\ CanAuthorize(c)
  /\ client' = [client EXCEPT ![c].authorized = TRUE]
  /\ arriving' = arriving \cup {[Current(c) EXCEPT !.authorized = TRUE]}
  /\ UNCHANGED <<requires, answers, performed>>

Succeed(c) ==
  /\ client[c].at = "sent" /\ "result" \in Received(c)
  /\ client' = [client EXCEPT ![c].at = IF Operation[c] = "pay" THEN "done" ELSE "check"]
  /\ UNCHANGED <<requires, arriving, answers, performed>>

Fail(c) ==
  /\ client[c].at = "sent"
  /\ \E kind \in Received(c) \cup Faults :
       /\ kind # "result"
       /\ kind = "challenge" => ~CanAuthorize(c)
       /\ Raise(c, Error(CodeOf(kind), kind \in Flagged), kind)
  /\ UNCHANGED <<requires, arriving, answers, performed>>

(* create verifies the signature it was given by a read-only RPC, and the  *)
(* command saves the binding to a new file.  Neither failure is flagged.   *)
CheckSignature(c) ==
  /\ client[c].at = "check"
  /\ \/ client' = [client EXCEPT ![c].at = "save"]
     \/ \E code \in ReadOnlyCodes : Raise(c, Error(code, FALSE), "check")
  /\ UNCHANGED <<requires, arriving, answers, performed>>

SaveBinding(c) ==
  /\ client[c].at = "save"
  /\ \/ client' = [client EXCEPT ![c].at = "done"]
     \/ Raise(c, Error("invalid_configuration", FALSE), "save")
  /\ UNCHANGED <<requires, arriving, answers, performed>>

(***************************************************************************)
(* The caller: external.  A careful one tries again only after an error    *)
(* from which it can tell that nothing was done.  For a payment that is an *)
(* unflagged error of a code that the transfer raises only when the wallet *)
(* refused it, and whatever else comes before it raises at any time.  An   *)
(* error of the input is none of these, for a performed transfer whose id  *)
(* is malformed ends in one, and no code at all is for a binding: each     *)
(* that can precede the sign can follow it, from the check or the file.    *)
(***************************************************************************)
CertainCodes == {"rpc_transport_error", "rpc_authentication_failed", "wallet_rpc_error",
                 "invalid_configuration"}

SaysNotDone(c, error) ==
  /\ Operation[c] = "pay"
  /\ ~error.outcome_unknown
  /\ error.code \in CertainCodes

TryAgain(c) ==
  /\ client[c].at = "failed" /\ SaysNotDone(c, client[c].error)
  /\ client' = [client EXCEPT ![c].at = "retry"]
  /\ UNCHANGED <<requires, arriving, answers, performed>>

-----------------------------------------------------------------------------

WalletInit ==
  /\ client = [c \in Callers |-> Idle]
  /\ requires \in BOOLEAN
  /\ arriving = {} /\ answers = {}
  /\ performed = [c \in Callers |-> [a \in Attempts |-> 0]]

WalletNext ==
  \/ \E c \in Callers :
       \/ Begin(c) \/ Refused(c) \/ Send(c) \/ Authorize(c) \/ Succeed(c) \/ Fail(c)
       \/ CheckSignature(c) \/ SaveBinding(c) \/ TryAgain(c)
  \/ \E m \in arriving : Process(m)

WalletSpec == WalletInit /\ [][WalletNext]_walletVars

(***************************************************************************)
(* Properties                                                              *)
(***************************************************************************)

(* One call has its operation performed once at most: an authenticated     *)
(* request follows only one that the wallet challenged, never one whose    *)
(* fate is unknown.                                                        *)
PerformedOncePerCall == \A c \in Callers, a \in Attempts : performed[c][a] <= 1

(* A caller that tries again after the errors that say that nothing was    *)
(* done has the operation performed once at most over all its attempts, a  *)
(* request that arrives late included.                                     *)
PerformedOnce ==
  \A c \in Callers, a, b \in Attempts :
     performed[c][a] > 0 /\ performed[c][b] > 0 => a = b

(* README.md:168-169: "If communication fails after `transfer` or binding  *)
(* `sign` may have reached the wallet, the error contains                  *)
(* "outcome_unknown": true".  Here the request did reach the wallet.       *)
LostAnswersFlagged ==
  \A c \in Callers :
     /\ client[c].at = "failed" /\ client[c].cause \in Faults
     /\ performed[c][client[c].attempt] > 0
     => client[c].error.outcome_unknown

(* docs/address-binding-v1.md:159-160: "A timeout or malformed response    *)
(* after submission reports `outcome_unknown: true`".  Here the response   *)
(* is no JSON, or its result has no signature, or none of the right form.  *)
MalformedSignaturesFlagged ==
  \A c \in Callers :
     /\ Operation[c] = "bind"
     /\ client[c].at = "failed"
     /\ client[c].cause \in {"bad_json", "malformed_result", "noncanonical_result"}
     => client[c].error.outcome_unknown
=============================================================================
