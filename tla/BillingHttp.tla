----------------------------- MODULE BillingHttp -----------------------------
(***************************************************************************)
(* BillingApplication: the billing service behind HTTP.  Each process is a *)
(* worker of the WSGI server, which handles one request at a time with one *)
(* call of the service and maps what becomes of it to a status.  The       *)
(* clients are external: they wait, give up and send the same request      *)
(* again, while the first one may still be queued, or be served by another *)
(* worker; they page through the list with the cursor of the last answer.  *)
(***************************************************************************)
EXTENDS Billing

CONSTANTS Clients,
          Errands,       \* what the clients may be after: a set of functions of Clients
          NoMessage,
          MaxRetries     \* bound: how often a client sends a request again

Errand == [kind : {"none", "create", "verify", "read", "walk"},
           flaw : {0, 400, 401, 404, 405, 411, 413, 415},
           print : Fingerprints \cup {NoKey}, key : Keys \cup {NoKey},
           invoice_id : InvoiceIds \cup {0}, limit : PageSizes \cup {0}, retries : 0..MaxRetries]

ASSUME HttpConstants ==
  /\ \A v, w \in Processes : ServiceNetwork[v] = ServiceNetwork[w]
  /\ Errands \subseteq [Clients -> Errand]
  /\ \A e \in Errands, c \in Clients :
       /\ e[c].kind = "create" => e[c].print \in Fingerprints
       /\ e[c].kind \in {"verify", "read"} => e[c].invoice_id \in InvoiceIds
       /\ e[c].kind = "walk" => e[c].limit \in PageSizes
  /\ MaxRetries \in Nat

(* A request as it was sent: which attempt, and from which cursor on.      *)
Message == [client : Clients, attempt : 0..MaxRetries, after : InvoiceIds \cup {0}]

ASSUME NoMessageIsNone == NoMessage \notin Message

Statuses == {200, 400, 401, 404, 405, 409, 411, 413, 415, 500, 502, 503}

VARIABLES errand,    \* [Clients -> Errand]
          client,    \* [Clients -> where it is, its cursor, and the answer it takes as final]
          posted,    \* requests that no worker has taken up yet
          serving,   \* [Processes -> the request that the worker handles]
          walk       \* history: [Clients -> what a walk had to show, and what it showed]

httpVars == <<errand, client, posted, serving, walk>>
vars == <<billingVars, httpVars>>

Client == [at : {"ready", "waiting", "done"}, attempt : 0..MaxRetries,
           after : InvoiceIds \cup {0}, status : Statuses \cup {0}]
Walk == [known : SUBSET InvoiceIds, listed : SUBSET InvoiceIds, twice : BOOLEAN]

Current(c) == [client |-> c, attempt |-> client[c].attempt, after |-> client[c].after]

IdsOf(rows) == {r.request.invoice_id : r \in rows}

(***************************************************************************)
(* The clients: external                                                   *)
(***************************************************************************)
Ours == {r \in invoices : \A w \in Processes : r.request.network = ServiceNetwork[w]}

Send(c) ==
  /\ client[c].at = "ready" /\ errand[c].kind # "none"
  /\ client' = [client EXCEPT ![c].at = "waiting"]
  /\ posted' = posted \cup {Current(c)}
  /\ walk' = IF client[c].attempt = 0 /\ client[c].after = 0
             THEN [walk EXCEPT ![c].known = IdsOf(Ours)] ELSE walk
  /\ UNCHANGED <<billingVars, errand, serving>>

(* A client sends again what was not answered, or answered with 5xx, as    *)
(* often as it likes.                                                      *)
SendAgain(c) ==
  IF client[c].attempt < errand[c].retries
  THEN [client[c] EXCEPT !.at = "ready", !.attempt = @ + 1]
  ELSE [client[c] EXCEPT !.at = "done"]

GiveUp(c) ==
  /\ client[c].at = "waiting"
  /\ client' = [client EXCEPT ![c] = SendAgain(c)]
  /\ UNCHANGED <<billingVars, errand, posted, serving, walk>>

(***************************************************************************)
(* What a worker answers                                                   *)
(***************************************************************************)

(* next_after: the last id of the page.  An empty page has none, and ends  *)
(* the walk.                                                               *)
NextAfterFirst(rows) == CHOOSE i \in IdsOf(rows) : \A j \in IdsOf(rows) : i <= j    \* mutant
NextAfter(rows) == CHOOSE i \in IdsOf(rows) : \A j \in IdsOf(rows) : j <= i

TurnPage(c, rows) == [client[c] EXCEPT !.at = "ready", !.after = NextAfter(rows)]
Accept(c, status) == [client[c] EXCEPT !.at = "done", !.status = status]

AfterAnswer(c, status, rows) ==
  CASE status >= 500 -> SendAgain(c)
    [] status = 200 /\ errand[c].kind = "walk" /\ rows # {} -> TurnPage(c, rows)
    [] OTHER -> Accept(c, status)

WithPage(shown, ids) == [known |-> shown.known, listed |-> shown.listed \cup ids,
                         twice |-> shown.twice \/ shown.listed \cap ids # {}]

(* The answer reaches the client if it still waits for it, or is lost.     *)
Respond(w, m, status, rows) ==
  /\ serving' = [serving EXCEPT ![w] = NoMessage]
  /\ \/ UNCHANGED <<client, walk>>
     \/ /\ client[m.client].at = "waiting" /\ m = Current(m.client)
        /\ client' = [client EXCEPT ![m.client] = AfterAnswer(m.client, status, rows)]
        /\ walk' = IF status = 200 /\ errand[m.client].kind = "walk"
                   THEN [walk EXCEPT ![m.client] = WithPage(@, IdsOf(rows))]
                   ELSE walk

(* InvoiceNotFound and InvoiceConflict are input errors with a status of   *)
(* their own; a storage error is a MytMachineError of no other kind; an    *)
(* invoice of another network raises ConfigurationError.                   *)
StatusOf(w) ==
  CASE answer[w].outcome = "invoice_not_found"     -> 404
    [] answer[w].outcome = "invoice_conflict"      -> 409
    [] answer[w].outcome = "input_error"           -> 400
    [] answer[w].outcome = "invoice_storage_error" -> 502
    [] OTHER -> IF Visible(w) = answer[w].rows THEN 200 ELSE 503

(***************************************************************************)
(* _dispatch                                                               *)
(***************************************************************************)
Take(w, m) ==
  /\ serving[w] = NoMessage /\ m \in posted
  /\ posted' = posted \ {m}
  /\ UNCHANGED errand

(* A request without the token, of another path or method, with a body or  *)
(* a query that does not parse is refused before any call.                 *)
Refuse(w, m) ==
  /\ Take(w, m)
  /\ errand[m.client].flaw # 0
  /\ Respond(w, m, errand[m.client].flaw, {})
  /\ UNCHANGED billingVars

(* create_invoice raises InputError for terms that outlive MAX_TIMESTAMP.  *)
RefuseTerms(w, m) ==
  LET e == errand[m.client]
  IN  /\ Take(w, m)
      /\ e.flaw = 0 /\ e.kind = "create"
      /\ \E i \in IdsFor(e.print) : RequestFor(e.print, i, now).expires_at > MaxTime
      /\ Respond(w, m, 400, {})
      /\ UNCHANGED billingVars

Dispatch(w, m) ==
  LET e == errand[m.client]
  IN  /\ Take(w, m)
      /\ e.flaw = 0
      /\ \/ e.kind = "create" /\ \E i \in IdsFor(e.print) : BeginCreate(w, e.print, e.key, i)
         \/ e.kind = "verify" /\ BeginVerify(w, e.invoice_id)
         \/ e.kind = "read"   /\ BeginRead(w, e.invoice_id, "read")
         \/ e.kind = "walk"   /\ ListInvoices(w, m.after, e.limit)
      /\ serving' = [serving EXCEPT ![w] = m]
      /\ UNCHANGED <<client, walk>>

(***************************************************************************)
(* The call, and how it ends                                               *)
(***************************************************************************)
Serving(w) == serving[w] # NoMessage /\ UNCHANGED <<errand, posted>>

Proceed(w) ==
  /\ Serving(w)
  /\ ValidateRecipient(w) \/ StoreInvoice(w) \/ Observe(w) \/ FinalizeObservation(w) \/ Reread(w)
  /\ \/ call'[w] # Idle /\ UNCHANGED <<client, serving, walk>>
     \/ call'[w] = Idle /\ Respond(w, serving[w], 400, {})

HttpReply(w) ==
  /\ Serving(w)
  /\ Reply(w)
  /\ Respond(w, serving[w], StatusOf(w), Visible(w))

(* An error of the wallet, of the database or of the program, or a proof   *)
(* that the verification cannot read; or the death of the worker, which    *)
(* answers nothing.                                                        *)
HttpError(w) ==
  /\ Serving(w)
  /\ Interrupted(w)
  /\ \/ \E status \in {400, 500, 502, 503} :
          /\ status = 400 => call[w].at = "verify"
          /\ Respond(w, serving[w], status, {})
     \/ serving' = [serving EXCEPT ![w] = NoMessage] /\ UNCHANGED <<client, walk>>

-----------------------------------------------------------------------------

HttpInit ==
  /\ BillingInit
  /\ errand \in Errands
  /\ client = [c \in Clients |-> [at |-> "ready", attempt |-> 0, after |-> 0, status |-> 0]]
  /\ posted = {}
  /\ serving = [w \in Processes |-> NoMessage]
  /\ walk = [c \in Clients |-> [known |-> {}, listed |-> {}, twice |-> FALSE]]

Surroundings ==
  \/ \E n \in Networks, t \in TxIds : Mine(n, t)
  \/ \E t \in Times : ClockStep(t)

HttpNext ==
  \/ \E c \in Clients : Send(c) \/ GiveUp(c)
  \/ \E w \in Processes :
       \/ \E m \in posted : Refuse(w, m) \/ RefuseTerms(w, m) \/ Dispatch(w, m)
       \/ Proceed(w) \/ HttpReply(w) \/ HttpError(w)
  \/ Surroundings /\ UNCHANGED httpVars

HttpSpec == HttpInit /\ [][HttpNext]_vars

(***************************************************************************)
(* Properties                                                              *)
(***************************************************************************)

(* A client that pages through the list until an empty page is shown every *)
(* invoice that existed when it began, and none twice, though invoices are *)
(* created and expire between its pages and pages are asked for again.     *)
WalksComplete ==
  \A c \in Clients :
     /\ errand[c].kind = "walk" /\ client[c].at = "done" /\ client[c].status = 200
     => walk[c].known \subseteq walk[c].listed /\ ~walk[c].twice

(* A keyed creation of a chosen id that is answered 409 has no invoice and *)
(* never will: not one that an earlier attempt, whose answer was lost,     *)
(* had created, nor one that an attempt still in progress may yet create.  *)
ConflictsStand ==
  \A c \in Clients :
     /\ errand[c].kind = "create" /\ errand[c].key # NoKey
     /\ TermsOf[errand[c].print].invoice_id # GeneratedId
     /\ client[c].status = 409
     => ~\E r \in invoices : /\ r.idempotency_key = errand[c].key
                             /\ r.creation_fingerprint = errand[c].print
=============================================================================
