# MYT Machine in TLA+

MYT Machine is a non-custodial toolkit with which machines pay each other: a JSON
client of a wallet's RPC interface, billing on top of a SQLite database of invoices,
local reputation stores of signed opinions and observed settlements, and selective
disclosure of reputation with BBS credentials. This directory models the parts of it
that keep state, are shared by processes, cross a transaction with a call to another
process, or may fail half way; TLC checks the models on small instances, and TLAPS
proves their safety for every instance.

Paths below are relative to `src/src/myt_machine/` unless they begin with `docs/`.

## 1. The system

| component | state | operations | works with |
| --- | --- | --- | --- |
| invoice store (`invoice_store.py`, `invoices.py`) | table of invoices; the file | create, get, list, expire, `_finalize`, each one `BEGIN IMMEDIATE` transaction | used by any number of services, threads, processes |
| billing service (`billing.py`, `invoice_verification.py`, `payment_requests.py`) | none of its own; locals of a running call | create_invoice, verify_invoice, get, list, status, require_paid | invoice store, then wallet, then invoice store again |
| billing HTTP application (`billing_http.py`) | the request each worker handles | POST and GET of invoices, verification, the list by pages | one call of the billing service per request; clients that repeat requests |
| disclosure store (`disclosure_store.py`) | requests, issuers, revocations, a floor of the clock; the file | register, refresh_issuer, check_issuer, the open transaction of verification | its processes |
| disclosure service (`disclosure.py`, `disclosure_artifacts.py`) | locals of a running call; artifacts in circulation | create request, issue, present, verify | disclosure store, reputation store, companion |
| companion client and companion (`disclosure_backend.py`, `src/companions/bbs`) | a busy flag, handlers in progress | hello, then one operation | one Node process, any number of clients |
| reputation store, policy, artifacts (`reputation_store.py`, `reputation_policy.py`, `reputation.py`) | artifacts and settlements; the file | import_artifact, `_record_settlement`, reputation_summary | imports from anywhere, in any order |
| settlement bridge (`reputation_settlement.py`) | locals of a running call | record_verified_settlement | billing database, wallet, reputation database |
| wallet RPC client (`rpc.py`, `errors.py`), settlement (`settlement.py`) | locals of a running call | pay (`transfer`), create (`sign`), read-only queries | wallet, over HTTP with Digest authentication |
| address binding (`binding.py`, `binding_artifacts.py`), identity (`identity.py`) | locals of a running call; signatures in circulation | create, verify | several calls of a wallet that may be exchanged between them; the machine's key |
| output files (`identity_keys.py`, `*_files.py`, `*_artifacts.py`, the companion's `files.mjs`) | files | exclusive creation, write, rollback | other commands on the same paths |
| amounts, validation, proofs; command lines | none | encodings, parsing, dispatch | the components above |

What is hard in it:

* **interleaving and stale state.** An invoice is read, the wallet is asked, and the
  invoice is finalized in a second transaction; evidence is counted in one database,
  status checked in another, and a key asked to sign; a paid invoice of one database
  becomes evidence in another.
* **a transaction across a call to another process.** Verification of a presentation
  keeps the write lock while the companion works for up to 30 seconds.
* **clocks** that are read several times in a call and may move backwards.
* **lost answers and retries**: creations with idempotency keys, which HTTP clients send
  again while the first attempt is still queued or served; `transfer` and `sign`,
  which must not be repeated; the second request of a Digest exchange.
* **a walk over pages** of a list that grows and expires between the pages.
* **a server whose state changes under a sequence of calls**: a binding takes four calls of
  one wallet server, whose operator may open another wallet between any two.
* **crashes and rollbacks** at any step; files that are created before they are filled.
* **order**: a revocation imported before, after or without what it revokes; an old
  authorization refreshed after a revocation.
* **bounds**: capacities that several tables share, half-open lifetimes, a single busy flag.

What makes each component correct:

* invoice store: rows can always be read back; a transaction of a network pays at most one
  invoice; invoices move only from pending to paid or expired, and nothing else of them
  changes;
* billing: a paid invoice is backed by a payment that fits it; what a caller was told
  stays true; the retry of a creation yields the same invoice;
* HTTP: clients may repeat every request; a creation that was answered 409 has no invoice
  and never will; a walk to the empty page shows everything that was there when it began;
* disclosure: a request is answered once; a grant lies inside every lifetime it
  rests on, rests on evidence that was counted, and never on a revoked key; decisions are
  never undone; the lock is released;
* reputation: what two stores know determines their summaries, not the order in which it
  came; only its author revokes an opinion; a payment counts once;
* bridge: every counted settlement is a paid invoice, to an address proved to be the
  subject's;
* wallet client: an operation that may have been performed is reported so, and is not
  performed twice;
* binding: what is created verifies, and what verifies both keys consented to, whichever
  wallets answered;
* files: who is given a store can use it; what a command reports as made is there and
  belongs together; what failed leaves nothing behind;
* companion: one request at a time, and never closed for good.

## 2. Modules

| module | models | how |
| --- | --- | --- |
| InvoiceLedger | what the invoice database promises | sets of pending, expired and spent; no clock, no rows |
| WalletNetworks | networks, transactions, addresses | the constants that invoices and settlements share |
| InvoiceStore | `SQLiteInvoiceStore` | one action per transaction; a rollback is an action that changes nothing but the answer |
| Billing | `BillingService`, `WalletPaymentVerifier` | a program counter per process; each store transaction and each RPC is one step; `Interrupted` ends a call anywhere |
| BillingHttp | `BillingApplication` with several workers, and its clients | on Billing: a worker takes up a request, makes one call, answers with a status; clients wait, give up, repeat, turn pages |
| RequestGate | what the table of requests promises | a challenge is opened once and spent once |
| DisclosureStore | `DisclosureStore` | single transactions, and Lock / Use / Unlock for the one that stays open |
| Disclosure | issuance, presentation, verification | steps between transactions, other databases and answers of the companion |
| ReputationStore | `ReputationStore`, several side by side | Import and Record; a refused one changes nothing |
| ReputationPolicy | `reputation_summary` | the loop as a fold over the sorted attestations, against a set defined by counting rivals |
| SettlementBridge | `record_verified_settlement` | on ReputationStore, and InvoiceLedger in the place of the billing database |
| WalletRpc | `WalletRpcClient.call` with a mutation, `pay`, `create` | messages that may arrive late, wallet, answers, error and flag |
| AddressBinding | `AddressBindingService.create` and `verify` | one action per call of the wallet server; `opened` is the wallet that answers it; signatures are ideal |
| Companion | `BbsBackend.call` and `service.mjs` | requests with a stage each, and the flag |
| DatabaseFile | how the three stores open their file | create empty, lock, then initialize or check; deaths and lock timeouts |
| OutputFiles | how commands write outputs | create exclusively, write, roll back; failures, interrupts, deaths |
| MCBilling, MCBillingHttp, MCDisclosure, MCReputation, MCSettlementBridge, MCWallet, MCWalletCalls, MCCompanion, MCLocalFiles | instances for TLC | |
| `*_proofs` (eight modules; EndToEnd_proofs composes billing, HTTP and bridge) | theorems | see section 5 |

How state and actions correspond to the code:

* **InvoiceStore.** `invoices` is the table, a *set of rows*: that ids, keys and
  consumed transactions are unique is enforced by the translated constraints and
  queries, not by the shape of the variable. `now` is the service's clock and moves
  anywhere between two steps. `answer` is what a process was given by its last
  transaction. Every operation but an early refusal sweeps expired invoices first
  (`_expire`), and an exception rolls that sweep back too: `Swept` is part of every
  commit and of no rollback. Validation of the record that `_finalize` is about to
  store (`InvoiceRecord.__post_init__`) is `RecordValid`.
* **Billing.** `call[c]` is the running call of a process with its local variables:
  the request and the observation it carries from one step to the next. A verification
  is BeginVerify (a transaction), Observe (the wallet), then FinalizeObservation (a
  transaction) or Reread. `depth` is the chain: how deep a transaction was ever seen; the
  wallet may report any smaller depth, so that reorganisations are included.
  `told` and `issued` record what callers were told, after the transaction.
* **BillingHttp.** `errand` is what a client is after, with the status that its request is
  refused with before any call, if it is malformed (`flaw`). `posted` are requests that no
  worker has taken up: a set, so that they overtake each other, and one that is given up
  stays in it. `serving[w]` is the request whose call worker `w` makes; the call itself is
  Billing's. A verification may also find its proof unreadable,
  which is a 400 (`HttpError`). Respond ends a request: the answer reaches the client if it
  still waits for that attempt, or is lost. `StatusOf` is the mapping of errors to statuses. `walk` is a
  history of what a walk had to show and what it showed. Clients, and that they turn pages by
  `next_after`, are external: modelled from how the application's answers are meant to be used.
* **DisclosureStore and Disclosure.** Each operation is given the time it reads; `floor`
  is the row below which `_clock` refuses it. `writer` is the process whose
  transaction stays open. A verification is BeginVerify (lock, first checks),
  ProofAccepted (the companion) and Consume (the clock again, all checks
  again, `UPDATE ... used=1`, commit, answer) or Abandon (rollback, for whichever of its
  reasons). Consume has an outcome in which the process dies after the commit: spent,
  and nobody granted. `evidence` changes freely between the steps of an issuance. Evaluators
  and holders check an issuer in this database or in one of their own, which may have been
  refreshed with anything (`CheckOwn`): only what the verifier checks itself restrains a grant.
  The signature of the subject is part of what is genuine, and the holder is the subject.
  Cryptography is ideal: a proof convinces exactly when it was derived, for that very
  request, from a signed credential whose predicate holds. What a verifier is shown
  (`Shown`) includes replays and genuine presentations whose request was exchanged.
* **ReputationStore.** `offered` is a history of what was imported or refused by an
  import; it serves to say when two stores have been given the same. An artifact stands for
  what its id is the digest of; one that differs in its signature alone is refused.
* **SettlementBridge.** BeginRecord, NativeVerified, Recheck and RecordEvidence are the
  look-ups of the code in its order; the ledger, imports and other calls step between them.
  Its processes (`Recorders`) and those of the billing service are apart, as are the
  dates that attestations claim (`Dates`) and the times of invoices.
* **WalletRpc.** A request that was sent stays in `arriving` until the wallet processes
  it, perhaps after the client gave up. Its answers stay available; a client may see
  a fault instead. A result of what was performed may lack a field (`malformed_result`), or
  have a transaction id or a signature of a wrong form (`noncanonical_result`): the latter
  raises `invalid_input`, unflagged, after the fact (`settlement.py:194` through
  `validation.py:15-18`; `binding.py:341-343`). `SaveBinding` is what the command does after
  `create`. `SaysNotDone` is a careful caller: it repeats only after an unflagged error of a
  code that cannot come after the mutation, which leaves four codes for a payment and none for
  a binding.
* **AddressBinding.** `create` is SelectAddress (get_address), ValidateSelected
  (validate_address, then the identity signs), RequestSignature (sign) and CheckMade
  (validate_address and verify, then the binding is returned). `verify` is BeginVerify
  (with the look at the address for any network), ValidateOwn and CheckWalletSignature.
  OpenWallet happens between any two of them. Verified bindings are any arrangement of
  signatures that exist, made by `create` or by hand.
* **Companion.** A handler is `reading` (awaiting its body), `executing` (awaiting the
  cryptography), then answered; test and set of the flag is one step because Node
  does not switch between them. A client that gives up leaves its request behind.
* **DatabaseFile.** `decides` distinguishes the stores: invoice and reputation store
  initialize a file by its content, the disclosure store only when it created it. `LeaveWal` is
  its `PRAGMA journal_mode=DELETE` (`disclosure_store.py:94`), which takes any database, of
  whatever owner, out of WAL mode before it is looked at.
* **OutputFiles.** The kinds differ in whether they look first, whether and after what they
  roll back, and whether the rollback compares the inode or only the name; those that compare it
  must have read it before, and what fails between creation and `fstat` is `unidentified`.

Configurations only give constants their values. Definitions marked `mutant` are
variants of the definition that follows them, with one plausible mistake; nothing uses
them. They document what each property is sensitive to: with the variant in place of
the original TLC refutes the property (for instance, `UNIQUE(network,txid)` dropped
violates TransactionConsumedOnce; verification that does not repeat its checks after
the companion answered violates GrantsWithinDeadlines; a refresh that replaces
revocations violates DecisionsStick). PROJECT.json lists one for every property of a passing run.

## 3. Runs

Distinct states as of this version. On two workers the runs take from a few seconds to three
minutes (billing_http).

| run | instance | states | shows |
| --- | --- | --- | --- |
| `billing_race` | two processes of one service, two invoices of one amount and one transaction that pays either, clock 0..2 | 918,705 | rows decode, a transaction is consumed once, invoices move only forward and implement the ledger, answers and reasons stay true |
| `billing_http` | one application with two workers and eight pairs or triples of errands: one key with two sets of terms, or a keyed creation, of a chosen or a drawn id, that is given up and sent again while another reads; a verification; refused requests; walks by pages of one (each may be asked for twice) and of two while another creates; a keyed creation that is sent again while another without a key, sent again too, fills the table | 1,409,620 | a creation repeated or raced yields one invoice, though the table be full, or a conflict that stands; walks miss nothing and repeat nothing |
| `billing_mixed` | services of two networks on one file, four sets of terms with wrong and refused addresses, proofs of any address, request and soundness, reorganisations | 1,365,912 | paid invoices are backed by payments that fit them |
| `disclosure_replay` | two processes, two challenges, an evaluator authorized twice and revoked once, capacity 4, clock 0..3 | 462,850 | one grant per request, inside every lifetime, in order, none for a revoked key; the store implements the gate, never fills past its capacity and forgets no decision |
| `disclosure_policy` | one process, three policies (two digests, two thresholds) whose requests are exchanged, evidence that rises and falls between 0 and 2 | 343,074 | grants are backed by credentials of that policy that had counted the threshold; the lock is always released |
| `reputation_order` | two stores, three attestations, three revocations (one by another issuer, one of a revocation), a settlement | 80,200 | summaries do not depend on the order of imports |
| `settlement_bridge` | two processes, one store of capacity 3, two invoices, four bindings (two machines of one address; a view-only signature; an address of another network) | 65,066 | evidence is backed, attributed once and reported once; the store never refuses what its counted rows allow; the loop counts the newest that count; only authors revoke |
| `wallet` | a payer with credentials and a machine that binds without, two attempts each; or one creator and one verifier of bindings, a server with two wallets of one network and one of another, two signatures of machines and two of wallets, some made by hand | 2,692,791 | an operation is performed once at most, in a call and over careful repetitions; created bindings verify, and valid verdicts are deserved |
| `wallet_lost` | the payer alone | - | finding 1 |
| `wallet_malformed` | the machine that binds alone | - | finding 2 |
| `local_files` | three openers of one database with two faults; or two commands on two paths with two failures | 64,118 | an opened store is ready, a foreign database is never taken over, everyone gets in; what was made stands, what failed leaves nothing |
| `companion` | two clients of three requests | 35,581 | one request at a time; the flag is always lowered |

**Why the bounds are enough to see something.** Two processes are what a race needs;
the stores are symmetric in processes, and each property that relates calls relates two.
Two invoices and one transaction force the conflict on consumption; a clock of
three or four ticks has a moment before, at and after every boundary, and can go back.
Capacities are chosen so that the table is full in reachable states (a third
invoice, a revocation and a status that do not both fit, a settlement after imports).
`disclosure_replay` has an authorization that ends before, and one that begins after,
another; `reputation_order` has every pair of orders of its artifacts. In `billing_http` one
repetition is enough for two attempts of one request to be served at the same time, by both
workers, in either order, with the answer of either lost; pages of one row make a walk of two
rows turn a page twice. In `wallet` two signatures of each kind are what a binding needs and
one more to confuse it with. Bounds that have
no counterpart in the code (MaxCredentials, MaxPresentations, MaxEvidence, MaxRequests,
MaxAttempts, MaxFaults, MaxFailures, MaxSignatures, MaxRetries) are named as such where they
are declared;
MaxTime stands for MAX_TIMESTAMP, MaxInvoices and Capacity for the stores' own limits.
`local_files` and `wallet` hold two systems each that share nothing, and interleave neither
with the other. Deadlock is
checked except in the three runs of the wallet, `companion` and `local_files`, whose instances
really end: all attempts are used, or everybody has what it wanted.

**Symmetry** of processes, challenges or stores is used in runs that check safety alone.

**Fairness.**

* `FairDisclosureSpec`: a verification that has begun ends (`WF` of its next step or its
  abandonment). Requests to the companion have a timeout (`disclosure_backend.py`), what
  follows is local, and a process that dies has its transaction rolled back by SQLite.
* `FairCompanionSpec`: the handler of an admitted request ends. Sockets have
  timeouts (`service.mjs`) and the cryptography terminates.
* `FileFairness`: an opener goes on, and gets a lock that is free again and again
  (`SF`): SQLite's busy handler polls for seconds, and the transactions it waits for are
  those of other openers. No fairness is assumed of callers, wallets, clocks or retries.

## 4. What the models found

1. **A broken HTTP answer loses the flag** (`wallet_lost`). The repository's README.md:168-169
   promises `"outcome_unknown": true` whenever communication fails after `transfer` or
   `sign` may have reached the wallet. `WalletRpcClient.call` (`rpc.py:373-408`) handles
   HTTPError, TimeoutError, URLError and OSError. An `http.client.HTTPException` (a bad
   status line, an incomplete body) is none of these and ends as `internal_error`,
   without the flag, although the wallet may have paid.
2. **A malformed signature is reported without the flag** (`wallet_malformed`).
   docs/address-binding-v1.md:159-160 says that a malformed response after submission
   reports the flag. `create` validates the signature of the result after `call` has returned:
   one that is missing or no string raises RpcProtocolError (`settlement.py:41-44`), a string
   that is no canonical signature raises InputError, code `invalid_input`
   (`binding.py:341-343`, `56-64`), and neither carries the flag.

What a caller can conclude follows from both, and from what comes after the mutation.
For a payment, an unflagged error says that nothing was done only when its code is
`rpc_transport_error`, `rpc_authentication_failed`, `wallet_rpc_error` or
`invalid_configuration`; `invalid_input` does not, as a performed transfer whose `tx_hash` is
not 64 hexadecimal digits ends in it, and neither do `rpc_protocol_error` and
`internal_error`. For a binding no code says so: verification and saving come after the sign
and fail with the same codes as what comes before.

Six observations that contradict no document of the repository:

* 409 is final for a keyed creation only if its terms choose the id (ConflictsStand). With a
  drawn id the conflict may be one of the id, by chance, and the same request sent again
  succeeds; the answer does not tell the two apart.

* A process that creates the file of a disclosure store and dies before it commits
  leaves an empty file that no later opening accepts; the other two stores recover.
  EveryoneOpens states both.
* The rollbacks of identities and bindings remove whatever file has the name;
  those of other outputs compare device and inode. MadeStands shows that the exclusive
  creation makes this harmless among these commands.
* Opening a disclosure store takes whatever database is there out of WAL mode before it looks
  at the schema, so that a foreign one is refused but its header rewritten. The invoice and the
  reputation store set nothing persistent first. ForeignUntouched states both.
* The rollbacks that compare device and inode (reputation and disclosure outputs, the
  companion's key) can remove nothing if the process fails between creating the file and
  reading its inode.
* `save_disclosure` leaves its file after an interrupt and `_save_request` after any error;
  NothingLeft excepts exactly these and the ones before.

## 5. Theorems

Each theorem holds for every value of the constants under the assumptions that the
modules name (StoreConstants, BillingConstants, BuildableRequests, HttpConstants,
NoMessageIsNone, DisclosureConstants, DisclosureServiceConstants, NoArtifactIsNone,
ReputationConstants, WellFormedArtifacts, PoliciesWellFormed, BridgeConstants,
WalletConstants, BindingConstants, AnyoneIsNone, CompanionConstants, DatabaseFileConstants,
NoFileIsNone). They say that bounds are positive, that "no value" is not a value, that sets
that the code stores are finite, what shape inputs have, and (HttpConstants) that the workers
of one application serve one network. TLC evaluates them in the runs.

**InvoiceStore_proofs.** The invariant is StoreTypeOK, RowsIdentified,
TransactionConsumedOnce and EveryRowDecodes together. They need each other: that a
finalization replaces *one* row rests on the identity of rows; that a sweep keeps rows
readable rests on its touching pending ones only. Proved: StoreTypeCorrect,
StoredRowsDecode, NoDoubleConsumption, IdentitiesUnique, RowsEvolveLegally, and
StoreImplementsLedger, the refinement of InvoiceLedger.

**Billing_proofs.** Every step of the service is a step of the store or leaves it alone
(BillingImplementsStore), so that the store's theorems hold of the service
(BillingConsumesOnce, BillingImplementsLedger). The invariant adds what calls carry: an
observation about to be finalized fits its request and names a transaction that the
chain buried deep enough; it stays true while others run, because terms do not change and
`depth` only grows. From it: PaymentsBackInvoices, ToldStatesStand, KeysNameOneInvoice.
ReasonsAgree needs what the reason of a verification says about the answer it waits for
(`ReasonsKnown`): `confirmed` goes with an answer that is decided, whoever decided it.
That no keyed creation is refused for want of room while its invoice exists (the second part of
OneInvoicePerKey) must survive until the refusal is answered: the table is finite and only
grows, so that once it is full no key is added (FullForGood).

**BillingHttp_proofs.** Whatever a worker does to the table or to its call, the service does
(HttpImplementsBilling): so that every theorem about the service holds behind HTTP,
RetriesNameOneInvoice among them. For the rest the invariant has three parts. *The table*:
rows have ids that their terms allow, and a creation that conflicts is blocked (`Blocked`):
its key, or its id, belongs to a row of other terms or of another key, and rows do not change
either. *The workers* (`ServesWell`): a call is the one its request asks for, and the page that
a worker holds for a walk shows what the walk must see (`Shows`), though it was read before it is
answered. *The clients* (`WalkOK`, `ConflictOK`): a walk has shown everything it had to up to
its cursor, and nothing beyond. A page of a list is shown to be a prefix of what follows the
cursor (PageIsPrefix), empty only if nothing follows; this is where the order of ids, the
limit and the finiteness of the table are used. An old answer cannot disturb a client, because
a message names its attempt and its cursor. From it: ConflictAnswersStand, WalksShowAll.

**Disclosure_proofs.** *The database.* The invariant bounds the tables by the capacity, makes
challenges name one row, puts every check below the floor and the floor below the time
of an open transaction. Without the last part the commit of a verification could set
the floor back. Proved: NeverLockedOut (with cardinalities of the unions a refresh makes),
StatusNotAhead, DecisionsStick, and the refinement of RequestGate.

*The calls* step the store by its operations (ServiceImplementsStore). The
invariant says what each program place knows (`SessionOK`: a credential
about to be signed is honest, a presentation about to be derived is backed, one about to be
consumed was derived) and relates grants to the store (`GrantsInv`: every grant is at or
before the floor and its request is answered). OneGrantPerRequest then follows because
Consume needs an unanswered request; GrantsChronological because it moves the floor;
GrantsBacked, GrantsWithinDeadlines and NoGrantForRevokedKey because the checks are made
in the transaction that consumes.

**Reputation_proofs.** Stores stay within their capacity and attribute payments once. What a
store holds was offered to it, and while it has room it holds every attestation and every
authorized revocation that was ever offered (`OffersInv`); of revocations it may lack those
that, by what is there, are not their author's. Two stores that were offered the same
therefore agree on all that a summary looks at, in whichever order it came
(SummariesOrderFree), and only an author's revocation takes effect (AuthorsRevoke).
*The loop* of the policy is a fold over a sequence that is chosen, and both are opened up. No
induction theorem of the library can be used here, so induction is derived, for a set
of numbers instead of a predicate, from the well-foundedness of `<` (Induction). That a sequence
sorted as the loop wants exists is shown by the ranks of its elements (SortedSorts); the
fold is a recursive function, a CHOOSE, that is shown to exist (Iterates) and then unrolled
step by step (LoopSteps). The invariant of the loop is that after k steps the accepted are the
newest of each issuer among the first k. From it: LoopCountsNewest, then
IssuersStayBounded (no issuer adds more to a summary than the limit, whatever it signs, and
exactly the smaller of limit and supply) and StrangersDoNotCount (what an issuer signs that is not
trusted changes nothing).
*The bridge* steps the stores by their operations (BridgeImplementsStores);
a call beyond its first step holds a spent record and an owning binding, after
verification a valid one, which the ledger's growth preserves. From it: CountedIsPaid
and ToldOnce. That the ledger is a function both ways (`LedgerSound`) makes stores that share
nothing agree (StoresNeverContradict); with the loop it gives OpinionsArePaid.

**EndToEnd_proofs.** The bridge is specified over a ledger, the billing service over rows.
`System` is the conjunction of both specifications and of `Joined`, which reads the ledger off
the rows; the theorems assume `SharedInvoices`: the invoices of the bridge are the payment
requests of the service (the evidence holds the digest of the whole request,
`reputation_settlement.py:88`), and the recipient is the one a request names. The service then does to
the ledger only what the bridge expects (BillingDrivesLedger), and the program that runs steps
of either in turns is such a system (InterleavingsCompose), so that the conjunction is not empty.
From PaymentsBackInvoices, BillingConsumesOnce and CountedIsPaid follows
CountedPaymentsAreReal: a counted settlement is one paid row, its transaction pays the row's
amount to the address that machine and wallet bound, was as deep as required, and pays no other
row; OpinionsRestOnPayments takes this to the opinions that a policy accepts, and
HttpPaymentsAreReal to invoices made and verified behind HTTP.

**Wallet_proofs.** *Calls*: a request that was refused or challenged had no effect and is gone
(`RefusalsMean`), an attempt has at most one effect (`EffectOnce`), and an attempt that is over
with an error that `SaysNotDone` trusts has none and leaves no message that could still have
one. From this invariant (CallsHold): CallsPerformOnce and RetriesPerformOnce.
UnflaggedErrorsMean makes the findings exact: an error without `outcome_unknown` means that
nothing was done and nothing will be, unless it was raised for a broken HTTP answer, for a
malformed or noncanonical result, or by the verification or the saving of a binding just made.
*Bindings*: the invariant says of each place of `create` and `verify` which signatures exist for the statement
they carry; signatures are never taken back. From it: CreatedBindingsVerify and
AnsweredVerdictsExact.

**Local_proofs.** *Database files*: OpenedIsReady and ForeignNotTaken, from the fact that the
file an opener created is empty or ready. *Outputs*: which parts a command holds is a function of where
it is (`Held`, `Written`); a file that it holds is its own, whole once written, and nobody else
removes it, because whoever rolls back holds what it removes. From this (OutputsHold):
OutputsStand and FailuresLeaveNothing. *Companion*: OneAtATime is not inductive, as a
client could send anew a request that a handler works on; UnsentIsNowhere (what is beyond a
client's counter has not been sent) excludes that.

**Only model-checked.** Liveness: LockReleased, BusyLowered, EveryoneOpens. They rest on fairness,
of which the provers know nothing (ENABLED). Every other property of a passing run is stated by a
theorem.

## 6. What is not modelled

* Encodings and digests of identities, bindings, attestations and credentials: functions of
  their inputs; digests do not collide, and valid signatures are those that were made.
* Parsing and formatting of amounts, addresses and artifacts (`amounts.py`, `validation.py`,
  `proofs.py`): no state, one expression each, and covered by examples in the tests.
* The queries of `settlement.py`. Those that make several calls of the wallet (`status`,
  `sign_message`) may, like `create`, be answered by two wallets; unlike it they check
  and promise nothing about that, so there is no property to state.
* Of `billing_http.py`: the reading of headers and bodies (a request that does not get through
  has a `flaw`), and the limit on connections of the server.
* Authorizations and revocations of issuers as operations: Disclosure has them as artifacts
  that exist from the start and are used in any order.
* Command lines but for what becomes of errors; checks of owner, mode and links of files.
* SQLite itself: a transaction is atomic, durable once committed, and excludes other writers.

## 7. Plan

Done, in this order: billing, disclosure, reputation and bridge, wallet client, files and
companion; the HTTP application on top of billing, bindings through an exchanged wallet; the
theorems above, and with them the bridge over the billing service itself. Next:

1. theorems that relate what is proved of a component to what its callers need: bindings that
   `create` returned to the settlements that name them, commands that exit successfully to the
   stores they opened;
2. the transfer status of `settlement.py` (pending, confirmed, failed) against a chain, and a
   payer that combines it with the flag to repeat a payment;
3. making authorizations and revocations as actions of Disclosure;
4. amounts as a pure module, the normalisation against a reference definition over bounded
   inputs, with widths and limits.
