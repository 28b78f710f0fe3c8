\* two processes of one service, two invoices that one transaction could pay, no keys
CONSTANTS
  p1 = p1
  p2 = p2
  Processes = {p1, p2}
  InvoiceIds = {1, 2}
  main = main
  test = test
  Networks = {main}
  t1 = t1
  t2 = t2
  TxIds = {t1}
  NoTx = NoTx
  ours = ours
  other = other
  foreign = foreign
  Addresses = {ours}
  ValidAddresses = {ours}
  Amounts = {1}
  k1 = k1
  Keys = {}
  NoKey = NoKey
  f1 = f1
  f2 = f2
  f3 = f3
  f4 = f4
  Fingerprints = {f1, f2}
  GeneratedId = GeneratedId
  NoRequest = NoRequest
  NoObservation = NoObservation
  Requests <- MCRequests
  ServiceNetwork <- RaceNetworks
  TermsOf <- RaceTerms
  Pays <- RacePays
  MaxInvoices = 2
  PageSizes = {1}
  MaxConfirmations = 1
  MaxTime = 2
SYMMETRY AlikeProcesses
SPECIFICATION BillingSpec
INVARIANTS EveryRowDecodes TransactionConsumedOnce AnswersStand ReasonAgrees
PROPERTIES LegalTransitions LedgerSpec
