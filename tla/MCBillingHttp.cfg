\* two workers; creations, verifications and walks that are given up and sent again
CONSTANTS
  p1 = p1
  p2 = p2
  Processes = {p1, p2}
  a = a
  b = b
  d = d
  Clients = {a, b, d}
  InvoiceIds = {1, 2}
  main = main
  Networks = {main}
  t1 = t1
  TxIds = {t1}
  NoTx = NoTx
  ours = ours
  foreign = foreign
  Addresses = {ours, foreign}
  ValidAddresses = {ours}
  Amounts = {1, 2}
  k1 = k1
  Keys = {k1}
  NoKey = NoKey
  f1 = f1
  f2 = f2
  f3 = f3
  f4 = f4
  Fingerprints = {f1, f2, f3, f4}
  GeneratedId = GeneratedId
  NoRequest = NoRequest
  NoObservation = NoObservation
  NoMessage = NoMessage
  Requests <- MCRequests
  ServiceNetwork <- MCNetworks
  TermsOf <- MCTerms
  Pays <- MCPays
  Errands <- MCErrands
  MaxInvoices = 2
  PageSizes = {1, 2}
  MaxConfirmations = 1
  MaxTime = 1
  MaxRetries = 1
SYMMETRY Workers
SPECIFICATION HttpSpec
INVARIANTS OneInvoicePerKey WalksComplete ConflictsStand
