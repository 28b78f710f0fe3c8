\* two services of two networks share the database; payments of other amounts and addresses
CONSTANTS
  p1 = p1
  p2 = p2
  Processes = {p1, p2}
  InvoiceIds = {1, 2}
  main = main
  test = test
  Networks = {main, test}
  t1 = t1
  t2 = t2
  TxIds = {t1}
  NoTx = NoTx
  ours = ours
  other = other
  foreign = foreign
  Addresses = {ours, other, foreign}
  ValidAddresses = {ours, other}
  Amounts = {1, 2}
  k1 = k1
  Keys = {}
  NoKey = NoKey
  f1 = f1
  f2 = f2
  f3 = f3
  f4 = f4
  Fingerprints = {f1, f2, f3, f4}
  GeneratedId = GeneratedId
  NoRequest = NoRequest
  NoObservation = NoObservation
  Requests <- MCRequests
  ServiceNetwork <- MixedNetworks
  TermsOf <- MixedTerms
  Pays <- MixedPays
  MaxInvoices = 2
  PageSizes = {1}
  MaxConfirmations = 2
  MaxTime = 1
SPECIFICATION BillingSpec
INVARIANTS BillingTypeOK PaidIsBacked
