CONSTANTS
  p1 = p1
  p2 = p2
  s1 = s1
  m1 = m1
  m2 = m2
  m3 = m3
  main = main
  test = test
  tx1 = tx1
  tx2 = tx2
  inv1 = inv1
  inv2 = inv2
  b1 = b1
  b2 = b2
  b3 = b3
  b4 = b4
  shared = shared
  own = own
  NoRecord = NoRecord
  Recorders = {p1, p2}
  Stores = {s1}
  Machines = {m1, m2, m3}
  Networks = {main, test}
  Outcomes = {"POSITIVE", "NEGATIVE"}
  TxIds = {tx1, tx2}
  Invoices = {inv1, inv2}
  Bindings = {b1, b2, b3, b4}
  Artifacts <- MCArtifacts
  Policies <- MCPolicies
  Addresses = {shared, own}
  Recipient <- MCRecipient
  AddressFacts <- MCAddressFacts
  WalletNetwork = main
  BindingTerms <- MCBindingTerms
  Capacity = 3
  MaxDate = 1
SYMMETRY AlikeRecorders
SPECIFICATION BridgeSpec
INVARIANTS NeverLockedOut AttributedOnce NewestCounted OnlyAuthorRevokes EvidenceBacked InsertedOnce
