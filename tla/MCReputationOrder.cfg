CONSTANTS
  s1 = s1
  s2 = s2
  i1 = i1
  i2 = i2
  subject = subject
  main = main
  tx1 = tx1
  tx2 = tx2
  inv1 = inv1
  inv2 = inv2
  b1 = b1
  Stores = {s1, s2}
  Machines = {i1, i2, subject}
  Networks = {main}
  Outcomes = {"POSITIVE", "NEGATIVE"}
  TxIds = {tx1}
  Addresses = {}
  Invoices = {inv1}
  Bindings = {b1}
  Artifacts <- MCArtifacts
  Policies <- MCPolicies
  Capacity = 8
  MaxDate = 3
SYMMETRY EitherStore
SPECIFICATION ReputationSpec
INVARIANTS SummaryOrderFree
