\* calls end for good: with an answer, or with an error that forbids to try again
CONSTANTS
  alice = alice
  bob = bob
  Callers = {alice, bob}
  Operation <- MCOperation
  Credentials <- MCCredentials
  MaxAttempts = 2
  m1 = m1
  m2 = m2
  main = main
  test = test
  w1 = w1
  w2 = w2
  w3 = w3
  c1 = c1
  v1 = v1
  Anyone = Anyone
  Machines = {m1, m2}
  Networks = {main, test}
  Wallets = {w1, w2, w3}
  NetworkOf <- MCNetworkOf
  Creators = {c1}
  Options <- MCOptions
  Verifiers = {v1}
  ByHand <- MCByHand
  Expectations <- MCExpectations
  MaxSignatures = 2
SPECIFICATION CallsSpec
CHECK_DEADLOCK FALSE
INVARIANTS PerformedOncePerCall PerformedOnce CreatedVerify VerdictsExact
