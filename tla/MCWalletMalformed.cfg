CONSTANTS
  alice = alice
  bob = bob
  Callers = {bob}
  Operation <- MCOperation
  Credentials <- MCCredentials
  MaxAttempts = 2
SPECIFICATION WalletSpec
CHECK_DEADLOCK FALSE
INVARIANTS MalformedSignaturesFlagged
