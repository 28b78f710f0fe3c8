CONSTANTS
  alice = alice
  bob = bob
  Callers = {alice}
  Operation <- MCOperation
  Credentials <- MCCredentials
  MaxAttempts = 2
SPECIFICATION WalletSpec
CHECK_DEADLOCK FALSE
INVARIANTS LostAnswersFlagged
