CONSTANTS
  p1 = p1
  p2 = p2
  c1 = c1
  c2 = c2
  asked = asked
  other = other
  more = more
  e1 = e1
  k1 = k1
  main = main
  machine = machine
  d1 = d1
  d2 = d2
  Nobody = Nobody
  NoPolicy = NoPolicy
  NoArtifact = NoArtifact
  Processes = {p1, p2}
  Challenges = {c1, c2}
  Policies = {asked}
  TermsOf <- OneAsked
  Digests = {d1, d2}
  Evaluators = {e1}
  BbsKeys = {k1}
  Networks = {main}
  Subjects = {machine}
  Levels <- OneLevel
  Authorizations <- MCAuthorizations
  Revocations <- MCRevocations
  RequestLifetime = 2
  CredentialLifetime = 2
  IssueFreshness = 1
  Capacity = 4
  MaxTime = 3
  MaxEvidence = 1
  MaxCredentials = 1
  MaxPresentations = 2
SYMMETRY Alike
SPECIFICATION DisclosureSpec
INVARIANTS NeverLockedOut StatusNotAhead OneGrantPerRequest GrantsWithinDeadlines GrantsChronological
PROPERTIES DecisionsStick GateSpec NoGrantForRevokedKey
