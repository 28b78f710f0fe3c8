CONSTANTS
  p1 = p1
  p2 = p2
  c1 = c1
  c2 = c2
  asked = asked
  other = other
  more = more
  e1 = e1
  k1 = k1
  main = main
  machine = machine
  d1 = d1
  d2 = d2
  Nobody = Nobody
  NoPolicy = NoPolicy
  NoArtifact = NoArtifact
  Processes = {p1}
  Challenges = {c1, c2}
  Policies = {asked, other, more}
  TermsOf <- ThreeAsked
  Digests = {d1, d2}
  Evaluators = {e1}
  BbsKeys = {k1}
  Networks = {main}
  Subjects = {machine}
  Levels <- TwoLevels
  Authorizations <- OneAuthorization
  Revocations = {}
  RequestLifetime = 1
  CredentialLifetime = 2
  IssueFreshness = 1
  Capacity = 3
  MaxTime = 2
  MaxEvidence = 2
  MaxCredentials = 1
  MaxPresentations = 1
SPECIFICATION FairDisclosureSpec
INVARIANTS DisclosureTypeOK GrantsBacked
PROPERTIES LockReleased
