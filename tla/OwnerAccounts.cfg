SPECIFICATION Spec
CONSTANTS
  local = local
  remote = remote
  first = first
  retry = retry
  misuse = misuse
  key = key
  ada = ada
  bob = bob
  acme = acme
  zeta = zeta
  None = None
  Setup = {local, remote}
  Local = {local}
  Registration = {first, retry, misuse}
  Email = {ada, bob}
  EmailOf <- Emails
  Slug = {acme, zeta}
  SlugOf <- Slugs
  Key = {key}
  KeyOf <- Keys
  Policy = "open"
  ClaimLimit = 1
SYMMETRY RetrySymmetry
INVARIANTS
  OneInstallation
  OwnersExist
  OrphansExplained
  PendingExplained
  AnswersTrue
  SetupExclusive
