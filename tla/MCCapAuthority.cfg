SPECIFICATION Spec
CONSTANTS
  owner = owner
  agent = agent
  worker = worker
  guest = guest
  v1 = v1
  v2 = v2
  v3 = v3
  here = here
  there = there
  VERSION_V1 = 1
  SUITE_HYB1 = 1
  FLAG_DELEGATE = "delegate"
  ZeroId = 0
  ZeroNonce = 0
  STORE_CAP = 2
  Versions = {1, 2}
  Suites = {1, 2}
  CapTypes = {1, 2}
  Flags = {"delegate", "spare"}
  Actions = {"read", "write", "admin"}
  CapIds = {0, 1, 2, 3, 4}
  Nonces = {0, 1}
  Resources = {1, 2}
  Digests = {1, 2}
  Times = {2, 3}
  KeyIds <- MCKeys
  Audiences <- MCAudiences
  Keys <- MCKeys
  commit <- MCCommit
  Verifiers <- AuthorityVerifiers
  Stores <- MCAudiences
  AudienceOf <- MCAudienceOf
  StoreOf <- MCAudienceOf
  Presentations <- AuthorityPresentations
  PreSigned <- AuthorityPreSigned
  Signable <- AuthoritySignable
  HalfSignable <- AuthorityHalfSignable
  Revocable <- Nothing
INVARIANTS
  GrantsSigned
  GrantsAttenuate
  DenialHasCause
