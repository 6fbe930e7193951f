SPECIFICATION FairSpec
CONSTANTS
  None = None
  Rotators = {r1}
  Revokers = {v1}
  MaxVersion = 3
  MaxFaults = 1
  Kids = {k1}
  Urls = {u1, u2}
  Operators = {o1, o2}
  MaxEdits = 4
  MaxRotations = 1
  MaxFetchFaults = 1
  Orgs = {orgA}
  Null = null
  Policies = {pA}
  Callers = {}
  OrgOf <- MCOrgOf
  Regos = {r1}
  NoRego = noRego
  Handlers = {h1}
  Opas = {oA, oA2}
  KeyOf <- MCKeyOf
  WarmsUp = FALSE
  Builds = {b1}
  Unread = unread
  MaxWrites = 2
INVARIANTS
  TypeOK
  SigningKeyStaysActive RegisteredKeysVerify OneKeyPending
  InlineIsSent
PROPERTIES
  TrustRecovers RowsHydrate
  Converges FleetAgrees EveryPollAnswered
CHECK_DEADLOCK FALSE
