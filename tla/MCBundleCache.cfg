SPECIFICATION Spec
CONSTANTS
  orgA = orgA
  pA = pA
  cGlobal = cGlobal
  oA = oA
  oA2 = oA2
  oGlobal = oGlobal
  Orgs = {orgA}
  Null = null
  Policies = {pA}
  Callers = {cGlobal}
  OrgOf <- MCOrgOf
  Regos = {r1}
  NoRego = noRego
  Handlers = {h1, h2}
  Opas = {oA, oA2}
  KeyOf <- MCKeyOf
  WarmsUp = FALSE
  Builds = {b1, b2}
  None = none
  Unread = unread
  MaxWrites = 2
  MaxFaults = 1
SYMMETRY Symmetry
INVARIANTS TypeOK OrgBundlesFresh
PROPERTIES BundlesAdvance
