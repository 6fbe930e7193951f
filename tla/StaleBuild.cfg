SPECIFICATION Spec
CONSTANTS
  orgA = orgA
  pA = pA
  cGlobal = cGlobal
  oA = oA
  oA2 = oA2
  oGlobal = oGlobal
  Orgs = {orgA}
  Null = null
  Policies = {pA}
  Callers = {cGlobal}
  OrgOf <- MCOrgOf
  Regos = {r1}
  NoRego = noRego
  Handlers = {h1}
  Opas = {oA}
  KeyOf <- MCKeyOf
  WarmsUp = FALSE
  Builds = {b1, b2}
  None = none
  Unread = unread
  MaxWrites = 1
  MaxFaults = 0
SYMMETRY Symmetry
INVARIANTS NextPollRebuilds
