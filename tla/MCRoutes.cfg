SPECIFICATION Spec
CONSTANTS
  None = None
  Ids = {i1}
  Seeded = {i1}
  Specs = {a, bad}
  BadSpecs = {bad}
  Tags = {t1}
  Editors = {x1, x2}
  HistoryMax = 2
  MaxVersion = 3
  MaxTick = 1
  CallerIds = {c1, c2}
  Granted = {p1}
  Cns = {n1}
  Admins = {x1, x2}
  MaxCreates = 2
  MaxChanges = 3
  Users = {u0, u1}
  Roles = {rr, oa, r1}
  Orgs = {pf, og}
  Perms = {pr, pu}
  UserPerm = pu
  RolePerm = pr
  OrgPerm = pu
  OrgAdminPerms = {pr}
  FirstUser = u0
  Platform = pf
  RootRole = rr
  OrgAdmin = oa
  Global = Global
  MaxActs = 3
  Root = Root
  Actors <- MCActors
  Requests <- MCRequests
  Tables <- MCTables
  Handlers = {x1, x2}
  Bootstrap = {}
  Configured = {"hmac", "jwt", "mtls"}
  AllowAnon = FALSE
  Window = 1
  CallerTtl = 1
  NonceMax = 1
  MaxTime = 3
  MaxSent = 3
  MaxFailures = 1
  Callers = {c1}
  CallerOrg <- MCCallerOrg
  Policies = {1, 2}
  PolicyOrg <- MCPolicyOrg
  Package <- MCPackage
  NullOrg = NullOrg
  Ttl = 1
  MaxAsked = 2
  MaxBundles = 1
  Jobs = {x1, x2, x3}
  Connections = {k1, k2}
  MaxRollbacks = 1
  Now = 100
  Keys = {"platform-1", "tenant-acme", "webhook-1"}
  Templates <- MCTemplates
  Samples <- MCSamples
  MaxEdits = 3
SYMMETRY MCSymmetry
INVARIANTS
  TypeOK
  HistoryFollows PreviewIsOwn
  ModeHasItsMaterial GrantsAreOurs OneCallerPerCn
  NoEscalation AnAdminStays NothingDangles
  TenantsApart DecisionIsOne
  NoReplayInWindow RowIsRecent
  GrantIsRecent NobodyIsStuck
  DiscoverIsHonest
PROPERTIES
  LockedIsFrozen DroppingNeverGrants
CHECK_DEADLOCK FALSE
