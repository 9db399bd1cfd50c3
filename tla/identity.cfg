SPECIFICATION IdentitySpec
CONSTANTS
  p1 = p1
  p2 = p2
  p3 = p3
  ann = ann
  bob = bob
  t1 = t1
  t2 = t2
  d1 = d1
  u1 = u1
  People = {ann, bob}
  TenantOf <- TheTenantOf
  Unbound = Unbound
  HomeTenant = t1
  MaxIdentity = 2
  MaxDocument = 3
  DocumentOf <- TheDocuments
  Asks <- TheAsks
  DefaultScope = {}
  Requests = {p1, p2}
  MaxCodes = 2
  MaxTokens = 3
  MaxVersion = 2
  MaxLapses = 1
  Verifiers = {p1, p2}
  MaxKid = 3
  Admins = {p1, p2}
  MaxStates = 2
  Servers = {p1, p2}
  ApiUsers = {ann}
  LimitOf <- TheLimits
  WindowTicks = 2
  MaxNow = 2
  MaxChecks = 3
  Users = {p1, p2}
  ScopedManagers = {ann, bob}
  NewRoles = {"employee"}
  OrgUnits = {u1}
  LegacyWork = {d1}
  AccessLife = 1
  RefreshLife = 2
  MaxClock = 1
  MaxChanges = 1
  Calls = {p3}
  MaxRows = 2
SYMMETRY RequestSymmetry
INVARIANTS
  IdentityTypeOK
  GrantsFollowBinding
  OneChainPerCode
  DisconnectedIsRefused
  PublishedKeyVerifies
  OneExchangePerState
  RoleLossTakesEffect
  AdmittedWithinLimit
  ApprovalsAreAudited
CHECK_DEADLOCK FALSE
