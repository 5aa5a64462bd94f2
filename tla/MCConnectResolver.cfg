SPECIFICATION Spec
CONSTANTS
  None = None
  User <- MCUser
  Dimension <- MCDimension
  Value <- MCValue
  Role <- MCRole
  RolePerms <- MCRolePerms
  InitRoles <- MCInitRoles
  RoleEdits <- BobIsAdmin
  InitAttrs <- MCInitAttrs
  AssetEdits <- MCAssetEdits
  Asset = {a1}
  Grant = {g1}
  Gate = {c1}
  Token = {t1}
  Session = {s1}
  MaxDuration = 1
  TTL = 1
  MaxSessions = 1
  MaxNow = 3
INVARIANTS ResolverNeverDisagrees
