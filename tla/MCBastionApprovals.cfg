SPECIFICATION Spec
CONSTANTS
  None = None
  User <- MCUser
  Dimension <- MCDimension
  Value <- MCValue
  Role <- MCRole
  RolePerms <- MCRolePerms
  InitRoles <- MCInitRoles
  RoleEdits <- MCRoleEdits
  InitAttrs <- MCInitAttrs
  EditAttrs <- MCEditAttrs
  Alias <- MCAlias
  GrantDurations <- NoDurations
  RequestDurations <- MCDurations
  Asset = {a1}
  Request = {r1}
  Grant = {g1, g2}
  Call = {c1, c2}
  DefaultDuration = 1
  MaxDuration = 1
  MaxNow = 2
INVARIANTS TypeOK TwoPersonRule ApprovalLinkage GrantLifetime
PROPERTIES HistoryFinal ScopeEnforced ImplementsJit
SYMMETRY Symmetry
