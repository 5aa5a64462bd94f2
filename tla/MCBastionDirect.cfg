SPECIFICATION Spec
CONSTANTS
  None = None
  User <- MCUser
  Dimension <- MCDimension
  Value <- MCValue
  Role <- MCRole
  RolePerms <- MCRolePerms
  InitRoles <- MCInitRoles
  RoleEdits <- MCRoleEdits
  InitAttrs <- MCInitAttrs
  EditAttrs <- MCEditAttrs
  Alias <- MCAlias
  GrantDurations <- MCDurations
  RequestDurations <- NoDurations
  Asset = {a1}
  Request = {}
  Grant = {g1}
  Call = {c1, c2}
  DefaultDuration = 1
  MaxDuration = 1
  MaxNow = 2
 
PROPERTIES DirectStepsSafe
SYMMETRY Symmetry
