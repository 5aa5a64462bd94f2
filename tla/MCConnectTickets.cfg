SPECIFICATION FairSpec
CONSTANTS
  None = None
  User <- MCUser
  Dimension <- MCDimension
  Value <- MCValue
  Role <- MCRole
  RolePerms <- MCRolePerms
  InitRoles <- MCInitRoles
  RoleEdits <- NoRoleEdits
  InitAttrs <- MCInitAttrs
  AssetEdits <- NoEdits
  Asset = {a1, a2}
  Grant = {}
  Gate = {c1}
  Token = {t1, t2}
  Session = {s1, s2}
  MaxDuration = 1
  TTL = 1
  MaxSessions = 1
  MaxNow = 3
INVARIANTS SingleUse SessionJustified SlotsExact
PROPERTIES TicketsEnd
