SPECIFICATION Spec
CONSTANTS
  MaxLength = 5
  Segment <- AllSegments
  Logins <- SomePaths
  AppCode = "TW"
  School <- Schools
  MK = {"6101"}
  RoleCode <- Roles
  AttrCode <- Attrs
  None = None
INVARIANT LandsOnExactPath
CHECK_DEADLOCK FALSE
