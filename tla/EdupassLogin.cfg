SPECIFICATION Spec
CONSTANTS
  MaxLength = 5
  Segment <- AllSegments
  Logins <- AllLogins
  AppCode = "TW"
  School <- Schools
  MK = {"6101"}
  RoleCode <- Roles
  AttrCode <- Attrs
  None = None
INVARIANTS TypeOK UserAsGranted RefusalNamesReason UnusedAreReported LandsOnThisSite AccountsAsDocumented
CHECK_DEADLOCK FALSE
