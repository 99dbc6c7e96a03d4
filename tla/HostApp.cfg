SPECIFICATION FairSpec
CONSTANTS
  None = None
  Section <- ThreeSections
  NotFound <- DeadLinks
INVARIANTS
  TypeOK
  SectionsFailAlone
  LayoutKnowsTheTeacher
  ExplainsTheRefusal
  WelcomeOnce
PROPERTIES
  ReturnsWhereAsked
  PagesSettle
