SPECIFICATION Spec
CONSTANTS
  Status <- Kinds
  MaxChanges = 2
INVARIANTS
  TypeOK
  LogAgrees
PROPERTY ImplementsAnswer
CHECK_DEADLOCK FALSE
