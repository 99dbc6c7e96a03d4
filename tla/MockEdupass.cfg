SPECIFICATION Spec
CONSTANTS
  None = None
  Unreadable = Unreadable
  Unknown = Unknown
  Env <- AllEnvs
  Client <- Clients
  Asked <- SomeAsked
  MaxLogins = 3
  MaxBoots = 2
INVARIANTS TypeOK SignsInAsAsked ClientIsTheRegistered RestartsAreRecovered
CHECK_DEADLOCK FALSE
