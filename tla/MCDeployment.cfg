CONSTANTS
  service = service
  operator = operator
  r1 = r1
  r2 = r2
  r3 = r3
  Terminals = {service, operator}
  Compose = service
  Nobody = Nobody
  LastVersion = 2
  Statements = 2
  Commands <- MCCommands
  Environments <- MCEnvironments
  MainRoutes <- NoRoutes
  Requests = {r1, r2, r3}
  Inputs <- MCInputs
  Rows = {"a"}
  NoRow = NoRow
  Junk = Junk
SPECIFICATION Spec
CONSTRAINT Focus
INVARIANTS
  CleanMeansComplete
  SuccessIsDone
  RunsOnFullSchema
  CutOnlyOnError
PROPERTIES
  BrokenIsLeftAlone
  RequestsEnd
  StopsAfterSignal
