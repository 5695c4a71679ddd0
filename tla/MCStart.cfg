CONSTANTS
  service = service
  operator = operator
  r1 = r1
  r2 = r2
  r3 = r3
  Terminals = {service, operator}
  Compose = service
  Nobody = Nobody
  LastVersion = 2
  Statements = 2
  Commands <- MCCommands
  Environments <- ComposeEnvironments
  MainRoutes <- HealthRoute
  Requests = {r1, r2, r3}
  Inputs <- MCInputs
  Rows = {"a"}
  NoRow = NoRow
  Junk = Junk
SPECIFICATION Spec
CONSTRAINT Focus
INVARIANTS
  StartDoesNotPanic
