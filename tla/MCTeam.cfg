CONSTANTS
  r1 = r1
  r2 = r2
  r3 = r3
  r4 = r4
  ann = ann
  bob = bob
  eve = eve
  Users = {ann, bob, eve}
  NoUser = NoUser
  BadRole = BadRole
  Requests = {r1, r2, r3, r4}
  Inputs <- MCInputs
SPECIFICATION Spec
SYMMETRY Symmetry
INVARIANTS
  TypeOK
  ChainOfInvites
  TeamAnswersAreTruthful
PROPERTIES
  AbandonedStaysEmpty
