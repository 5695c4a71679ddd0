CONSTANTS
  r1 = r1
  r2 = r2
  r3 = r3
  r4 = r4
  ann = ann
  spaced = spaced
  accented = accented
  bob = bob
  Spellings = {ann, spaced, accented, bob}
  Normal <- MCNormal
  Collated <- MCCollated
  Passwords = {"p", "q"}
  Bad = Bad
  Secrets = {"old", "new"}
  Ttl = 1
  Leeway = 1
  MaxTime = 2
  Requests = {r1, r2, r3}
  Inputs <- MCInputs
SPECIFICATION Spec
SYMMETRY Symmetry
INVARIANTS
  TypeOK
  OneAccountPerAddress
  TokenSpeaksForOwner
  AuthAnswersAreTruthful
