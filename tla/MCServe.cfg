CONSTANTS
  r1 = r1
  r2 = r2
  r3 = r3
  ann = ann
  bob = bob
  red = red
  blue = blue
  A = A
  B = B
  Users = {ann, bob}
  Teams = {red, blue}
  Texts = {A, B}
  Null = Null
  Zero = Zero
  NoUser = NoUser
  Invalid = Invalid
  InvalidatedPages = 1
  UserId <- MCUserId
  Requests = {r1, r2}
  InitialMembers <- MCMembers
  Inputs <- MCServeInputs
  InitialTasks <- MCTwoTeams
SPECIFICATION FairSpec
INVARIANTS
  AnswersAreTruthful
  MembersOnly
  TopCreatorsAreTop
PROPERTIES
  OrphansAreAssigned
  DoneIsCounted
  EveryRequestEnds
