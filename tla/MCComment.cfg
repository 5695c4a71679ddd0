CONSTANTS
  r1 = r1
  r2 = r2
  r3 = r3
  ann = ann
  bob = bob
  red = red
  blue = blue
  Users = {ann, bob}
  Teams = {red, blue}
  NotJSON = NotJSON
  Requests = {r1, r2, r3}
  Inputs <- MCInputs
  InitialTasks <- MCTasks
  InitialMembers <- MCMembers
  MaxTasks = 2
SPECIFICATION Spec
CONSTRAINT OneScenario
SYMMETRY Symmetry
INVARIANTS
  TypeOK
  CommentsOfMembers
  CommentAnswersAreTruthful
  ListShowsAcknowledged
  LaterCommentsComeLater
