SPECIFICATION PublicationSpec
CONSTANTS
  w1 = w1
  w2 = w2
  w3 = w3
  Workers <- MCThreeWorkers
  NumFiles = 4
  MayFail = {2}
  Rivalry = TRUE
  MayDie = TRUE
  f1 = f1
  f2 = f2
  f3 = f3
  f4 = f4
  Artifacts <- MCArtifacts
  Manifest = Manifest
INVARIANTS
  WorkersAreDone
  TypeOK
  PublishedWhole
  FailureLeavesNothing
  ArtifactsWhole
  ManifestVouches
PROPERTIES
  RivalKept
  Ends
CHECK_DEADLOCK FALSE
