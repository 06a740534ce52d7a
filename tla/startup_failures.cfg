SPECIFICATION ObjectSpec
CONSTANTS
  Subjects = {"engine", "ivps", "vdec", "venc", "resource", "bus", "rules", "clone", "jpeg"}
  N = 2
  MaxInits = 3
INVARIANTS ReleasesHeld DependentsFirst NothingLeft
