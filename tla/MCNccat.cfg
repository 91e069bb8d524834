SPECIFICATION Spec
CONSTANTS
  Option <- NccatOption
  Flag <- NccatFlag
  Provides <- NccatProvides
  Conflicts <- NccatConflicts
  Requires <- NccatRequires
  Required <- NccatRequired
  TakesArg <- NccatTakesArg
  Checked <- NccatChecked
  Files <- NccatFiles
  Helps <- NccatHelps
  Arg0 <- SocketTypes
  Words <- SomeWords
  MaxOptions = 4
  Intervals = {0, 2}
  PerSecond = 2
  MaxTime = 5
INVARIANTS TypeOK AcceptedCompatible AcceptedSensible SendsData
PROPERTIES NotTooOften
CHECK_DEADLOCK FALSE
