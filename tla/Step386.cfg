SPECIFICATION FairSpec
CONSTANTS
  Eip = {0, 1}
  Handler = 1
  Val = {0}
  MaxRun = 2
  MaxShadow = 1
PROPERTY NoInsnPastTrap
PROPERTY ShadowHolds
PROPERTY NmiIsTaken
PROPERTY RunReturnsToHost
