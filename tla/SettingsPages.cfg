SPECIFICATION Spec
CONSTANTS
  Tab = Tab
  Other = Other
  MaxTab = 2
  MaxOther = 1
  MaxFaults = 1
  reconcile = reconcile
  passthrough = passthrough
  Modes <- MCModes
  MaxSecrets = 2
  MaxOrder = 2
  MaxMovement = 1
SYMMETRY Symmetry
CONSTRAINT Untorn
ACTION_CONSTRAINT MadeMeanwhile
INVARIANTS
  RecoveryGoesWithTwoFactor
PROPERTIES
  SwitchIsWhole
CHECK_DEADLOCK FALSE
