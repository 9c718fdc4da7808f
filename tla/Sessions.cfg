SPECIFICATION FairSpec
CONSTANTS
  a1 = a1
  s1 = s1
  s2 = s2
  Accounts = {a1}
  Sessions = {s1, s2}
  None = None
  MaxTries = 2
  MaxRestarts = 2
  MaxErrors = 2
INVARIANTS
  OneBrowser
  RunningIsHeld
PROPERTIES
  AliveKeepsRow
  AlertOutlivesDatabase
  WatchedFreesSlot
  Relaunched
