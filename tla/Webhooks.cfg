SPECIFICATION FairSpec
CONSTANTS
  m1 = m1
  r1 = r1
  Movements = {m1}
  Requests = {r1}
  MaxTries = 2
  MaxRedrives = 2
  MaxRepeats = 1
  MaxFaults = 1
INVARIANTS
  DeliveriesEarned
  NotifiedMeansDelivered
PROPERTIES
  LetterStaysOpen
  Settled
  RedriveServed
CHECK_DEADLOCK FALSE
