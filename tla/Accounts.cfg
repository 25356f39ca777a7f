SPECIFICATION FairSpec
CONSTANTS
  u1 = u1
  u2 = u2
  n1 = n1
  n2 = n2
  n3 = n3
  h1 = h1
  h2 = h2
  Users = {u1, u2}
  Names = {n1, n2, n3}
  FirstName <- RegisteredNames
  Slots = {h1, h2}
  Period = 1
  MaxTime = 3
  MaxFaults = 1
  MaxMoves = 2
INVARIANTS TypeOK AccountFollowsLastTold NameSharedOnlyByRace PaymentsToldTheName
PROPERTIES LastToldIsApplied
CHECK_DEADLOCK FALSE
