SPECIFICATION Spec
CONSTANTS
  u1 = u1
  u2 = u2
  s1 = s1
  s2 = s2
  h1 = h1
  h2 = h2
  NoSub = NoSub
  NoName = NoName
  Names = {n1, n2}
  Users = {u1}
  Subs = {s1, s2}
  Slots = {h1}
  Owner <- OneUser
  System <- AllPayPal
  Period = 1
  MaxTime = 3
  MaxFaults = 1
  MaxMoves = 2
INVARIANTS IInv AtMostOnePeriodAhead
PROPERTIES PaidTimeLostOnlyByRace RenamedOnlyByRename
SYMMETRY NameSymmetry
CHECK_DEADLOCK FALSE
