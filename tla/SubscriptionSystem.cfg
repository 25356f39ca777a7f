SPECIFICATION SysSpec
CONSTANTS
  u1 = u1
  s1 = s1
  s2 = s2
  n1 = n1
  h1 = h1
  h2 = h2
  NoSub = NoSub
  NoName = NoName
  Users = {u1}
  Subs = {s1, s2}
  Slots = {h1}
  GwSlots = {h2}
  Owner <- OneUser
  System <- AllPayPal
  Names = {n1}
  FirstName <- OneName
  Period = 1
  MaxTime = 3
  MaxFaults = 1
  MaxMoves = 2
INVARIANTS PaidUserIsBusiness OverdueAwaitsMidnight
PROPERTIES KeepsEndDatesPromise
SYMMETRY RowSymmetry
CONSTRAINTS OneRowWhereFaults
CHECK_DEADLOCK FALSE
