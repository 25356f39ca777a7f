SPECIFICATION Spec
CONSTANTS
  e1 = e1
  e2 = e2
  n1 = n1
  n2 = n2
  p1 = p1
  p2 = p2
  g1 = g1
  g2 = g2
  a1 = a1
  h1 = h1
  h2 = h2
  Emails = {e1, e2}
  Names = {n1, n2}
  Passwords = {p1, p2}
  GoogleAccounts = {g1, g2}
  GithubAccounts = {a1}
  EmailOf <- MCEmailOf
  BaseOf <- MCBaseOf
  LongBases = {"base"}
  Slots = {h1, h2}
  MaxUsers = 4
  MaxDevices = 2
  Scenes <- MCScenes
SYMMETRY SlotSymmetry
INVARIANTS TypeOK SharedOnlyByRace NoSessionWithOldPassword OnlyLatestTokenPasses ServerErrorOnlyByRace
PROPERTIES ConfirmedStays
CHECK_DEADLOCK FALSE
