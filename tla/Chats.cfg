SPECIFICATION Spec
CONSTANTS
  u1 = u1
  u2 = u2
  u3 = u3
  h1 = h1
  h2 = h2
  s1 = s1
  s2 = s2
  Users = {u1, u2, u3}
  Stranger = Stranger
  NoWire = NoWire
  MaxMessages = 3
  Slots = {h1, h2}
  Wires = {s1, s2}
  Scenes <- MCScenes
SYMMETRY MCSymmetry
INVARIANTS TypeOK StaysUntilAskedFor ChatOfTheTwo FilesGoWithMessages AddresseeIsTold ReaderSeesAll
CHECK_DEADLOCK FALSE
