SPECIFICATION Spec
CONSTANTS
  u1 = u1
  u2 = u2
  u3 = u3
  h1 = h1
  h2 = h2
  Users = {u1, u2, u3}
  Stranger = Stranger
  MaxFiles = 2
  MaxPosts = 3
  MaxComments = 4
  MaxLikes = 2
  PageSize = 2
  Slots = {h1, h2}
  Scenes <- MCScenes
SYMMETRY SlotSymmetry
INVARIANTS TypeOK PhotosFollowPosts AvatarHasItsFile OneLikePerUser ReaderSeesEachPost ReaderSeesEachEntry ServerErrorOnlyByRace
CHECK_DEADLOCK FALSE
