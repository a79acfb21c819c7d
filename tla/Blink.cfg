\* Three elements, four places, rows of two columns.
CONSTANTS
  NODES = 3
  SCREEN = 4
  COLUMNS = 2
  OFFSET = 1
  LENGTH = 1
  ON_LENGTH = 2
  OFF_LENGTH = 1
  Locations = {1, 2}
  Texts <- MCTexts
SPECIFICATION Spec
INVARIANTS
  ListIntact
  SyncedTogether
  ScreenFollowsStatus
  FramesMerged
