SPECIFICATION FairSpec
CONSTANTS
  Handles = {1, 2, 3, 4}
  MaxVideos = 2
  Sizes = {1, 2}
  HeaderSize = 1
  Width = 4
  MaxBytes = 5
INVARIANTS
  CallbacksHaveData
  NothingLeft
  HeaderTellsLength
PROPERTIES
  EndsWhenTold
