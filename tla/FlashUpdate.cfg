\* Bootloaders of three pages with a baseloader of two.  The device may be dead.
CONSTANTS
  l1 = l1
  l2 = l2
  i1 = i1
  i2 = i2
  i3 = i3
  Loader = {l1, l2}
  Image = {i1, i2, i3}
  LoaderOf <- Loaders
  Boot <- ThreePages
  Base <- TwoPages
  App <- Apps
  Pages = 9
  First = i1
  Wanted = i2
  Blank = Blank
  None = None
  Spare = 4
SPECIFICATION FairSpec
INVARIANTS
  TypeOK
  CopiesWhole
  OnlyCopyingBricks
  StartsWholeApp
  AcknowledgedIsFlashed
PROPERTIES
  UpdateSucceeds
CHECK_DEADLOCK FALSE
