\* The new bootloader is larger than the old one.
CONSTANTS
  l1 = l1
  l2 = l2
  i1 = i1
  i2 = i2
  i3 = i3
  Loader = {l1, l2}
  Image = {i1, i2, i3}
  LoaderOf <- Loaders
  Boot <- TwoOrThree
  Base <- OnePage
  App <- Apps
  Pages = 8
  First = i1
  Wanted = i2
  Blank = Blank
  None = None
  Spare = 3
SPECIFICATION Spec
INVARIANTS
  CopiesWhole
CHECK_DEADLOCK FALSE
