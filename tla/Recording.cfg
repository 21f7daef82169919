CONSTANTS
  FrameSizes <- MCFrameSizes
  ScreenSizes <- MCScreenSizes
  MaxRecords = 2
  MaxAudio = 1
  Word = 65536
SPECIFICATION Spec
INVARIANTS
  ImagesAreWhole
  ColourStaysWithItsPixel
  PixelsOnce
CHECK_DEADLOCK FALSE
