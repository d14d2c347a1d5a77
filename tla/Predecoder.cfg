SPECIFICATION Spec
CONSTANT
  Bits = {0, 1, 2, 3, 4, 5, 6, 7, 8, 9, 10, 11, 12, 13, 14, 15, 16, 17, 18,
          19, 20, 21, 22, 23, 24, 25, 26, 27, 28}
INVARIANT TypeOK
INVARIANT DecodesAddress
INVARIANT FanOut
INVARIANT BlockFiguresDefined
INVARIANT EveryPartCounts
CHECK_DEADLOCK FALSE
