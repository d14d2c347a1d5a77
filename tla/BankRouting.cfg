\* Powers of two: the banks the program is made for.
SPECIFICATION Spec
CONSTANTS
  Requests <- MCRequests
  AddressBits = 12
  LongestBitline <- MCLongest
  WidestWordline <- MCWidest
INVARIANTS
  LevelsInOrder
  BandwidthKept
  ValidHoldsCapacity
PROPERTIES
  SharesLikeABus
