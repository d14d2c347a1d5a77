\* The row predecoders of set-associative data arrays.
SPECIFICATION Spec
CONSTANTS
  Requests <- MCRequests
  AddressBits = 12
  LongestBitline <- MCLongest
  WidestWordline <- MCWidest
INVARIANT RowsAreDecoded
