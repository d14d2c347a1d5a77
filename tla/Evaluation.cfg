SPECIFICATION Spec
CONSTANT
  Configs <- MCConfigs
INVARIANT TypeOK
INVARIANT FiguresDefined
INVARIANT CallsInOrder
INVARIANT RejectedIsWorst
INVARIANT CountedOnce
INVARIANT CopyPrintsTheSame
INVARIANT SharesAddUp
INVARIANT EveryPartCounts
CHECK_DEADLOCK FALSE
