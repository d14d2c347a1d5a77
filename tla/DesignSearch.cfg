\* Every kind of run of the program, with and without a design constraint.
SPECIFICATION Spec
CONSTANTS
  NumCells = 2
  NumOrgs = 2
  NumLocal = 1
  NumGlobal = 1
  NumTargets = 2
  BasicLocal <- MCBasicLocal
  BasicGlobal <- MCBasicGlobal
  Inf = 9
  Configs <- MCAllConfigs
  EvalTables <- MCTables
INVARIANTS
  TypeOK
  KeepsTheBest
  RespectsLimits
  CountedMeansFound
  SolutionsReported
  CellLabels
  EveryDesignWritten
  BestWithoutLimits
PROPERTIES
  NeverWorse
  Terminates
