\* Two cells under a design constraint: the merge of their winners.
SPECIFICATION Spec
CONSTANTS
  NumCells = 2
  NumOrgs = 2
  NumLocal = 1
  NumGlobal = 1
  NumTargets = 2
  BasicLocal <- MCBasicLocal
  BasicGlobal <- MCBasicGlobal
  Inf = 9
  Configs <- MCBoundConfigs
  EvalTables <- MCTables
INVARIANT BestOfTheBest
