\* eDRAM cells: a bank may turn out invalid after its metrics were computed.
SPECIFICATION Spec
CONSTANTS
  NumCells = 2
  NumOrgs = 2
  NumLocal = 1
  NumGlobal = 1
  NumTargets = 2
  BasicLocal <- MCBasicLocal
  BasicGlobal <- MCBasicGlobal
  Inf = 9
  Configs <- MCFreeConfigs
  EvalTables <- MCLateTables
INVARIANT BestIsValid
