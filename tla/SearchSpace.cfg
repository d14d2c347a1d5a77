\* Two cells, up to two forcing lines in any order.
SPECIFICATION Spec
CONSTANT Configs <- MCConfigs
INVARIANTS
  SameForEveryCell
  DataAsConfigured
  TagAsConfigured
  BasicWiresInRange
