\* The processes killed anywhere, up to twice, over three launches.
SPECIFICATION Spec
CONSTANTS
  NumJobs = 2
  NumWorkers = 2
  MaxLaunches = 3
  MaxCrashes = 2
INVARIANTS
  TypeOK
  MarkedHasRow
  RowsBounded
  AllSettled
  SavedCount
  NoLitter
PROPERTIES
  KeepsVerdicts
  SettledStays
  Ends
