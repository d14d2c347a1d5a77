\* Two workers record the first failures.
SPECIFICATION Spec
CONSTANTS
  NumJobs = 2
  NumWorkers = 2
  MaxLaunches = 1
  MaxCrashes = 0
INVARIANT OneHeader
