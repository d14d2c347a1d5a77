\* A crash while a result is written, and the launch that resumes.
SPECIFICATION Spec
CONSTANTS
  NumJobs = 2
  NumWorkers = 1
  MaxLaunches = 2
  MaxCrashes = 1
INVARIANT CountedIsSaved
