SPECIFICATION FairSpec
CONSTANTS
  Workers = {w1, w2}
  NoWorker = NoWorker
  NumDirs = 2
  Disks <- MCDisks
  Metadata <- MCMetadata
  Contents = {"x", "y"}
  MaxEdits = 1
  MaxRuns = 2
INVARIANTS NoSetWithoutVersion CompletedRunMatchesDisk
PROPERTIES RunsEnd
