SPECIFICATION PipelineFairSpec
CONSTANTS
  NFiles = 2
  Paths <- Files
  Key <- MCKey
  Roots <- MCRoots
  FilesOf <- MCFilesOf
  FullRoot = "/"
  CheckpointInterval = 1
  SavesMayFail = FALSE
  TasksMayThrow = FALSE
  BatchSize = 2
  MaxGeneration = 5
  DatabaseMayFail = FALSE
  OpenMayFail = FALSE
  MaxVersion = 1
  MaxSignatures = 1
  EmptySignatures = {}
  EditsMidLoad = FALSE
  QuarantineMayFail = TRUE
  Matches <- MCMatches
INVARIANTS
  DrainedMeansCompleted
  StampsAreDurable
  SummaryAddsUp
PROPERTIES
  PruneOnlyAfterFullScan
  PruneKeepsSeen
  PruneLeavesCurrent
  GenerationAdvances
  EveryScanEnds
