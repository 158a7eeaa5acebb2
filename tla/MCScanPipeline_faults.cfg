SPECIFICATION PipelineSpec
CONSTANTS
  NFiles = 1
  Paths <- Files
  Key <- MCKey
  Roots <- MCRoots
  FilesOf <- MCFilesOf
  FullRoot = "/"
  CheckpointInterval = 1
  SavesMayFail = TRUE
  TasksMayThrow = TRUE
  BatchSize = 1
  MaxGeneration = 3
  DatabaseMayFail = TRUE
  OpenMayFail = TRUE
  MaxVersion = 2
  MaxSignatures = 3
  EmptySignatures = {2}
  EditsMidLoad = FALSE
  QuarantineMayFail = TRUE
  Matches <- MCMatches
INVARIANTS
  PipelineTypeOK
  VerdictsAreCurrent
  SilentOnlyAfterReadError
