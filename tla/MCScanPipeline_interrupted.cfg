SPECIFICATION PipelineSpec
CONSTANTS
  NFiles = 2
  Paths <- Files
  Key <- MCKey
  Roots <- MCRoots
  FilesOf <- MCFilesOf
  FullRoot = "/"
  CheckpointInterval = 1
  SavesMayFail = FALSE
  TasksMayThrow = FALSE
  BatchSize = 2
  MaxGeneration = 3
  DatabaseMayFail = FALSE
  OpenMayFail = FALSE
  MaxVersion = 1
  MaxSignatures = 1
  EmptySignatures = {}
  EditsMidLoad = FALSE
  QuarantineMayFail = FALSE
  Matches = {}
PROPERTY InterruptionKeepsCache
