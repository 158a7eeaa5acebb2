SPECIFICATION Spec
CONSTANTS
  NFiles = 4
  Key <- PlainKey
  Roots <- MCRoots
  FilesOf <- MCFilesOf
  CheckpointInterval = 2
  SavesMayFail = TRUE
  TasksMayThrow = TRUE
INVARIANTS
  TypeOK
  CheckpointSafe
  SafetyInv
PROPERTIES
  CompletedOnlyWhenDone
  ResumePointAdvances
