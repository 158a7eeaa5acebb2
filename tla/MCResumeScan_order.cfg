SPECIFICATION Spec
CONSTANTS
  NFiles = 3
  Key <- DottedKey
  Roots <- MCRoots
  FilesOf <- MCFilesOf
  CheckpointInterval = 1
  SavesMayFail = FALSE
  TasksMayThrow = FALSE
INVARIANT CheckpointSafe
