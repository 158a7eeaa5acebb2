SPECIFICATION Spec
CONSTANTS
  LastByte = 1
  SignatureLists <- Few
  Contents <- FewContents
  ChunkSize = 2
  ReadsMayFail = TRUE
INVARIANT UnreadableIsNotClean
CHECK_DEADLOCK FALSE
