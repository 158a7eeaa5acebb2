SPECIFICATION Spec
CONSTANTS
  LastByte = 1
  SignatureLists <- MCLists
  Contents <- MCContents
  ChunkSize = 2
  ReadsMayFail = TRUE
INVARIANTS
  TypeOK
  TransitionsComplete
  OutputsComplete
  MatchesAreExact
CHECK_DEADLOCK FALSE
